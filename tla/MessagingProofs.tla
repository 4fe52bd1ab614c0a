--------------------------- MODULE MessagingProofs ---------------------------
(***************************************************************************)
(* Lemmas about the operators of Messaging, for whoever steps a session:   *)
(* what each returns.                                                      *)
(***************************************************************************)
EXTENDS Messaging, TLAPS

USE DEF Party

LEMMA KdfRootType ==
  ASSUME NEW root \in RootKey, NEW secret \in Secret
  PROVE  /\ KdfRoot(root, secret).root \in RootKey
         /\ KdfRoot(root, secret).chain \in ChainKey
  BY DEF KdfRoot, RootKey, ChainKey

LEMMA ExchangeType ==
  ASSUME NEW a \in KeyPair, NEW b \in KeyPair
  PROVE  Exchange(a, b) \in Secret
  BY DEF Exchange, Secret

LEMMA NoKeyType == NoKey \in ChainKey
  BY DEF NoKey, ChainKey, RootKey

LEMMA FirstKeysType == EK \in KeyPair /\ SPK \in KeyPair /\ OPK \in KeyPair
  BY DEF EK, SPK, OPK, KeyPair

LEMMA HandshakeRootType ==
  ASSUME NEW ephemeral \in KeyPair, NEW opk \in BOOLEAN
  PROVE  LET root0 == Root0(ephemeral, opk)
         IN  /\ root0 \in Secret
             /\ HandshakeRoot(root0, ephemeral).root \in RootKey
             /\ HandshakeRoot(root0, ephemeral).chain \in ChainKey
  <1> DEFINE root0 == Root0(ephemeral, opk)
  <1>1. root0 \in Secret
    BY FirstKeysType DEF Root0, Secret
  <1>2. <<root0>> \in RootKey /\ Exchange(ephemeral, SPK) \in Secret
    BY <1>1, FirstKeysType, ExchangeType DEF RootKey
  <1> HIDE DEF root0
  <1> QED
    BY <1>1, <1>2, KdfRootType DEF HandshakeRoot, root0

LEMMA NewSessionType ==
  ASSUME NEW root0 \in Secret, NEW root \in RootKey, NEW sending \in ChainKey,
         NEW receiving \in ChainKey, NEW self \in KeyPair, NEW remote \in KeyPair,
         NEW sig_known \in BOOLEAN
  PROVE  NewSession(root0, root, sending, receiving, self, remote, sig_known) \in SessionState
  BY DEF NewSession, SessionState

LEMMA HandshakeType ==
  ASSUME NEW ephemeral \in KeyPair, NEW opk \in BOOLEAN, NEW sig_known \in BOOLEAN
  PROVE  /\ InitiatorSession(opk) \in SessionState
         /\ ResponderSession(ephemeral, opk, sig_known) \in SessionState
         /\ NoSession \in SessionState
  <1>1. InitiatorSession(opk) \in SessionState
    BY FirstKeysType, HandshakeRootType, NoKeyType, NewSessionType DEF InitiatorSession
  <1>2. ResponderSession(ephemeral, opk, sig_known) \in SessionState
    BY FirstKeysType, HandshakeRootType, NoKeyType, NewSessionType DEF ResponderSession
  <1>3. {} \in Secret /\ <<>> \in RootKey
    BY DEF Secret, RootKey
  <1>4. NoSession \in SessionState
    BY <1>3, FirstKeysType, NoKeyType, NewSessionType DEF NoSession
  <1> QED
    BY <1>1, <1>2, <1>4

LEMMA ReadyToSendType ==
  ASSUME NEW s \in SessionState
  PROVE  ReadyToSend(s) \in SessionState
  <1>1. Generate(s.dh_self) \in KeyPair
    BY DEF Generate, KeyPair, SessionState
  <1>2. Exchange(Generate(s.dh_self), s.dh_remote) \in Secret
    BY <1>1, ExchangeType DEF SessionState
  <1>3. s.root_key \in RootKey
    BY DEF SessionState
  <1> QED
    BY <1>1, <1>2, <1>3, KdfRootType DEF ReadyToSend, RatchetSend, SessionState

LEMMA AfterSendType ==
  ASSUME NEW s \in SessionState, NEW mode \in Mode
  PROVE  AfterSend(s, mode) \in SessionState
  <1>1. /\ KdfChain(s.chain_key).message \in ChainKey
        /\ KdfChain(s.chain_key).next \in ChainKey
    BY DEF KdfChain, ChainKey, SessionState
  <1>2. PendingAfter(s, mode) \in SUBSET PendingKey
    BY <1>1 DEF PendingAfter, Queue, Kept, PendingKey, SessionState
  <1>3. s.outgoing_index + 1 \in Nat /\ s.send_counter + 1 \in Nat
    BY DEF SessionState
  <1>4. \A index, counter \in Nat, pending \in SUBSET PendingKey, chain \in ChainKey :
          [s EXCEPT !.outgoing_index = index, !.pending_mac_keys = pending,
                    !.chain_key = chain, !.send_counter = counter] \in SessionState
    BY DEF SessionState
  <1> QED
    BY <1>1, <1>2, <1>3, <1>4 DEF AfterSend

LEMMA OutgoingType ==
  ASSUME NEW p \in Party, NEW s \in SessionState, NEW mode \in Mode, NEW opk \in BOOLEAN
  PROVE  Outgoing(p, s, mode, opk) \in Message
  <1>1. KdfChain(s.chain_key).message \in ChainKey
    BY DEF KdfChain, SessionState
  <1>2. \A now : {e.key : e \in Revealable(s.pending_mac_keys, now)} \in SUBSET ChainKey
    BY DEF Revealable, PendingKey, SessionState
  <1> QED
    BY <1>1, <1>2 DEF Outgoing, Message, SessionState

LEMMA FollowingType ==
  ASSUME NEW s \in SessionState, NEW remote \in KeyPair
  PROVE  Following(s, remote) \in SessionState
  <1>1. Exchange(s.dh_self, remote) \in Secret
    BY ExchangeType DEF SessionState
  <1>2. s.root_key \in RootKey
    BY DEF SessionState
  <1> QED
    BY <1>1, <1>2, KdfRootType DEF Following, RatchetReceive, SessionState

LEMMA ChainAtType ==
  ASSUME NEW s \in SessionState, NEW counter \in Nat, counter >= s.recv_counter
  PROVE  /\ ChainAt(s, counter) \in ChainKey
         /\ ChainAt(s, counter).seed = s.receiving_chain_key.seed
         /\ ChainAt(s, counter).step =
              s.receiving_chain_key.step + (counter - s.recv_counter)
  BY DEF ChainAt, ChainKey, SessionState

LEMMA AfterKeyType ==
  ASSUME NEW s \in SessionState, NEW m \in Message
  PROVE  AfterKey(s, m) \in SessionState
  <1>1. CASE IsOld(s, m)
    BY <1>1 DEF AfterKey
  <1>2. CASE ~IsOld(s, m)
    <2>1. m.counter \in Nat /\ s.recv_counter \in Nat /\ m.counter >= s.recv_counter
      BY <1>2 DEF IsOld, Message, SessionState
    <2>2. KdfChain(ChainAt(s, m.counter)).next \in ChainKey
      BY <2>1, ChainAtType DEF KdfChain, ChainKey
    <2>3. \A n \in Skipped(s, m.counter) :
            n \in Nat /\ KdfChain(ChainAt(s, n)).message \in ChainKey
      BY <2>1, ChainAtType DEF KdfChain, Skipped
    <2>4. \A n \in Skipped(s, m.counter) :
            [chain |-> s.dh_remote, counter |-> n,
             key |-> KdfChain(ChainAt(s, n)).message] \in CachedKey
      BY <2>3 DEF CachedKey, SessionState
    <2>5. \A cache \in SUBSET CachedKey, chain \in ChainKey, counter \in Nat :
            [s EXCEPT !.previous_keys = cache, !.receiving_chain_key = chain,
                      !.recv_counter = counter] \in SessionState
      BY DEF SessionState
    <2>6. {[chain |-> s.dh_remote, counter |-> n, key |-> KdfChain(ChainAt(s, n)).message] :
             n \in Skipped(s, m.counter)} \in SUBSET CachedKey
      BY <2>4
    <2>7. s.previous_keys \in SUBSET CachedKey /\ m.counter + 1 \in Nat
      BY <2>1 DEF SessionState
    <2> QED
      BY <1>2, <2>2, <2>5, <2>6, <2>7 DEF AfterKey, FastForward
  <1> QED
    BY <1>1, <1>2
=============================================================================
