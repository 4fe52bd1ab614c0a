--------------------------- MODULE BenchmarkProofs ---------------------------
(***************************************************************************)
(* The baseline's ratchet is that of OTR++, and a trial fails only for     *)
(* what was lost, for every rotation interval, every length of a trial and *)
(* whatever is lost.                                                       *)
(***************************************************************************)
EXTENDS Benchmark, MessagingProofs

USE DEF Party

Baseline ==
  [root_key : RootKey, sending_chain_key : ChainKey, receiving_chain_key : ChainKey,
   dh_self : KeyPair, dh_remote : KeyPair, send_counter : Nat, recv_counter : Nat]
Pairs == [otrpp : Message, baseline : [counter : Nat, ephemeral : KeyPair, key : ChainKey]]

Types ==
  /\ mode \in Mode
  /\ session \in [Party -> SessionState]
  /\ open \in BOOLEAN
  /\ party \in [Party -> Baseline]
  /\ flight \subseteq Pairs

LEMMA RatchetType ==
  ASSUME NEW s \in SessionState
  PROVE  Ratchet(s) \in Baseline
  BY DEF Ratchet, Baseline, SessionState

(* The two ends of the baseline as setup makes them are those of the       *)
(* handshake (handshake.py).                                               *)
LEMMA SetupRatchets ==
  /\ Setup[Initiator] = Ratchet(InitiatorSession(TRUE))
  /\ Setup[Responder] = Ratchet(ResponderSession(EK, TRUE, TRUE))
  /\ Setup \in [Party -> Baseline]
  <1>1. /\ Setup[Initiator] = Ratchet(InitiatorSession(TRUE))
        /\ Setup[Responder] = Ratchet(ResponderSession(EK, TRUE, TRUE))
    BY PartiesDiffer
    DEF Setup, RatchetParty, Ratchet, InitiatorSession, ResponderSession, NewSession
  <1>2. /\ Ratchet(InitiatorSession(TRUE)) \in Baseline
        /\ Ratchet(ResponderSession(EK, TRUE, TRUE)) \in Baseline
    BY FirstKeysType, HandshakeType, RatchetType
  <1> QED BY <1>1, <1>2 DEF Setup

-----------------------------------------------------------------------------
(* Each operator of the baseline is that of Messaging, on the ratchet:     *)
(* what it makes of a ratchet is a ratchet again, whose fields are those   *)
(* of the session that Messaging's operator leaves.                        *)
LEMMA RatchetIs ==
  ASSUME NEW r \in Baseline, NEW s \in SessionState,
         r.root_key = s.root_key, r.sending_chain_key = s.chain_key,
         r.receiving_chain_key = s.receiving_chain_key,
         r.dh_self = s.dh_self, r.dh_remote = s.dh_remote,
         r.send_counter = s.send_counter, r.recv_counter = s.recv_counter
  PROVE  r = Ratchet(s)
  <1>1. r = [root_key |-> r.root_key, sending_chain_key |-> r.sending_chain_key,
             receiving_chain_key |-> r.receiving_chain_key,
             dh_self |-> r.dh_self, dh_remote |-> r.dh_remote,
             send_counter |-> r.send_counter, recv_counter |-> r.recv_counter]
    BY DEF Baseline
  <1> QED
    BY <1>1 DEF Ratchet

LEMMA RatchetFields ==
  ASSUME NEW s \in SessionState
  PROVE  /\ Ratchet(s).root_key = s.root_key
         /\ Ratchet(s).sending_chain_key = s.chain_key
         /\ Ratchet(s).receiving_chain_key = s.receiving_chain_key
         /\ Ratchet(s).dh_self = s.dh_self /\ Ratchet(s).dh_remote = s.dh_remote
         /\ Ratchet(s).send_counter = s.send_counter
         /\ Ratchet(s).recv_counter = s.recv_counter
  BY DEF Ratchet

LEMMA SameRotation ==
  ASSUME NEW s \in SessionState, s.chain_key # NoKey
  PROVE  MaybeRotateSend(Ratchet(s)) = Ratchet(ReadyToSend(s))
  <1> DEFINE fresh == Generate(s.dh_self)
             derived == KdfRoot(s.root_key, Exchange(fresh, s.dh_remote))
             r == [Ratchet(s) EXCEPT !.dh_self = fresh, !.root_key = derived.root,
                                     !.sending_chain_key = derived.chain,
                                     !.send_counter = 0]
  <1>1. fresh \in KeyPair /\ derived.root \in RootKey /\ derived.chain \in ChainKey
    <2>1. fresh \in KeyPair
      BY DEF Generate, KeyPair, SessionState
    <2>2. Exchange(fresh, s.dh_remote) \in Secret /\ s.root_key \in RootKey
      BY <2>1, ExchangeType DEF SessionState
    <2> HIDE DEF fresh
    <2> QED
      BY <2>1, <2>2, KdfRootType
  <1>2. CASE MaybeRotate(s)
    <2>1. ReadyToSend(s) =
            [s EXCEPT !.dh_self = fresh, !.root_key = derived.root,
                      !.chain_key = derived.chain, !.send_counter = 0]
      BY <1>2 DEF ReadyToSend, RatchetSend
    <2>2. MaybeRotateSend(Ratchet(s)) = r
      BY <1>2, RatchetFields DEF MaybeRotateSend, MaybeRotate
    <2> HIDE DEF fresh, derived
    <2>3. Ratchet(s) \in Baseline
      BY RatchetType
    <2>4. r \in Baseline
      BY <1>1, <2>3 DEF Baseline
    <2>5. /\ r.root_key = derived.root /\ r.sending_chain_key = derived.chain
          /\ r.receiving_chain_key = s.receiving_chain_key
          /\ r.dh_self = fresh /\ r.dh_remote = s.dh_remote
          /\ r.send_counter = 0 /\ r.recv_counter = s.recv_counter
      BY <2>3, RatchetFields DEF Baseline
    <2>6. /\ ReadyToSend(s).root_key = derived.root
          /\ ReadyToSend(s).chain_key = derived.chain
          /\ ReadyToSend(s).receiving_chain_key = s.receiving_chain_key
          /\ ReadyToSend(s).dh_self = fresh /\ ReadyToSend(s).dh_remote = s.dh_remote
          /\ ReadyToSend(s).send_counter = 0
          /\ ReadyToSend(s).recv_counter = s.recv_counter
      BY <2>1 DEF SessionState
    <2>7. ReadyToSend(s) \in SessionState
      BY ReadyToSendType
    <2> HIDE DEF r
    <2> QED
      BY <2>2, <2>4, <2>5, <2>6, <2>7, RatchetIs
  <1>3. CASE ~MaybeRotate(s)
    BY <1>3, RatchetFields DEF MaybeRotateSend, MaybeRotate, ReadyToSend
  <1> QED
    BY <1>2, <1>3

LEMMA SameSend ==
  ASSUME NEW s \in SessionState, NEW mo \in Mode, NEW opk \in BOOLEAN
  PROVE  /\ BaselineAfterSend(Ratchet(s)) = Ratchet(AfterSend(s, mo))
         /\ LET b == BaselineMessage(Ratchet(s))
                m == Outgoing(Initiator, s, mo, opk)
            IN  /\ b.counter = m.counter /\ b.ephemeral = m.ephemeral /\ b.key = m.key
                /\ b \in [counter : Nat, ephemeral : KeyPair, key : ChainKey]
  <1> DEFINE next == KdfChain(s.chain_key).next
             r == [Ratchet(s) EXCEPT !.sending_chain_key = next,
                                     !.send_counter = s.send_counter + 1]
             after == AfterSend(s, mo)
  <1>1. /\ KdfChain(s.chain_key).message \in ChainKey /\ next \in ChainKey
        /\ s.send_counter \in Nat /\ s.send_counter + 1 \in Nat
    BY DEF KdfChain, ChainKey, SessionState
  <1>2. BaselineAfterSend(Ratchet(s)) = Ratchet(after)
    <2>1. BaselineAfterSend(Ratchet(s)) = r
      BY RatchetFields DEF BaselineAfterSend, Ratchet
    <2>2. Ratchet(s) \in Baseline /\ after \in SessionState
      BY RatchetType, AfterSendType
    <2>3. /\ after.root_key = s.root_key /\ after.chain_key = next
          /\ after.receiving_chain_key = s.receiving_chain_key
          /\ after.dh_self = s.dh_self /\ after.dh_remote = s.dh_remote
          /\ after.send_counter = s.send_counter + 1
          /\ after.recv_counter = s.recv_counter
      BY DEF AfterSend, SessionState
    <2> HIDE DEF next, after
    <2>4. r \in Baseline
      BY <1>1, <2>2 DEF Baseline
    <2>5. /\ r.root_key = s.root_key /\ r.sending_chain_key = next
          /\ r.receiving_chain_key = s.receiving_chain_key
          /\ r.dh_self = s.dh_self /\ r.dh_remote = s.dh_remote
          /\ r.send_counter = s.send_counter + 1 /\ r.recv_counter = s.recv_counter
      BY <2>2, RatchetFields DEF Baseline
    <2> HIDE DEF r
    <2> QED
      BY <2>1, <2>2, <2>3, <2>4, <2>5, RatchetIs
  <1> QED
    BY <1>1, <1>2 DEF BaselineMessage, Ratchet, Outgoing, SessionState

LEMMA SameFollowing ==
  ASSUME NEW s \in SessionState, NEW remote \in KeyPair
  PROVE  BaselineFollowing(Ratchet(s), remote) = Ratchet(Following(s, remote))
  <1> DEFINE derived == KdfRoot(s.root_key, Exchange(s.dh_self, remote))
             r == [Ratchet(s) EXCEPT !.dh_remote = remote, !.root_key = derived.root,
                                     !.receiving_chain_key = derived.chain,
                                     !.recv_counter = 0]
             after == RatchetReceive(s, remote)
  <1>1. CASE remote # s.dh_remote
    <2>1. BaselineFollowing(Ratchet(s), remote) = r
      BY <1>1, RatchetFields DEF BaselineFollowing
    <2>2. Following(s, remote) = after
      BY <1>1 DEF Following
    <2>3. after \in SessionState
      BY <2>2, FollowingType
    <2>4. /\ after.root_key = derived.root /\ after.chain_key = s.chain_key
          /\ after.receiving_chain_key = derived.chain
          /\ after.dh_self = s.dh_self /\ after.dh_remote = remote
          /\ after.send_counter = s.send_counter /\ after.recv_counter = 0
      BY DEF RatchetReceive, SessionState
    <2>5. Exchange(s.dh_self, remote) \in Secret /\ s.root_key \in RootKey
      BY ExchangeType DEF SessionState
    <2>6. derived.root \in RootKey /\ derived.chain \in ChainKey
      BY <2>5, KdfRootType
    <2>7. Ratchet(s) \in Baseline
      BY RatchetType
    <2> HIDE DEF derived, after
    <2>8. r \in Baseline
      BY <2>6, <2>7 DEF Baseline
    <2>9. /\ r.root_key = derived.root /\ r.sending_chain_key = s.chain_key
          /\ r.receiving_chain_key = derived.chain
          /\ r.dh_self = s.dh_self /\ r.dh_remote = remote
          /\ r.send_counter = s.send_counter /\ r.recv_counter = 0
      BY <2>7, RatchetFields DEF Baseline
    <2> HIDE DEF r
    <2> QED
      BY <2>1, <2>2, <2>3, <2>4, <2>8, <2>9, RatchetIs
  <1>2. CASE remote = s.dh_remote
    BY <1>2, RatchetFields DEF BaselineFollowing, Following
  <1> QED
    BY <1>1, <1>2

LEMMA SameReceive ==
  ASSUME NEW s \in SessionState, NEW m \in Message, NEW b,
         b.counter = m.counter, ~IsOld(s, m)
  PROVE  BaselineAfterReceive(Ratchet(s), b) = Ratchet(AfterKey(s, m))
  <1> DEFINE next == KdfChain(ChainAt(s, m.counter)).next
             r == [Ratchet(s) EXCEPT !.receiving_chain_key = next,
                                     !.recv_counter = m.counter + 1]
             after == AfterKey(s, m)
  <1>1. /\ m.counter \in Nat /\ s.recv_counter \in Nat /\ s.recv_counter <= m.counter
        /\ Ratchet(s).recv_counter = s.recv_counter
        /\ Ratchet(s).receiving_chain_key = s.receiving_chain_key
    BY DEF Message, SessionState, IsOld, Ratchet
  <1>2. BaselineSkipped(Ratchet(s), b) = m.counter - s.recv_counter
    BY <1>1 DEF BaselineSkipped
  <1>3. BaselineKey(Ratchet(s), b) = ChainAt(s, m.counter)
    BY <1>1, <1>2 DEF BaselineKey, ChainAt
  <1>4. /\ s.recv_counter + (m.counter - s.recv_counter) + 1 = m.counter + 1
        /\ m.counter + 1 \in Nat
    BY <1>1
  <1>5. BaselineAfterReceive(Ratchet(s), b) = r
    BY <1>1, <1>2, <1>3, <1>4, RatchetFields DEF BaselineAfterReceive, Ratchet
  <1>6. /\ after.root_key = s.root_key /\ after.chain_key = s.chain_key
        /\ after.receiving_chain_key = next
        /\ after.dh_self = s.dh_self /\ after.dh_remote = s.dh_remote
        /\ after.send_counter = s.send_counter /\ after.recv_counter = m.counter + 1
    BY DEF AfterKey, FastForward, SessionState
  <1>7. ChainAt(s, m.counter) \in ChainKey
    BY <1>1, ChainAtType
  <1>8. next \in ChainKey
    BY <1>7 DEF KdfChain, ChainKey
  <1>9. Ratchet(s) \in Baseline /\ after \in SessionState
    BY RatchetType, AfterKeyType
  <1> HIDE DEF next, after
  <1>10. r \in Baseline
    BY <1>4, <1>8, <1>9 DEF Baseline
  <1>11. /\ r.root_key = s.root_key /\ r.sending_chain_key = s.chain_key
         /\ r.receiving_chain_key = next
         /\ r.dh_self = s.dh_self /\ r.dh_remote = s.dh_remote
         /\ r.send_counter = s.send_counter /\ r.recv_counter = m.counter + 1
    BY <1>9, RatchetFields DEF Baseline
  <1> HIDE DEF r
  <1> QED
    BY <1>5, <1>6, <1>9, <1>10, <1>11, RatchetIs DEF after

-----------------------------------------------------------------------------
(***************************************************************************)
(* The inductive invariant.  Alice's ratchets are the same at every state. *)
(* Bob's are once he has the first message, and stay so because what is    *)
(* on its way is never behind him (AheadOfBob): a counter behind him is    *)
(* where the two receives part, OTR++ looking into its cache and the       *)
(* baseline taking its next key.                                           *)
(***************************************************************************)
Alice == session[Initiator]
Bob == session[Responder]

AliceSame ==
  /\ party[Initiator] = Ratchet(Alice)
  /\ Alice.chain_key.seed # <<>>
  /\ Alice.session_id = Root0(EK, TRUE)

OnItsWay ==
  \A m \in flight :
    /\ m.otrpp.counter = m.baseline.counter /\ m.otrpp.ephemeral = m.baseline.ephemeral
    /\ m.otrpp.session_id = Root0(EK, TRUE)
    /\ m.baseline.ephemeral = Alice.dh_self
    /\ m.baseline.counter + 1 = Alice.send_counter

AheadOfBob ==
  LET b == party[Responder]
  IN  /\ b.dh_remote.n <= Alice.dh_self.n
      /\ flight = {} /\ b.dh_remote = Alice.dh_self => b.recv_counter <= Alice.send_counter
      /\ \A m \in flight :
           b.dh_remote = m.baseline.ephemeral => b.recv_counter <= m.baseline.counter

BobSame == party[Responder] = Ratchet(Bob) /\ Bob.session_id = Root0(EK, TRUE)

(* Bob has no session yet, and the message that makes it is not lost.      *)
BobWaits ==
  /\ party[Responder] = Setup[Responder]
  /\ Sent \in {0, 1}
  /\ Sent = 0 => flight = {} /\ Alice.dh_self = EK /\ Alice.send_counter = 0
  /\ Sent = 1 => /\ flight # {}
                 /\ \A m \in flight : m.otrpp.opk = TRUE /\ m.otrpp.ephemeral = EK

IInv ==
  /\ Types /\ AliceSame /\ OnItsWay
  /\ 1 \notin lost => AheadOfBob /\ (IF open THEN BobSame ELSE BobWaits)

LEMMA SendFacts ==
  ASSUME NEW s \in SessionState, NEW mo \in Mode, s.chain_key.seed # <<>>
  PROVE  LET r == ReadyToSend(s)
             after == AfterSend(r, mo)
         IN  /\ \/ r.dh_self = s.dh_self /\ r.send_counter = s.send_counter
                \/ /\ r.dh_self.n = s.dh_self.n + 1 /\ r.send_counter = 0
                   /\ s.send_counter # 0
             /\ after.dh_self = r.dh_self /\ after.send_counter = r.send_counter + 1
             /\ r.session_id = s.session_id /\ after.session_id = s.session_id
             /\ after.outgoing_index = s.outgoing_index + 1
             /\ after.chain_key.seed # <<>>
  <1> DEFINE r == ReadyToSend(s)
             fresh == Generate(s.dh_self)
             derived == KdfRoot(s.root_key, Exchange(fresh, s.dh_remote))
  <1>1. s.chain_key # NoKey
    BY DEF NoKey
  <1>2. fresh \in KeyPair /\ fresh.n = s.dh_self.n + 1
    BY DEF Generate, KeyPair, SessionState
  <1>3. Exchange(fresh, s.dh_remote) \in Secret /\ s.root_key \in RootKey
    BY <1>2, ExchangeType DEF SessionState
  <1>4. derived.chain.seed # <<>>
    BY <1>3 DEF KdfRoot, RootKey
  <1>5. /\ \/ r.dh_self = s.dh_self /\ r.send_counter = s.send_counter
           \/ r.dh_self = fresh /\ r.send_counter = 0 /\ s.send_counter # 0
        /\ r.session_id = s.session_id /\ r.outgoing_index = s.outgoing_index
        /\ r.chain_key.seed # <<>>
    <2>1. CASE MaybeRotate(s)
      <3>1. s.send_counter # 0
        BY <1>1, <2>1 DEF MaybeRotate, SessionState
      <3>2. r = [s EXCEPT !.dh_self = fresh, !.root_key = derived.root,
                          !.chain_key = derived.chain, !.send_counter = 0]
        BY <2>1 DEF ReadyToSend, RatchetSend
      <3> HIDE DEF r, fresh, derived
      <3> QED
        BY <1>4, <3>1, <3>2 DEF SessionState
    <2>2. CASE ~MaybeRotate(s)
      BY <2>2 DEF ReadyToSend
    <2> QED
      BY <2>1, <2>2
  <1>6. r \in SessionState
    BY ReadyToSendType
  <1> HIDE DEF r, fresh
  <1>7. /\ AfterSend(r, mo).dh_self = r.dh_self
        /\ AfterSend(r, mo).send_counter = r.send_counter + 1
        /\ AfterSend(r, mo).session_id = r.session_id
        /\ AfterSend(r, mo).outgoing_index = r.outgoing_index + 1
        /\ AfterSend(r, mo).chain_key = KdfChain(r.chain_key).next
    BY <1>6 DEF AfterSend, SessionState
  <1>8. KdfChain(r.chain_key).next.seed = r.chain_key.seed
    BY <1>6 DEF KdfChain, ChainKey, SessionState
  <1> QED
    BY <1>2, <1>5, <1>7, <1>8 DEF r

LEMMA InitInvariant == Init => IInv
  <1> SUFFICES ASSUME Init PROVE IInv
    OBVIOUS
  <1>1. Types
    <2>1. InitiatorSession(TRUE) \in SessionState /\ NoSession \in SessionState
      BY FirstKeysType, HandshakeType
    <2>2. session \in [Party -> SessionState]
      BY <2>1 DEF Init
    <2> QED
      BY <2>2, SetupRatchets DEF Init, Types
  <1>2. party = Setup /\ flight = {} /\ ~open
    BY DEF Init
  <1>3. /\ Alice.dh_self = EK /\ Alice.send_counter = 0 /\ Alice.outgoing_index = 0
        /\ Alice.session_id = Root0(EK, TRUE)
        /\ Alice.chain_key = HandshakeRoot(Root0(EK, TRUE), EK).chain
        /\ Alice = InitiatorSession(TRUE)
    BY DEF Init, Alice, InitiatorSession, NewSession
  <1>4. \A x, y \in Secret : KdfRoot(<<x>>, y).chain.seed # <<>>
    BY DEF KdfRoot
  <1>5. HandshakeRoot(Root0(EK, TRUE), EK).chain.seed # <<>>
    <2>1. Root0(EK, TRUE) \in Secret /\ Exchange(EK, SPK) \in Secret
      BY FirstKeysType, ExchangeType DEF Root0, Secret
    <2> QED
      BY <1>4, <2>1 DEF HandshakeRoot
  <1>6. AliceSame
    BY <1>2, <1>3, <1>5, SetupRatchets DEF AliceSame
  <1>7. /\ Setup[Responder].dh_remote = EK /\ Setup[Responder].recv_counter = 0
    BY PartiesDiffer DEF Setup, RatchetParty
  <1>8. AheadOfBob
    <2>1. EK.n \in Nat
      BY FirstKeysType DEF KeyPair
    <2>2. Alice.dh_self = EK /\ Alice.send_counter = 0
      BY <1>3
    <2> QED
      BY <1>2, <1>7, <2>1, <2>2 DEF AheadOfBob
  <1>9. BobWaits
    <2>1. Sent = 0 /\ Alice.dh_self = EK /\ Alice.send_counter = 0
      BY <1>3 DEF Sent, Alice
    <2> QED
      BY <1>2, <2>1 DEF BobWaits
  <1> QED
    BY <1>1, <1>2, <1>6, <1>8, <1>9 DEF IInv, OnItsWay

LEMMA SendKeeps ==
  ASSUME IInv, Send
  PROVE  IInv'
  <1> DEFINE r == ReadyToSend(Alice)
             b == MaybeRotateSend(party[Initiator])
             first == Sent = 0
             m == [otrpp |-> Outgoing(Initiator, r, mode, first),
                   baseline |-> BaselineMessage(b)]
  <1>1. /\ flight = {} /\ flight' = {m}
        /\ session' = [session EXCEPT ![Initiator] = AfterSend(r, mode)]
        /\ party' = [party EXCEPT ![Initiator] = BaselineAfterSend(b)]
        /\ mode' = mode /\ open' = open /\ lost' = lost
    BY DEF Send, Alice
  <1>2. /\ Types /\ AliceSame /\ OnItsWay /\ mode \in Mode
        /\ Alice \in SessionState /\ Alice.chain_key.seed # <<>>
        /\ first \in BOOLEAN
    BY DEF IInv, Types, Alice, AliceSame
  <1> HIDE DEF first
  <1>3. r \in SessionState /\ AfterSend(r, mode) \in SessionState
    BY <1>2, ReadyToSendType, AfterSendType
  <1>4. b = Ratchet(r)
    BY <1>2, SameRotation DEF AliceSame, NoKey
  <1>5. /\ BaselineAfterSend(b) = Ratchet(AfterSend(r, mode))
        /\ m.baseline.counter = m.otrpp.counter
        /\ m.baseline.ephemeral = m.otrpp.ephemeral
        /\ m.baseline \in [counter : Nat, ephemeral : KeyPair, key : ChainKey]
    BY <1>2, <1>3, <1>4, SameSend
  <1>6. /\ m.otrpp \in Message /\ m.otrpp.session_id = r.session_id
        /\ m.otrpp.opk = first
        /\ m.otrpp.counter = r.send_counter /\ m.otrpp.ephemeral = r.dh_self
    BY <1>2, <1>3, OutgoingType DEF Outgoing
  <1> HIDE DEF m, b
  <1>7. /\ Alice' = AfterSend(r, mode) /\ Bob' = Bob
        /\ party'[Initiator] = Ratchet(Alice') /\ party'[Responder] = party[Responder]
    BY <1>1, <1>2, <1>5, PartiesDiffer DEF Types, Alice, Bob
  <1>8. Types'
    <2>1. m \in Pairs
      BY <1>5, <1>6 DEF Pairs, m
    <2>2. Ratchet(AfterSend(r, mode)) \in Baseline
      BY <1>3, RatchetType
    <2> HIDE DEF r
    <2> QED
      BY <1>1, <1>2, <1>3, <1>5, <2>1, <2>2 DEF Types
  <1>9. /\ \/ r.dh_self = Alice.dh_self /\ r.send_counter = Alice.send_counter
           \/ /\ r.dh_self.n = Alice.dh_self.n + 1 /\ r.send_counter = 0
              /\ Alice.send_counter # 0
        /\ Alice'.dh_self = r.dh_self /\ Alice'.send_counter = r.send_counter + 1
        /\ r.session_id = Alice.session_id /\ Alice'.session_id = Alice.session_id
        /\ Alice'.outgoing_index = Alice.outgoing_index + 1
        /\ Alice'.chain_key.seed # <<>>
    BY <1>2, <1>7, SendFacts
  <1> HIDE DEF r
  <1>10. AliceSame'
    BY <1>2, <1>7, <1>9 DEF AliceSame
  <1>11. OnItsWay'
    BY <1>1, <1>2, <1>5, <1>6, <1>9 DEF OnItsWay, AliceSame
  <1>12. ASSUME 1 \notin lost'
         PROVE  AheadOfBob' /\ (IF open' THEN BobSame' ELSE BobWaits')
    <2>1. AheadOfBob /\ (IF open THEN BobSame ELSE BobWaits)
      BY <1>1, <1>12 DEF IInv
    <2>2. AheadOfBob'
      <3>1. /\ party[Responder].dh_remote.n \in Nat /\ Alice.dh_self.n \in Nat
            /\ party[Responder].recv_counter \in Nat /\ r.send_counter \in Nat
        BY <1>2, <1>3 DEF Types, Baseline, KeyPair, SessionState
      <3>2. /\ party[Responder].dh_remote.n <= Alice.dh_self.n
            /\ party[Responder].dh_remote = Alice.dh_self =>
                 party[Responder].recv_counter <= Alice.send_counter
        BY <1>1, <2>1 DEF AheadOfBob
      <3>3. /\ Alice.dh_self.n <= r.dh_self.n
            /\ party[Responder].dh_remote = r.dh_self =>
                 party[Responder].recv_counter <= r.send_counter
        BY <1>9, <3>1, <3>2
      <3>4. /\ flight' # {} /\ \A x \in flight' : x = m
            /\ m.baseline.ephemeral = r.dh_self /\ m.baseline.counter = r.send_counter
            /\ Alice'.dh_self = r.dh_self
        BY <1>1, <1>5, <1>6, <1>9
      <3>5. party[Responder].dh_remote.n <= r.dh_self.n
        BY <1>3, <3>1, <3>2, <3>3 DEF SessionState, KeyPair
      <3> QED
        BY <1>7, <3>3, <3>4, <3>5 DEF AheadOfBob
    <2>3. CASE open
      BY <1>1, <1>7, <2>1, <2>2, <2>3 DEF BobSame
    <2>4. CASE ~open
      <3>1. BobWaits /\ Sent = 0 /\ Alice.outgoing_index = 0
        BY <1>1, <2>1, <2>4 DEF BobWaits, Sent, Alice
      <3>2. Sent' = 1
        BY <1>9, <3>1 DEF Sent, Alice
      <3>3. m.otrpp.opk = TRUE
        BY <1>6, <3>1 DEF first
      <3>4. m.otrpp.ephemeral = EK
        BY <1>6, <1>9, <3>1 DEF BobWaits
      <3>5. BobWaits'
        BY <1>1, <1>7, <3>1, <3>2, <3>3, <3>4 DEF BobWaits
      <3> QED
        BY <1>1, <2>2, <2>4, <3>5
    <2> QED
      BY <2>3, <2>4
  <1> QED
    BY <1>8, <1>10, <1>11, <1>12 DEF IInv

(* Whatever the baseline is given, it stays what it is.                    *)
LEMMA BaselineFollowingType ==
  ASSUME NEW b \in Baseline, NEW remote \in KeyPair
  PROVE  BaselineFollowing(b, remote) \in Baseline
  <1> DEFINE derived == KdfRoot(b.root_key, Exchange(b.dh_self, remote))
  <1>1. Exchange(b.dh_self, remote) \in Secret /\ b.root_key \in RootKey
    BY ExchangeType DEF Baseline
  <1>2. derived.root \in RootKey /\ derived.chain \in ChainKey
    BY <1>1, KdfRootType
  <1>3. BaselineFollowing(b, remote) =
          IF remote # b.dh_remote
          THEN [b EXCEPT !.dh_remote = remote, !.root_key = derived.root,
                         !.receiving_chain_key = derived.chain, !.recv_counter = 0]
          ELSE b
    BY DEF BaselineFollowing
  <1>4. \A root \in RootKey, chain \in ChainKey :
          [b EXCEPT !.dh_remote = remote, !.root_key = root,
                    !.receiving_chain_key = chain, !.recv_counter = 0] \in Baseline
    BY DEF Baseline
  <1> HIDE DEF derived
  <1> QED
    BY <1>2, <1>3, <1>4

LEMMA BaselineAfterReceiveType ==
  ASSUME NEW b \in Baseline, NEW m, m.counter \in Nat
  PROVE  BaselineAfterReceive(b, m) \in Baseline
  <1> DEFINE next == KdfChain(BaselineKey(b, m)).next
             counter == b.recv_counter + BaselineSkipped(b, m) + 1
  <1>1. b.recv_counter \in Nat /\ b.receiving_chain_key \in ChainKey
    BY DEF Baseline
  <1>2. BaselineSkipped(b, m) \in Nat
    BY <1>1 DEF BaselineSkipped
  <1>3. BaselineKey(b, m) \in ChainKey
    BY <1>1, <1>2 DEF BaselineKey, ChainKey
  <1>4. next \in ChainKey
    BY <1>3 DEF KdfChain, ChainKey
  <1>5. counter \in Nat
    BY <1>1, <1>2
  <1>6. BaselineAfterReceive(b, m) =
          [b EXCEPT !.receiving_chain_key = next, !.recv_counter = counter]
    BY DEF BaselineAfterReceive
  <1> HIDE DEF next, counter
  <1> QED
    BY <1>4, <1>5, <1>6 DEF Baseline

LEMMA SessionIdStays ==
  ASSUME NEW s \in SessionState, NEW m \in Message
  PROVE  /\ Following(s, m.ephemeral).session_id = s.session_id
         /\ Following(s, m.ephemeral).dh_remote = m.ephemeral
         /\ AfterKey(s, m).session_id = s.session_id
         /\ AfterKey(s, m).dh_remote = s.dh_remote
         /\ ~IsOld(s, m) => AfterKey(s, m).recv_counter = m.counter + 1
  <1>1. /\ Following(s, m.ephemeral).session_id = s.session_id
        /\ Following(s, m.ephemeral).dh_remote = m.ephemeral
    <2>1. CASE m.ephemeral # s.dh_remote
      BY <2>1 DEF Following, RatchetReceive, SessionState
    <2>2. CASE m.ephemeral = s.dh_remote
      BY <2>2 DEF Following
    <2> QED
      BY <2>1, <2>2
  <1>2. /\ AfterKey(s, m).session_id = s.session_id
        /\ AfterKey(s, m).dh_remote = s.dh_remote
        /\ ~IsOld(s, m) => AfterKey(s, m).recv_counter = m.counter + 1
    BY DEF AfterKey, FastForward, SessionState
  <1> QED
    BY <1>1, <1>2

LEMMA ReceiveKeeps ==
  ASSUME IInv, Receive
  PROVE  IInv'
  <1>1. PICK m \in flight :
          /\ session' = [session EXCEPT ![Responder] = OTRPPAfterReceive(m.otrpp)]
          /\ party' = [party EXCEPT ![Responder] = BaselineAfterReceive(
                         BaselineFollowing(party[Responder], m.baseline.ephemeral),
                         m.baseline)]
          /\ open' = TRUE /\ flight' = {} /\ mode' = mode /\ lost' = lost
    BY DEF Receive
  <1> DEFINE p == party[Responder]
             held == Held(m.otrpp)
             b == BaselineFollowing(p, m.baseline.ephemeral)
             f == Following(held, m.otrpp.ephemeral)
  <1>2. /\ Types /\ AliceSame /\ OnItsWay
        /\ m.otrpp \in Message /\ m.baseline.counter \in Nat
        /\ m.baseline.ephemeral \in KeyPair /\ p \in Baseline
        /\ m.otrpp.ephemeral \in KeyPair /\ m.otrpp.opk \in BOOLEAN
    BY DEF IInv, Types, Pairs, Message
  <1>3. /\ m.otrpp.counter = m.baseline.counter
        /\ m.otrpp.ephemeral = m.baseline.ephemeral
        /\ m.otrpp.session_id = Root0(EK, TRUE)
        /\ m.baseline.ephemeral = Alice.dh_self
        /\ m.baseline.counter + 1 = Alice.send_counter
    BY <1>2 DEF OnItsWay
  <1>4. held \in SessionState
    <2>1. ResponderSession(m.otrpp.ephemeral, m.otrpp.opk, TRUE) \in SessionState
      BY <1>2, HandshakeType
    <2>2. session[Responder] \in SessionState
      BY <1>2 DEF Types
    <2> QED
      BY <2>1, <2>2 DEF Held
  <1>5. f \in SessionState /\ AfterKey(f, m.otrpp) \in SessionState
    BY <1>2, <1>4, FollowingType, AfterKeyType
  <1>6. OTRPPAfterReceive(m.otrpp) =
          IF SameSession(m.otrpp) THEN AfterKey(f, m.otrpp) ELSE held
    BY DEF OTRPPAfterReceive
  <1>7. b \in Baseline /\ BaselineAfterReceive(b, m.baseline) \in Baseline
    BY <1>2, BaselineFollowingType, BaselineAfterReceiveType
  <1>8. SameSession(m.otrpp) <=> m.otrpp.session_id = held.session_id
    BY DEF SameSession
  <1> HIDE DEF held
  <1>9. /\ Alice' = Alice /\ party'[Initiator] = party[Initiator]
        /\ Bob' = OTRPPAfterReceive(m.otrpp)
        /\ party'[Responder] = BaselineAfterReceive(b, m.baseline)
    BY <1>1, <1>2, PartiesDiffer DEF Types, Alice, Bob
  <1>10. Types'
    <2>1. OTRPPAfterReceive(m.otrpp) \in SessionState
      BY <1>4, <1>5, <1>6
    <2> QED
      BY <1>1, <1>2, <1>7, <2>1 DEF Types
  <1>11. AliceSame' /\ OnItsWay'
    BY <1>1, <1>2, <1>9 DEF AliceSame, OnItsWay
  <1>12. ASSUME 1 \notin lost'
         PROVE  AheadOfBob' /\ open' /\ BobSame'
    <2>1. AheadOfBob /\ (IF open THEN BobSame ELSE BobWaits)
      BY <1>1, <1>12 DEF IInv
    <2>2. Ratchet(held) = p /\ held.session_id = Root0(EK, TRUE)
      <3>1. CASE open
        BY <2>1, <3>1 DEF BobSame, Bob, Held, held
      <3>2. CASE ~open
        <4>1. m.otrpp.opk = TRUE /\ m.otrpp.ephemeral = EK /\ p = Setup[Responder]
          BY <2>1, <3>2 DEF BobWaits
        <4>2. held = ResponderSession(EK, TRUE, TRUE)
          BY <3>2, <4>1 DEF Held, held
        <4>3. held.session_id = Root0(EK, TRUE)
          BY <4>2 DEF ResponderSession, NewSession
        <4> QED
          BY <4>1, <4>2, <4>3, SetupRatchets
      <3> QED
        BY <3>1, <3>2
    <2>3. OTRPPAfterReceive(m.otrpp) = AfterKey(f, m.otrpp)
      BY <1>3, <1>6, <1>8, <2>2
    <2>4. b = Ratchet(f)
      BY <1>2, <1>3, <1>4, <2>2, SameFollowing
    <2>5. b.recv_counter <= m.baseline.counter
      <3>1. p.dh_remote = m.baseline.ephemeral => p.recv_counter <= m.baseline.counter
        BY <2>1 DEF AheadOfBob
      <3>2. CASE m.baseline.ephemeral = p.dh_remote
        BY <3>1, <3>2 DEF BaselineFollowing
      <3>3. CASE m.baseline.ephemeral # p.dh_remote
        <4>1. b.recv_counter = 0
          BY <1>2, <3>3 DEF BaselineFollowing, Baseline
        <4> QED
          BY <1>2, <4>1
      <3> QED
        BY <3>2, <3>3
    <2>6. ~IsOld(f, m.otrpp)
      BY <1>2, <1>3, <1>5, <2>4, <2>5 DEF IsOld, Ratchet, SessionState
    <2>7. BaselineAfterReceive(b, m.baseline) = Ratchet(AfterKey(f, m.otrpp))
      BY <1>2, <1>3, <1>5, <2>4, <2>6, SameReceive
    <2>8. /\ AfterKey(f, m.otrpp).session_id = Root0(EK, TRUE)
          /\ AfterKey(f, m.otrpp).dh_remote = Alice.dh_self
          /\ AfterKey(f, m.otrpp).recv_counter = Alice.send_counter
      BY <1>2, <1>3, <1>4, <1>5, <2>2, <2>6, SessionIdStays
    <2>9. BobSame'
      BY <1>9, <2>3, <2>7, <2>8 DEF BobSame
    <2>10. /\ party'[Responder].dh_remote = Alice.dh_self
           /\ party'[Responder].recv_counter = Alice.send_counter
      BY <1>5, <1>9, <2>7, <2>8, RatchetFields
    <2>11. Alice.dh_self.n \in Nat /\ Alice.send_counter \in Nat
      BY <1>2 DEF Types, Alice, SessionState, KeyPair
    <2>12. AheadOfBob'
      BY <1>1, <1>9, <2>10, <2>11 DEF AheadOfBob
    <2> QED
      BY <1>1, <2>9, <2>12
  <1> QED
    BY <1>10, <1>11, <1>12 DEF IInv

LEMMA LoseKeeps ==
  ASSUME IInv, Lose
  PROVE  IInv'
  <1>1. /\ flight # {} /\ flight' = {} /\ lost' = lost \cup {Sent}
        /\ mode' = mode /\ session' = session /\ open' = open /\ party' = party
    BY DEF Lose
  <1>2. Types' /\ AliceSame' /\ OnItsWay'
    BY <1>1 DEF IInv, Types, AliceSame, OnItsWay, Alice
  <1>3. ASSUME 1 \notin lost'
        PROVE  AheadOfBob' /\ (IF open' THEN BobSame' ELSE BobWaits')
    <2>1. AheadOfBob /\ (IF open THEN BobSame ELSE BobWaits) /\ Sent # 1
      BY <1>1, <1>3 DEF IInv
    <2>2. open /\ BobSame'
      BY <1>1, <2>1 DEF BobWaits, BobSame, Bob
    <2>3. PICK m \in flight : TRUE
      BY <1>1
    <2>4. /\ m.baseline.ephemeral = Alice.dh_self
          /\ m.baseline.counter + 1 = Alice.send_counter
          /\ party[Responder].dh_remote = m.baseline.ephemeral =>
               party[Responder].recv_counter <= m.baseline.counter
      BY <2>1, <2>3 DEF IInv, OnItsWay, AheadOfBob
    <2>5. m.baseline.counter \in Nat /\ party[Responder].recv_counter \in Nat
      BY <2>3 DEF IInv, Types, Pairs, Baseline
    <2>6. AheadOfBob'
      BY <1>1, <2>1, <2>4, <2>5 DEF AheadOfBob, Alice
    <2> QED
      BY <1>1, <2>2, <2>6
  <1> QED
    BY <1>2, <1>3 DEF IInv

LEMMA InvariantHolds == Spec => []IInv
  <1>1. ASSUME IInv, [Next]_vars
        PROVE  IInv'
    <2>1. CASE Send
      BY <1>1, <2>1, SendKeeps
    <2>2. CASE Receive
      BY <1>1, <2>2, ReceiveKeeps
    <2>3. CASE Lose
      BY <1>1, <2>3, LoseKeeps
    <2>4. CASE UNCHANGED vars
      BY <1>1, <2>4
      DEF vars, IInv, Types, AliceSame, OnItsWay, AheadOfBob, BobSame, BobWaits, Alice,
          Bob, Sent
    <2> QED
      BY <1>1, <2>1, <2>2, <2>3, <2>4 DEF Next
  <1> QED
    BY <1>1, InitInvariant, PTL DEF Spec

-----------------------------------------------------------------------------
(* For every rotation interval, length of a trial and choice of the        *)
(* messages lost, X3DHRatchetBaselineAdapter steps the very ratchet of     *)
(* messaging.py: what the comparison measures beside it is what OTR++      *)
(* adds.                                                                   *)
THEOREM RatchetsAgree == Spec => []SameRatchet
  <1>1. IInv => SameRatchet
    BY DEF IInv, AliceSame, BobSame, SameRatchet, Alice, Bob
  <1> QED
    BY <1>1, InvariantHolds, PTL

-----------------------------------------------------------------------------
(***************************************************************************)
(* Why a trial fails.  Bob can follow Alice's chain as long as he has the  *)
(* root key it was derived from, so that he may miss what he likes of a    *)
(* chain but not all of it.                                                *)
(***************************************************************************)
AliceCounts ==
  LET a == party[Initiator]
  IN  /\ a.dh_self.owner = Initiator /\ a.dh_self.n >= 1 /\ a.dh_remote = SPK
      /\ a.sending_chain_key.step = a.send_counter
      /\ Sent = (a.dh_self.n - 1) * RotateInterval + a.send_counter
      /\ IF RotateInterval > 0 THEN a.send_counter <= RotateInterval ELSE a.dh_self.n = 1

BobCounts ==
  LET b == party[Responder]
  IN  /\ b.dh_self = SPK /\ b.dh_remote.owner = Initiator
      /\ b.receiving_chain_key.step = b.recv_counter

(* What is in flight is under the last key Alice took from her chain.      *)
UnderItsKey ==
  \A m \in flight :
    /\ m.otrpp.key = m.baseline.key
    /\ m.baseline.key = [seed |-> party[Initiator].sending_chain_key.seed,
                         step |-> m.baseline.counter]

(* Bob is in the chain Alice sends on ...                                  *)
InHerChain ==
  LET a == party[Initiator]
      b == party[Responder]
  IN  /\ b.dh_remote = a.dh_self /\ b.root_key = a.root_key
      /\ b.receiving_chain_key.seed = a.sending_chain_key.seed
      /\ flight = {} => b.recv_counter <= a.send_counter
      /\ \A m \in flight : b.recv_counter <= m.baseline.counter

(* ... or in the one before, and none of hers has reached him.             *)
OneBehind ==
  LET a == party[Initiator]
      b == party[Responder]
      derived == KdfRoot(b.root_key, Exchange(SPK, a.dh_self))
  IN  /\ b.dh_remote.n + 1 = a.dh_self.n
      /\ a.root_key = derived.root /\ a.sending_chain_key.seed = derived.chain.seed
      /\ \A i \in Nat : Sent - a.send_counter < i /\ i <= Sent =>
           i \in lost \/ (i = Sent /\ flight # {})

SigKnown == open => Bob.peer_sig_known

LossInv ==
  /\ AliceCounts /\ BobCounts /\ UnderItsKey /\ SigKnown
  /\ ChainLost \/ InHerChain \/ OneBehind
  /\ RefusedForLoss

LEMMA Quotient ==
  ASSUME NEW d \in Nat \ {0}, NEW a \in Nat, NEW c \in Nat, c * d <= a
  PROVE  c <= a \div d
  <1> DEFINE q == a \div d
  <1>1. q \in Nat /\ a < (q + 1) * d
    BY SMT
  <1> HIDE DEF q
  <1>2. ASSUME c >= q + 1
        PROVE  FALSE
    <2>1. c * d >= (q + 1) * d
      BY <1>1, <1>2
    <2> QED
      BY <1>1, <2>1
  <1> QED
    BY <1>1, <1>2 DEF q

LEMMA WholeTurns ==
  ASSUME NEW d \in Nat \ {0}, NEW c \in 1 .. d
  PROVE  c % d = 0 <=> c = d
  <1>1. CASE c = d
    BY <1>1
  <1>2. CASE c < d
    BY <1>2
  <1> QED
    BY <1>1, <1>2

(* A whole chain is missing once the next one has begun, and for good.     *)
LEMMA ChainIsLost ==
  ASSUME RotateInterval > 0, NEW c \in Nat \ {0}, Sent' \in Nat, c * RotateInterval < Sent',
         (c - 1) * RotateInterval + 1 .. c * RotateInterval \subseteq lost'
  PROVE  ChainLost'
  <1>1. RotateInterval \in Nat \ {0}
    BY RotateIntervalAssumption
  <1>2. PICK later \in Nat : later = Sent'
    OBVIOUS
  <1>3. c * RotateInterval <= later
    BY <1>1, <1>2
  <1>4. c <= later \div RotateInterval /\ later \div RotateInterval \in Nat
    BY <1>1, <1>3, Quotient
  <1>5. Chains' = later \div RotateInterval
    BY <1>1, <1>2 DEF Chains
  <1>6. c \in 1 .. Chains'
    BY <1>1, <1>4, <1>5
  <1> QED
    BY <1>6 DEF ChainLost

LEMMA StaysLost ==
  ASSUME ChainLost, Sent \in Nat, Sent' \in Nat, Sent <= Sent', lost \subseteq lost'
  PROVE  ChainLost'
  <1>1. PICK c \in 1 .. Chains :
          /\ c * RotateInterval < Sent
          /\ (c - 1) * RotateInterval + 1 .. c * RotateInterval \subseteq lost
    BY DEF ChainLost
  <1>2. RotateInterval > 0 /\ c \in Nat \ {0}
    BY <1>1 DEF Chains
  <1>3. c * RotateInterval \in Nat
    BY <1>2, RotateIntervalAssumption
  <1>4. c * RotateInterval < Sent'
    BY <1>1, <1>3
  <1>5. (c - 1) * RotateInterval + 1 .. c * RotateInterval \subseteq lost'
    BY <1>1
  <1> QED
    BY <1>2, <1>4, <1>5, ChainIsLost

(* A send of the baseline, rotation included.                              *)
LEMMA BaselineSends ==
  ASSUME NEW a \in Baseline
  PROVE  LET b == MaybeRotateSend(a)
             after == BaselineAfterSend(b)
             m == BaselineMessage(b)
             fresh == Generate(a.dh_self)
             derived == KdfRoot(a.root_key, Exchange(fresh, a.dh_remote))
         IN  /\ \/ /\ ~(RotateInterval > 0 /\ a.send_counter > 0
                          /\ a.send_counter % RotateInterval = 0)
                   /\ b = a
                \/ /\ RotateInterval > 0 /\ a.send_counter > 0
                   /\ a.send_counter % RotateInterval = 0
                   /\ b.dh_self = fresh /\ b.root_key = derived.root
                   /\ b.sending_chain_key = derived.chain /\ b.send_counter = 0
                   /\ b.dh_remote = a.dh_remote
             /\ after.dh_self = b.dh_self /\ after.dh_remote = b.dh_remote
             /\ after.root_key = b.root_key /\ after.send_counter = b.send_counter + 1
             /\ after.sending_chain_key.seed = b.sending_chain_key.seed
             /\ after.sending_chain_key.step = b.sending_chain_key.step + 1
             /\ m.counter = b.send_counter /\ m.ephemeral = b.dh_self
             /\ m.key = b.sending_chain_key
             /\ b \in Baseline
  <1> DEFINE b == MaybeRotateSend(a)
             fresh == Generate(a.dh_self)
             derived == KdfRoot(a.root_key, Exchange(fresh, a.dh_remote))
             r == [a EXCEPT !.dh_self = fresh, !.root_key = derived.root,
                            !.sending_chain_key = derived.chain, !.send_counter = 0]
  <1>1. fresh \in KeyPair
    BY DEF Generate, KeyPair, Baseline
  <1>2. Exchange(fresh, a.dh_remote) \in Secret /\ a.root_key \in RootKey
    BY <1>1, ExchangeType DEF Baseline
  <1>3. derived.root \in RootKey /\ derived.chain \in ChainKey
    <2> HIDE DEF fresh
    <2> QED
      BY <1>2, KdfRootType
  <1>4. b = IF RotateInterval > 0 /\ a.send_counter > 0 /\ a.send_counter % RotateInterval = 0
            THEN r ELSE a
    BY DEF MaybeRotateSend
  <1> HIDE DEF fresh, derived
  <1>5. /\ r \in Baseline /\ r.dh_self = fresh /\ r.root_key = derived.root
        /\ r.sending_chain_key = derived.chain /\ r.send_counter = 0
        /\ r.dh_remote = a.dh_remote
    BY <1>1, <1>3 DEF Baseline
  <1> HIDE DEF r, b
  <1>6. b \in Baseline
    BY <1>4, <1>5
  <1>7. /\ BaselineAfterSend(b).dh_self = b.dh_self
        /\ BaselineAfterSend(b).dh_remote = b.dh_remote
        /\ BaselineAfterSend(b).root_key = b.root_key
        /\ BaselineAfterSend(b).send_counter = b.send_counter + 1
        /\ BaselineAfterSend(b).sending_chain_key = KdfChain(b.sending_chain_key).next
    BY <1>6 DEF BaselineAfterSend, Baseline
  <1>8. /\ KdfChain(b.sending_chain_key).next.seed = b.sending_chain_key.seed
        /\ KdfChain(b.sending_chain_key).next.step = b.sending_chain_key.step + 1
    BY <1>6 DEF KdfChain, ChainKey, Baseline
  <1>9. /\ BaselineMessage(b).counter = b.send_counter
        /\ BaselineMessage(b).ephemeral = b.dh_self
        /\ BaselineMessage(b).key = b.sending_chain_key
    BY DEF BaselineMessage, KdfChain
  <1>10. \/ /\ ~(RotateInterval > 0 /\ a.send_counter > 0
                   /\ a.send_counter % RotateInterval = 0)
            /\ b = a
         \/ /\ RotateInterval > 0 /\ a.send_counter > 0
            /\ a.send_counter % RotateInterval = 0
            /\ b = r
    BY <1>4
  <1> QED
    BY <1>5, <1>6, <1>7, <1>8, <1>9, <1>10 DEF fresh, derived, b

LEMMA BaselineReceives ==
  ASSUME NEW b \in Baseline, NEW m, m.counter \in Nat
  PROVE  LET after == BaselineAfterReceive(b, m)
             n == BaselineSkipped(b, m)
         IN  /\ after.dh_self = b.dh_self /\ after.dh_remote = b.dh_remote
             /\ after.root_key = b.root_key
             /\ after.receiving_chain_key.seed = b.receiving_chain_key.seed
             /\ after.receiving_chain_key.step = b.receiving_chain_key.step + n + 1
             /\ after.recv_counter = b.recv_counter + n + 1
             /\ n = IF m.counter > b.recv_counter THEN m.counter - b.recv_counter ELSE 0
             /\ BaselineKey(b, m) = [seed |-> b.receiving_chain_key.seed,
                                     step |-> b.receiving_chain_key.step + n]
  <1> DEFINE after == BaselineAfterReceive(b, m)
             n == BaselineSkipped(b, m)
  <1>1. n = IF m.counter > b.recv_counter THEN m.counter - b.recv_counter ELSE 0
    BY DEF BaselineSkipped
  <1>2. n \in Nat
    BY <1>1 DEF Baseline
  <1>3. /\ BaselineKey(b, m) = [b.receiving_chain_key EXCEPT !.step = @ + n]
        /\ after = [b EXCEPT !.receiving_chain_key = KdfChain(BaselineKey(b, m)).next,
                             !.recv_counter = @ + n + 1]
    BY DEF BaselineKey, BaselineAfterReceive
  <1> HIDE DEF n, after
  <1>4. BaselineKey(b, m) = [seed |-> b.receiving_chain_key.seed,
                             step |-> b.receiving_chain_key.step + n]
    BY <1>2, <1>3 DEF Baseline, ChainKey
  <1>5. /\ KdfChain(BaselineKey(b, m)).next.seed = b.receiving_chain_key.seed
        /\ KdfChain(BaselineKey(b, m)).next.step = b.receiving_chain_key.step + n + 1
    BY <1>4 DEF KdfChain
  <1>6. /\ after.dh_self = b.dh_self /\ after.dh_remote = b.dh_remote
        /\ after.root_key = b.root_key /\ after.recv_counter = b.recv_counter + n + 1
        /\ after.receiving_chain_key = KdfChain(BaselineKey(b, m)).next
    BY <1>3 DEF Baseline
  <1> QED
    BY <1>1, <1>4, <1>5, <1>6 DEF n, after

LEMMA BaselineFollows ==
  ASSUME NEW p \in Baseline, NEW remote \in KeyPair
  PROVE  LET b == BaselineFollowing(p, remote)
             derived == KdfRoot(p.root_key, Exchange(p.dh_self, remote))
         IN  /\ b \in Baseline /\ b.dh_self = p.dh_self /\ b.dh_remote = remote
             /\ remote = p.dh_remote => b = p
             /\ remote # p.dh_remote =>
                  /\ b.root_key = derived.root /\ b.receiving_chain_key = derived.chain
                  /\ b.recv_counter = 0
  <1> DEFINE b == BaselineFollowing(p, remote)
             derived == KdfRoot(p.root_key, Exchange(p.dh_self, remote))
             r == [p EXCEPT !.dh_remote = remote, !.root_key = derived.root,
                            !.receiving_chain_key = derived.chain, !.recv_counter = 0]
  <1>1. b \in Baseline
    BY BaselineFollowingType
  <1>2. b = IF remote # p.dh_remote THEN r ELSE p
    BY DEF BaselineFollowing
  <1>3. /\ r.dh_self = p.dh_self /\ r.dh_remote = remote /\ r.root_key = derived.root
        /\ r.receiving_chain_key = derived.chain /\ r.recv_counter = 0
    <2> HIDE DEF derived
    <2> QED
      BY DEF Baseline
  <1> HIDE DEF b, derived, r
  <1> QED
    BY <1>1, <1>2, <1>3 DEF b, derived

(* The session bob takes a message with, where no session was made of a    *)
(* later message than the first.                                           *)
LEMMA HeldSame ==
  ASSUME IInv, SigKnown, NEW m \in flight
  PROVE  /\ m.otrpp.ephemeral = m.baseline.ephemeral /\ m.otrpp.counter = m.baseline.counter
         /\ m.otrpp.session_id = Root0(EK, TRUE)
         /\ m.otrpp \in Message /\ m.baseline.counter \in Nat /\ m.baseline.ephemeral \in KeyPair
         /\ Held(m.otrpp) \in SessionState /\ Held(m.otrpp).peer_sig_known
         /\ 1 \notin lost => /\ Ratchet(Held(m.otrpp)) = party[Responder]
                             /\ Held(m.otrpp).session_id = Root0(EK, TRUE)
  <1> DEFINE held == Held(m.otrpp)
  <1>1. /\ Types /\ OnItsWay
        /\ m.otrpp \in Message /\ m.baseline.counter \in Nat
        /\ m.baseline.ephemeral \in KeyPair
        /\ m.otrpp.ephemeral \in KeyPair /\ m.otrpp.opk \in BOOLEAN
    BY DEF IInv, Types, Pairs, Message
  <1>2. /\ m.otrpp.counter = m.baseline.counter
        /\ m.otrpp.ephemeral = m.baseline.ephemeral
        /\ m.otrpp.session_id = Root0(EK, TRUE)
    BY <1>1 DEF OnItsWay
  <1>3. held \in SessionState
    <2>1. ResponderSession(m.otrpp.ephemeral, m.otrpp.opk, TRUE) \in SessionState
      BY <1>1, HandshakeType
    <2>2. session[Responder] \in SessionState
      BY <1>1 DEF Types
    <2> QED
      BY <2>1, <2>2 DEF Held
  <1>4. held.peer_sig_known
    BY DEF Held, SigKnown, Bob, ResponderSession, NewSession
  <1>5. ASSUME 1 \notin lost
        PROVE  Ratchet(held) = party[Responder] /\ held.session_id = Root0(EK, TRUE)
    <2>1. IF open THEN BobSame ELSE BobWaits
      BY <1>5 DEF IInv
    <2>2. CASE open
      BY <2>1, <2>2 DEF BobSame, Bob, Held
    <2>3. CASE ~open
      <3>1. m.otrpp.opk = TRUE /\ m.otrpp.ephemeral = EK /\ party[Responder] = Setup[Responder]
        BY <2>1, <2>3 DEF BobWaits
      <3>2. held = ResponderSession(EK, TRUE, TRUE)
        BY <2>3, <3>1 DEF Held
      <3>3. held.session_id = Root0(EK, TRUE)
        BY <3>2 DEF ResponderSession, NewSession
      <3> QED
        BY <3>1, <3>2, <3>3, SetupRatchets
    <2> QED
      BY <2>2, <2>3
  <1> QED
    BY <1>1, <1>2, <1>3, <1>4, <1>5

LEMMA SigStays ==
  ASSUME NEW s \in SessionState, NEW m \in Message, s.peer_sig_known
  PROVE  /\ Following(s, m.ephemeral).peer_sig_known
         /\ AfterKey(Following(s, m.ephemeral), m).peer_sig_known
  <1>1. Following(s, m.ephemeral).peer_sig_known
    BY DEF Following, RatchetReceive, SessionState
  <1>2. Following(s, m.ephemeral) \in SessionState
    BY FollowingType DEF Message
  <1>3. \A t \in SessionState : t.peer_sig_known => AfterKey(t, m).peer_sig_known
    BY DEF AfterKey, FastForward, SessionState
  <1> QED
    BY <1>1, <1>2, <1>3

LEMMA InitLoss == Init => LossInv
  <1> SUFFICES ASSUME Init PROVE LossInv
    OBVIOUS
  <1>1. /\ flight = {} /\ ~open /\ refused = {} /\ party = Setup
        /\ session[Initiator] = InitiatorSession(TRUE)
    BY DEF Init
  <1>2. Sent = 0
    BY <1>1 DEF Sent, InitiatorSession, NewSession
  <1> DEFINE derived == HandshakeRoot(Root0(EK, TRUE), EK)
  <1>3. /\ party[Initiator] = RatchetParty(derived.root, derived.chain, NoKey, EK, SPK)
        /\ party[Responder] = RatchetParty(derived.root, NoKey, derived.chain, SPK, EK)
    BY <1>1, PartiesDiffer DEF Setup
  <1>4. derived.chain.step = 0
    BY DEF HandshakeRoot, KdfRoot
  <1> HIDE DEF derived
  <1>5. AliceCounts
    BY <1>2, <1>3, <1>4, RotateIntervalAssumption DEF AliceCounts, RatchetParty, EK
  <1>6. BobCounts
    BY <1>3, <1>4 DEF BobCounts, RatchetParty, EK
  <1>7. InHerChain
    BY <1>1, <1>3 DEF InHerChain, RatchetParty
  <1> QED
    BY <1>1, <1>5, <1>6, <1>7 DEF LossInv, UnderItsKey, SigKnown, RefusedForLoss

LEMMA SendKeepsLoss ==
  ASSUME IInv, IInv', LossInv, Send
  PROVE  LossInv'
  <1> DEFINE a == party[Initiator]
             p == party[Responder]
             b == MaybeRotateSend(a)
             fresh == Generate(a.dh_self)
             derived == KdfRoot(a.root_key, Exchange(fresh, a.dh_remote))
             r == ReadyToSend(Alice)
             m == [otrpp |-> Outgoing(Initiator, r, mode, Sent = 0),
                   baseline |-> BaselineMessage(b)]
             I == RotateInterval
  <1>1. /\ flight = {} /\ flight' = {m} /\ refused = {} /\ refused' = {}
        /\ session' = [session EXCEPT ![Initiator] = AfterSend(r, mode)]
        /\ party' = [party EXCEPT ![Initiator] = BaselineAfterSend(b)]
        /\ open' = open /\ lost' = lost
    BY DEF Send, Alice
  <1>2. /\ Types /\ AliceSame /\ mode \in Mode /\ a \in Baseline /\ p \in Baseline
        /\ Alice \in SessionState /\ Alice.chain_key.seed # <<>>
    BY DEF IInv, Types, Alice, AliceSame
  <1>3. r \in SessionState
    BY <1>2, ReadyToSendType
  <1>4. b = Ratchet(r)
    BY <1>2, SameRotation DEF AliceSame, NoKey
  <1>5. m.otrpp.key = m.baseline.key
    BY <1>2, <1>3, <1>4, SameSend
  <1>6. Sent' = Sent + 1 /\ Sent \in Nat
    <2>1. AfterSend(r, mode).outgoing_index = Alice.outgoing_index + 1
      BY <1>2, SendFacts
    <2> HIDE DEF r
    <2> QED
      BY <1>1, <1>2, <2>1 DEF Types, Sent, Alice, SessionState
  <1>7. a' = BaselineAfterSend(b) /\ p' = p /\ Bob' = Bob
    BY <1>1, <1>2, PartiesDiffer DEF Types, Bob
  <1>8. /\ \/ /\ ~(I > 0 /\ a.send_counter > 0 /\ a.send_counter % I = 0)
              /\ b = a
           \/ /\ I > 0 /\ a.send_counter > 0 /\ a.send_counter % I = 0
              /\ b.dh_self = fresh /\ b.root_key = derived.root
              /\ b.sending_chain_key = derived.chain /\ b.send_counter = 0
              /\ b.dh_remote = a.dh_remote
        /\ a'.dh_self = b.dh_self /\ a'.dh_remote = b.dh_remote /\ a'.root_key = b.root_key
        /\ a'.send_counter = b.send_counter + 1
        /\ a'.sending_chain_key.seed = b.sending_chain_key.seed
        /\ a'.sending_chain_key.step = b.sending_chain_key.step + 1
        /\ m.baseline.counter = b.send_counter /\ m.baseline.ephemeral = b.dh_self
        /\ m.baseline.key = b.sending_chain_key
        /\ b \in Baseline
    BY <1>2, <1>7, BaselineSends
  <1>9. /\ a.dh_self.owner = Initiator /\ a.dh_self.n >= 1 /\ a.dh_remote = SPK
        /\ a.sending_chain_key.step = a.send_counter
        /\ Sent = (a.dh_self.n - 1) * I + a.send_counter
        /\ IF I > 0 THEN a.send_counter <= I ELSE a.dh_self.n = 1
        /\ a.dh_self.n \in Nat /\ a.send_counter \in Nat /\ I \in Int
    BY <1>2, RotateIntervalAssumption DEF LossInv, AliceCounts, Baseline, KeyPair
  <1>10. /\ fresh.owner = Initiator /\ fresh.n = a.dh_self.n + 1 /\ derived.chain.step = 0
         /\ derived.root = derived.chain.seed
    BY <1>2, <1>9 DEF Generate, KdfRoot, Baseline, KeyPair
  <1> DEFINE rotates == I > 0 /\ a.send_counter = I /\ b.dh_self = fresh
                        /\ b.root_key = derived.root /\ b.sending_chain_key = derived.chain
                        /\ b.send_counter = 0 /\ b.dh_remote = a.dh_remote
             stays == b = a /\ (I > 0 => a.send_counter < I)
  <1>11. rotates \/ stays
    <2>1. CASE I > 0 /\ a.send_counter > 0
      <3>1. I \in Nat \ {0} /\ a.send_counter \in 1 .. I
        BY <1>9, <2>1
      <3>2. a.send_counter % I = 0 <=> a.send_counter = I
        BY <3>1, WholeTurns
      <3> QED
        BY <1>8, <1>9, <2>1, <3>2
    <2>2. CASE ~(I > 0 /\ a.send_counter > 0)
      BY <1>8, <1>9, <2>2
    <2> QED
      BY <2>1, <2>2
  <1> HIDE DEF m, b, fresh, derived, r, I
  <1>12. AliceCounts'
    <2>1. CASE stays
      <3>1. a'.dh_self = a.dh_self /\ a'.send_counter = a.send_counter + 1
        BY <1>8, <2>1
      <3>2. (a.dh_self.n - 1) * I \in Int
        BY <1>9
      <3>3. Sent' = (a'.dh_self.n - 1) * I + a'.send_counter
        <4>1. (a'.dh_self.n - 1) * I = (a.dh_self.n - 1) * I
          BY <3>1
        <4>2. Sent = (a.dh_self.n - 1) * I + a.send_counter /\ a.send_counter \in Nat
          BY <1>9
        <4> HIDE DEF a
        <4> QED
          BY <1>6, <3>1, <3>2, <4>1, <4>2
      <3> QED
        BY <1>8, <1>9, <2>1, <3>3 DEF AliceCounts, I
    <2>2. CASE rotates
      <3>1. (a.dh_self.n + 1 - 1) * I = (a.dh_self.n - 1) * I + I
        BY <1>9
      <3>2. Sent' = (a'.dh_self.n - 1) * I + a'.send_counter
        BY <1>6, <1>8, <1>9, <1>10, <2>2, <3>1
      <3> QED
        BY <1>8, <1>9, <1>10, <2>2, <3>2 DEF AliceCounts, I
    <2> QED
      BY <1>11, <2>1, <2>2
  <1>13. BobCounts'
    BY <1>7 DEF LossInv, BobCounts
  <1>14. UnderItsKey'
    <2>1. b.sending_chain_key.step = b.send_counter
      BY <1>9, <1>10, <1>11
    <2>2. b.sending_chain_key = [seed |-> b.sending_chain_key.seed,
                                 step |-> b.sending_chain_key.step]
      BY <1>8 DEF Baseline, ChainKey
    <2> QED
      BY <1>1, <1>5, <1>8, <2>1, <2>2 DEF UnderItsKey
  <1>15. SigKnown'
    BY <1>1, <1>7 DEF LossInv, SigKnown
  <1>16. ChainLost' \/ InHerChain' \/ OneBehind'
    <2>1. CASE ChainLost
      BY <1>1, <1>6, <2>1, StaysLost
    <2>2. CASE InHerChain /\ stays
      <3>1. p.recv_counter <= a.send_counter /\ m.baseline.counter = a.send_counter
        BY <1>1, <1>8, <2>2 DEF InHerChain
      <3>2. p.recv_counter \in Nat
        BY <1>2 DEF Baseline
      <3>3. /\ p'.dh_remote = a'.dh_self /\ p'.root_key = a'.root_key
            /\ p'.receiving_chain_key.seed = a'.sending_chain_key.seed
            /\ flight' # {} /\ \A x \in flight' : p'.recv_counter <= x.baseline.counter
        BY <1>1, <1>7, <1>8, <2>2, <3>1 DEF InHerChain
      <3> QED
        BY <3>3 DEF InHerChain
    <2>3. CASE InHerChain /\ rotates
      <3>1. /\ p.dh_remote = a.dh_self /\ p.root_key = a.root_key
        BY <2>3 DEF InHerChain
      <3>2. p'.dh_remote.n + 1 = a'.dh_self.n
        BY <1>7, <1>8, <1>9, <1>10, <2>3, <3>1
      <3>3. derived = KdfRoot(p.root_key, Exchange(SPK, a'.dh_self))
        <4>1. Exchange(fresh, SPK) = Exchange(SPK, fresh)
          BY DEF Exchange
        <4> QED
          BY <1>8, <1>9, <2>3, <3>1, <4>1 DEF derived
      <3>4. \A i \in Nat : Sent' - a'.send_counter < i /\ i <= Sent' => i = Sent'
        BY <1>6, <1>8, <2>3
      <3>5. flight' # {}
        BY <1>1
      <3> QED
        BY <1>7, <1>8, <2>3, <3>2, <3>3, <3>4, <3>5 DEF OneBehind
    <2>4. CASE OneBehind /\ stays
      <3>1. \A i \in Nat : Sent - a.send_counter < i /\ i <= Sent => i \in lost
        BY <1>1, <2>4 DEF OneBehind
      <3>2. a'.send_counter = a.send_counter + 1
        BY <1>8, <2>4
      <3>3. Sent' - a'.send_counter = Sent - a.send_counter
        BY <1>6, <1>9, <3>2
      <3>4. \A i \in Nat : i <= Sent' => i <= Sent \/ i = Sent'
        BY <1>6
      <3>5. flight' # {}
        BY <1>1
      <3> QED
        BY <1>1, <1>7, <1>8, <2>4, <3>1, <3>3, <3>4, <3>5 DEF OneBehind
    <2>5. CASE OneBehind /\ rotates
      <3>1. \A i \in Nat : Sent - a.send_counter < i /\ i <= Sent => i \in lost'
        BY <1>1, <2>5 DEF OneBehind
      <3> DEFINE c == a.dh_self.n
      <3>2. c * I = (c - 1) * I + I /\ c \in Nat \ {0}
        BY <1>9
      <3>3. Sent = c * I /\ Sent - a.send_counter = (c - 1) * I
        BY <1>6, <1>9, <2>5, <3>2
      <3>4. c * I < Sent' /\ Sent' \in Nat
        BY <1>6, <3>3
      <3>5. (c - 1) * I \in Nat
        BY <1>9, <2>5, <3>2
      <3>6. (c - 1) * I + 1 .. c * I \subseteq lost'
        BY <1>6, <3>1, <3>3, <3>5
      <3> QED
        BY <2>5, <3>2, <3>4, <3>6, ChainIsLost DEF I
    <2> QED
      BY <1>11, <2>1, <2>2, <2>3, <2>4, <2>5 DEF LossInv
  <1>17. RefusedForLoss'
    BY <1>1 DEF RefusedForLoss
  <1> QED
    BY <1>12, <1>13, <1>14, <1>15, <1>16, <1>17 DEF LossInv

LEMMA ReceiveKeepsLoss ==
  ASSUME IInv, LossInv, Receive
  PROVE  LossInv'
  <1>1. PICK m \in flight :
          /\ session' = [session EXCEPT ![Responder] = OTRPPAfterReceive(m.otrpp)]
          /\ party' = [party EXCEPT ![Responder] = BaselineAfterReceive(
                         BaselineFollowing(party[Responder], m.baseline.ephemeral),
                         m.baseline)]
          /\ refused' = (IF OTRPPAccepts(m.otrpp) THEN {} ELSE {"otrpp"})
                          \cup (IF m.baseline.key = BaselineKey(BaselineFollowing(
                                     party[Responder], m.baseline.ephemeral), m.baseline)
                                THEN {} ELSE {"baseline"})
          /\ open' = TRUE /\ flight' = {} /\ lost' = lost
    BY DEF Receive
  <1> DEFINE a == party[Initiator]
             p == party[Responder]
             b == BaselineFollowing(p, m.baseline.ephemeral)
             n == BaselineSkipped(b, m.baseline)
             derived == KdfRoot(p.root_key, Exchange(p.dh_self, m.baseline.ephemeral))
             held == Held(m.otrpp)
             f == Following(held, m.otrpp.ephemeral)
  <1>2. /\ Types /\ AliceSame /\ OnItsWay /\ a \in Baseline /\ p \in Baseline
        /\ Alice \in SessionState
    BY DEF IInv, Types, Alice
  <1>3. /\ m.otrpp.ephemeral = m.baseline.ephemeral /\ m.otrpp.counter = m.baseline.counter
        /\ m.otrpp.session_id = Root0(EK, TRUE)
        /\ m.otrpp \in Message /\ m.baseline.counter \in Nat /\ m.baseline.ephemeral \in KeyPair
        /\ held \in SessionState /\ held.peer_sig_known
        /\ 1 \notin lost => /\ Ratchet(held) = p /\ held.session_id = Root0(EK, TRUE)
    BY HeldSame DEF LossInv
  <1>4. m.baseline.ephemeral = a.dh_self /\ m.baseline.counter + 1 = a.send_counter
    BY <1>2, RatchetFields DEF OnItsWay, AliceSame
  <1>5. /\ m.otrpp.key = m.baseline.key
        /\ m.baseline.key = [seed |-> a.sending_chain_key.seed, step |-> m.baseline.counter]
    BY DEF LossInv, UnderItsKey
  <1>6. /\ b \in Baseline /\ b.dh_self = p.dh_self /\ b.dh_remote = a.dh_self
        /\ a.dh_self = p.dh_remote => b = p
        /\ a.dh_self # p.dh_remote =>
             /\ b.root_key = derived.root /\ b.receiving_chain_key = derived.chain
             /\ b.recv_counter = 0
    BY <1>2, <1>3, <1>4, BaselineFollows
  <1>7. /\ a' = a /\ Sent' = Sent /\ Alice' = Alice /\ Bob' = OTRPPAfterReceive(m.otrpp)
        /\ p' = BaselineAfterReceive(b, m.baseline)
    BY <1>1, <1>2, PartiesDiffer DEF Types, Sent, Alice, Bob
  <1>8. /\ p'.dh_self = b.dh_self /\ p'.dh_remote = b.dh_remote /\ p'.root_key = b.root_key
        /\ p'.receiving_chain_key.seed = b.receiving_chain_key.seed
        /\ p'.receiving_chain_key.step = b.receiving_chain_key.step + n + 1
        /\ p'.recv_counter = b.recv_counter + n + 1
        /\ n = IF m.baseline.counter > b.recv_counter
               THEN m.baseline.counter - b.recv_counter ELSE 0
        /\ BaselineKey(b, m.baseline) =
             [seed |-> b.receiving_chain_key.seed, step |-> b.receiving_chain_key.step + n]
    <2> HIDE DEF b
    <2> QED
      BY <1>3, <1>6, <1>7, BaselineReceives
  <1>9. /\ p.dh_self = SPK /\ a.dh_self.owner = Initiator
        /\ p.receiving_chain_key.step = p.recv_counter
        /\ derived.chain.step = 0 /\ derived.root = derived.chain.seed
    BY DEF LossInv, AliceCounts, BobCounts, KdfRoot
  <1>10. Sent \in Nat
    BY <1>2 DEF Sent, Alice, SessionState
  <1>11. f \in SessionState /\ (1 \notin lost => b = Ratchet(f) /\ f.session_id = Root0(EK, TRUE))
    <2>1. m.otrpp.ephemeral \in KeyPair
      BY <1>3
    <2>2. f \in SessionState /\ f.session_id = held.session_id
      BY <1>3, <2>1, FollowingType, SessionIdStays
    <2>3. BaselineFollowing(Ratchet(held), m.baseline.ephemeral) = Ratchet(f)
      BY <1>3, <2>1, SameFollowing
    <2> HIDE DEF held, f
    <2> QED
      BY <1>3, <2>2, <2>3
  <1>12. /\ OTRPPAfterReceive(m.otrpp) = IF SameSession(m.otrpp) THEN AfterKey(f, m.otrpp) ELSE held
         /\ OTRPPAccepts(m.otrpp) <=> SameSession(m.otrpp) /\ Authentic(f, m.otrpp, TRUE)
         /\ SameSession(m.otrpp) <=> m.otrpp.session_id = held.session_id
    BY DEF OTRPPAfterReceive, OTRPPAccepts, SameSession
  <1>13. f.peer_sig_known /\ AfterKey(f, m.otrpp).peer_sig_known
    BY <1>3, SigStays
  <1> HIDE DEF b, n, derived, held, f
  <1>14. b.receiving_chain_key.step = b.recv_counter
    BY <1>6, <1>9
  <1>15. AliceCounts'
    BY <1>7 DEF LossInv, AliceCounts
  <1>16. BobCounts'
    BY <1>6, <1>8, <1>9, <1>14, <1>2 DEF BobCounts
  <1>17. UnderItsKey' /\ SigKnown'
    BY <1>1, <1>3, <1>7, <1>12, <1>13 DEF UnderItsKey, SigKnown
  <1>18. ASSUME InHerChain \/ OneBehind
         PROVE  /\ b.root_key = a.root_key
                /\ b.receiving_chain_key.seed = a.sending_chain_key.seed
                /\ b.recv_counter <= m.baseline.counter
    <2>1. CASE InHerChain
      BY <1>6, <2>1 DEF InHerChain
    <2>2. CASE OneBehind
      <3>1. a.dh_self # p.dh_remote
        BY <1>2, <2>2 DEF OneBehind, Baseline, KeyPair
      <3>2. derived = KdfRoot(p.root_key, Exchange(SPK, a.dh_self))
        BY <1>4, <1>9 DEF derived
      <3> QED
        BY <1>3, <1>6, <1>9, <2>2, <3>1, <3>2 DEF OneBehind
    <2> QED
      BY <1>18, <2>1, <2>2
  <1>19. ASSUME InHerChain \/ OneBehind
         PROVE  n = m.baseline.counter - b.recv_counter
    BY <1>2, <1>3, <1>6, <1>8, <1>18, <1>19 DEF Baseline
  <1>20. ASSUME InHerChain \/ OneBehind
         PROVE  m.baseline.key = BaselineKey(b, m.baseline) /\ InHerChain'
    <2>1. b.recv_counter \in Nat
      BY <1>6 DEF Baseline
    <2>2. b.recv_counter + n = m.baseline.counter
      BY <1>3, <1>19, <1>20, <2>1
    <2>3. m.baseline.key = BaselineKey(b, m.baseline)
      BY <1>5, <1>8, <1>14, <1>18, <1>20, <2>2
    <2>4. p'.recv_counter = a.send_counter
      BY <1>4, <1>8, <2>2
    <2>5. a.send_counter \in Nat
      BY <1>2 DEF Baseline
    <2> QED
      BY <1>1, <1>6, <1>7, <1>8, <1>18, <1>20, <2>3, <2>4, <2>5 DEF InHerChain
  <1>21. ChainLost => ChainLost'
    BY <1>1, <1>7, <1>10, StaysLost
  <1>22. ChainLost' \/ InHerChain' \/ OneBehind'
    BY <1>20, <1>21 DEF LossInv
  <1>23. "baseline" \in refused' => ChainLost
    BY <1>1, <1>20 DEF LossInv, b
  <1>24. ASSUME ~ChainLost, 1 \notin lost
         PROVE  OTRPPAccepts(m.otrpp)
    <2>1. InHerChain \/ OneBehind
      BY <1>24 DEF LossInv
    <2>2. /\ f.recv_counter = b.recv_counter
          /\ f.receiving_chain_key = b.receiving_chain_key
      BY <1>11, <1>24, RatchetFields
    <2>3. ~IsOld(f, m.otrpp)
      <3>1. f.recv_counter <= m.otrpp.counter
        BY <1>3, <1>18, <2>1, <2>2
      <3> QED
        BY <1>3, <1>11, <3>1 DEF IsOld, SessionState
    <2>4. ChainAt(f, m.otrpp.counter) = BaselineKey(b, m.baseline)
      <3>1. ChainAt(f, m.otrpp.counter) =
              [b.receiving_chain_key EXCEPT !.step = @ + (m.baseline.counter - b.recv_counter)]
        BY <1>3, <2>2 DEF ChainAt
      <3>2. BaselineKey(b, m.baseline) = [b.receiving_chain_key EXCEPT !.step = @ + n]
        BY DEF BaselineKey, n
      <3> QED
        BY <1>19, <2>1, <3>1, <3>2
    <2>5. m.otrpp.key \in MessageKeys(f, m.otrpp)
      BY <1>5, <1>20, <2>1, <2>3, <2>4 DEF MessageKeys, KdfChain
    <2>6. SameSession(m.otrpp)
      BY <1>3, <1>12, <1>24
    <2> QED
      BY <1>12, <1>13, <2>5, <2>6 DEF Authentic
  <1>25. "otrpp" \in refused' => ChainLost \/ 1 \in lost
    BY <1>1, <1>24
  <1>26. RefusedForLoss'
    BY <1>1, <1>21, <1>23, <1>25 DEF RefusedForLoss
  <1> QED
    BY <1>15, <1>16, <1>17, <1>22, <1>26 DEF LossInv

LEMMA LoseKeepsLoss ==
  ASSUME IInv, LossInv, Lose
  PROVE  LossInv'
  <1>1. /\ flight # {} /\ flight' = {} /\ lost' = lost \cup {Sent}
        /\ session' = session /\ open' = open /\ party' = party /\ refused' = refused
    BY DEF Lose
  <1>2. Sent' = Sent /\ Bob' = Bob /\ Sent \in Nat
    BY <1>1 DEF IInv, Types, Sent, Bob, SessionState, Party
  <1>3. AliceCounts' /\ BobCounts' /\ UnderItsKey' /\ SigKnown'
    BY <1>1, <1>2 DEF LossInv, AliceCounts, BobCounts, UnderItsKey, SigKnown
  <1>4. ChainLost => ChainLost'
    BY <1>1, <1>2, StaysLost
  <1>5. InHerChain => InHerChain'
    <2> SUFFICES ASSUME InHerChain PROVE InHerChain'
      OBVIOUS
    <2>1. PICK m \in flight : TRUE
      BY <1>1
    <2>2. /\ party[Responder].recv_counter <= m.baseline.counter
          /\ m.baseline.counter + 1 = party[Initiator].send_counter
          /\ m.baseline.counter \in Nat /\ party[Responder].recv_counter \in Nat
      <3>1. Types /\ OnItsWay /\ party[Initiator] = Ratchet(Alice) /\ Alice \in SessionState
        BY DEF IInv, AliceSame, Alice, Types
      <3>2. m.baseline.counter + 1 = party[Initiator].send_counter
        BY <2>1, <3>1, RatchetFields DEF OnItsWay
      <3>3. m.baseline.counter \in Nat /\ party[Responder].recv_counter \in Nat
        BY <2>1, <3>1 DEF Types, Pairs, Baseline
      <3> QED
        BY <2>1, <3>2, <3>3 DEF InHerChain
    <2>3. party[Responder].recv_counter <= party[Initiator].send_counter
      BY <2>2
    <2> QED
      BY <1>1, <2>3 DEF InHerChain
  <1>6. OneBehind => OneBehind'
    BY <1>1, <1>2 DEF OneBehind
  <1>7. RefusedForLoss'
    BY <1>1, <1>4 DEF LossInv, RefusedForLoss
  <1> QED
    BY <1>3, <1>4, <1>5, <1>6, <1>7 DEF LossInv

(* For every rotation interval, length of a trial and choice of the        *)
(* messages lost, a receive that raises (OTRPPAdapter.receive,             *)
(* X3DHRatchetBaselineAdapter.receive) has a loss to answer for: a whole   *)
(* chain, or the message with the handshake.                               *)
THEOREM RefusesForLoss == Spec => []RefusedForLoss
  <1>1. ASSUME IInv, IInv', LossInv, [Next]_vars
        PROVE  LossInv'
    <2>1. CASE Send
      BY <1>1, <2>1, SendKeepsLoss
    <2>2. CASE Receive
      BY <1>1, <2>2, ReceiveKeepsLoss
    <2>3. CASE Lose
      BY <1>1, <2>3, LoseKeepsLoss
    <2>4. CASE UNCHANGED vars
      <3>1. /\ session' = session /\ open' = open /\ party' = party /\ flight' = flight
            /\ lost' = lost /\ refused' = refused
        BY <2>4 DEF vars
      <3>2. Sent' = Sent /\ Bob' = Bob
        BY <3>1 DEF Sent, Bob
      <3>3. ChainLost' <=> ChainLost
        BY <3>1, <3>2 DEF ChainLost, Chains
      <3>4. (InHerChain' <=> InHerChain) /\ (OneBehind' <=> OneBehind)
        BY <3>1, <3>2 DEF InHerChain, OneBehind
      <3> QED
        BY <1>1, <3>1, <3>2, <3>3, <3>4
        DEF LossInv, AliceCounts, BobCounts, UnderItsKey, SigKnown, RefusedForLoss
    <2> QED
      BY <1>1, <2>1, <2>2, <2>3, <2>4 DEF Next
  <1>2. LossInv => RefusedForLoss
    BY DEF LossInv
  <1> QED
    BY <1>1, <1>2, InitLoss, InvariantHolds, PTL DEF Spec
=============================================================================
