-------------------------- MODULE SessionPairProofs --------------------------
(***************************************************************************)
(* What is proved of SessionPair for every pair of intervals, every bound  *)
(* and every set of faults: its type, that no message key is used twice,   *)
(* that a key taken off the receiving chain reads one message once, that   *)
(* the keys the cache holds are accounted for, and that MAC keys are       *)
(* disclosed late, once, and by a queue that stays short.                  *)
(***************************************************************************)
EXTENDS SessionPair, MessagingProofs, FiniteSetTheorems

USE DEF Party

-----------------------------------------------------------------------------
(* Type correctness. *)

LEMMA PeerType == \A p \in Party : Peer(p) \in Party
  BY DEF Peer

LEMMA InitTypeOK == Init => TypeOK
  <1> SUFFICES ASSUME Init PROVE TypeOK
    OBVIOUS
  <1>1. pending \in BOOLEAN
    BY DEF Init
  <1>2. session \in [Party -> SessionState]
    BY <1>1, FirstKeysType, HandshakeType DEF Init
  <1>3. log \in [Party -> History]
    BY DEF Init, NoHistory, History
  <1> QED
    BY <1>1, <1>2, <1>3 DEF Init, TypeOK

LEMMA RecordType ==
  ASSUME NEW h \in History, NEW m \in Message,
         NEW intact \in BOOLEAN, NEW accepts \in BOOLEAN, NEW fresh \in BOOLEAN
  PROVE  Record(h, m, intact, accepts, fresh) \in History
  <1>1. /\ h.tried \in SUBSET Message /\ h.damaged \in SUBSET Message
        /\ h.accepted \in SUBSET Message /\ h.direct \in SUBSET Message
        /\ h.replayed \in SUBSET Message /\ h.spoiled \in SUBSET Message
    BY DEF History
  <1> DEFINE t == IF intact THEN h.tried \cup {m} ELSE h.tried
             d == IF intact THEN h.damaged ELSE h.damaged \cup {m}
             a == IF accepts THEN h.accepted \cup {m} ELSE h.accepted
             c == IF accepts /\ fresh THEN h.direct \cup {m} ELSE h.direct
             r == IF accepts /\ m \in h.accepted THEN h.replayed \cup {m} ELSE h.replayed
             l == IF ~accepts /\ fresh THEN h.spoiled \cup {m} ELSE h.spoiled
  <1>2. /\ t \in SUBSET Message /\ d \in SUBSET Message /\ a \in SUBSET Message
        /\ c \in SUBSET Message /\ r \in SUBSET Message /\ l \in SUBSET Message
    BY <1>1
  <1>3. Record(h, m, intact, accepts, fresh) =
          [h EXCEPT !.tried = t, !.damaged = d, !.accepted = a,
                    !.direct = c, !.replayed = r, !.spoiled = l]
    BY Zenon DEF Record
  <1> HIDE DEF t, d, a, c, r, l
  <1>4. [h EXCEPT !.tried = t, !.damaged = d, !.accepted = a,
                  !.direct = c, !.replayed = r, !.spoiled = l] \in History
    BY <1>2 DEF History
  <1> QED
    BY <1>3, <1>4, Zenon

LEMMA HoldingType ==
  ASSUME TypeOK, NEW p \in Party, NEW m \in Message, NEW held \in Holding(p, m)
  PROVE  held \in SessionState
  <1>1. CASE p \in open
    BY <1>1 DEF Holding, TypeOK
  <1>2. CASE p \notin open
    <2>1. PICK found \in MayFail("no_opk"), answered \in MayFail("no_sig") :
            held = ResponderSession(m.ephemeral, m.opk /\ found, answered)
      BY <1>2 DEF Holding
    <2>2. (m.opk /\ found) \in BOOLEAN /\ answered \in BOOLEAN /\ m.ephemeral \in KeyPair
      BY DEF MayFail, Message
    <2> QED
      BY <2>1, <2>2, HandshakeType
  <1> QED
    BY <1>1, <1>2

(* What reaches a party: a message that was made, or that message with     *)
(* another counter and key pair in its header.                             *)
Arrives(m, intact) == IF intact THEN m \in sent ELSE \E made \in sent : m \in Damaged(made)

LEMMA Arrival ==
  ASSUME TypeOK, NEW m, NEW intact \in BOOLEAN, Arrives(m, intact)
  PROVE  /\ m \in Message
         /\ \E made \in sent :
              /\ intact => m = made
              /\ m.from = made.from /\ m.session_id = made.session_id /\ m.opk = made.opk
              /\ m.index = made.index /\ m.mode = made.mode /\ m.key = made.key
              /\ m.counter \in {made.counter} \cup MisreadCounters
              /\ m.ephemeral \in {made.ephemeral} \cup MisreadKeyPairs
  <1>1. CASE intact
    BY <1>1 DEF Arrives, TypeOK
  <1>2. CASE ~intact
    <2>1. PICK made \in sent : m \in Damaged(made)
      BY <1>2 DEF Arrives
    <2>2. PICK n \in {made.counter} \cup MisreadCounters,
               pair \in {made.ephemeral} \cup MisreadKeyPairs : m = Altered(made, n, pair)
      BY <2>1 DEF Damaged
    <2>3. made \in Message
      BY DEF TypeOK
    <2>4. n \in Nat /\ pair \in KeyPair
      BY <2>3, BoundsAssumption
         DEF MisreadCounters, MisreadKeyPairs, Stray, KeyPair, Message
    <2> QED
      BY <1>2, <2>2, <2>3, <2>4 DEF Altered, Message
  <1> QED
    BY <1>1, <1>2

LEMMA TypeOKStep == TypeOK /\ [Next]_vars => TypeOK'
  <1> SUFFICES ASSUME TypeOK, [Next]_vars PROVE TypeOK'
    OBVIOUS
  <1> USE DEF TypeOK
  <1>1. ASSUME NEW p \in Party, NEW mode \in Mode, Send(p, mode) PROVE TypeOK'
    <2> DEFINE ready == ReadyToSend(session[p])
    <2>1. ready \in SessionState
      BY ReadyToSendType
    <2>2. /\ AfterSend(ready, mode) \in SessionState
          /\ Outgoing(p, ready, mode, Header(p)) \in Message
      BY <2>1, AfterSendType, OutgoingType DEF Header
    <2> QED
      BY <1>1, <2>2 DEF Send, PopHeader
  <1>2. ASSUME NEW p \in Party, SendRaises(p) PROVE TypeOK'
    BY <1>2, ReadyToSendType DEF SendRaises, PopHeader
  <1>3. ASSUME NEW p \in Party, NEW m, NEW intact \in BOOLEAN,
               Arrives(m, intact), Receive(p, m, intact)
        PROVE  TypeOK'
    <2>1. PICK held \in Holding(p, m) : Refuse(p, held, m, intact) \/ Process(p, held, m, intact)
      BY <1>3 DEF Receive
    <2>2. /\ m \in Message /\ m.ephemeral \in KeyPair /\ held \in SessionState
          /\ open' \subseteq Party /\ pending' \in BOOLEAN /\ sent' \subseteq Message
      BY <1>3, Arrival, HoldingType DEF Message, Receive
    <2>3. \A accepts, fresh \in BOOLEAN : Record(log[p], m, intact, accepts, fresh) \in History
      BY <2>2, RecordType
    <2>4. CASE Refuse(p, held, m, intact)
      BY <2>2, <2>3, <2>4 DEF Refuse
    <2>5. CASE Process(p, held, m, intact)
      <3> DEFINE s == Following(held, m.ephemeral)
      <3>1. AfterKey(s, m) \in SessionState
        BY <2>2, FollowingType, AfterKeyType
      <3>2. Authentic(s, m, intact) \in BOOLEAN /\ (~IsOld(s, m)) \in BOOLEAN
        BY DEF Authentic, IsOld
      <3> QED
        BY <2>2, <2>3, <2>5, <3>1, <3>2 DEF Process
    <2> QED
      BY <2>1, <2>4, <2>5
  <1>4. CASE UNCHANGED vars
    BY <1>4 DEF vars
  <1> QED
    BY <1>1, <1>2, <1>3, <1>4 DEF Next, ReceiveIntact, ReceiveDamaged, Arrives

(* Every step of the two ends keeps their sessions, the messages and the   *)
(* history within their types (SessionState and Message of messaging.py).  *)
THEOREM TypeCorrect == Spec => []TypeOK
  BY InitTypeOK, TypeOKStep, PTL DEF Spec

-----------------------------------------------------------------------------
(* Only the responder may hold no session, and then nothing reached it.    *)
Closed ==
  \A p \in Party \ open : p = Responder /\ session[p] = NoSession /\ log[p] = NoHistory

LEMMA InitClosed == Init => Closed
  BY DEF Init, Closed

LEMMA ClosedStep == TypeOK /\ Closed /\ [Next]_vars => Closed'
  <1> SUFFICES ASSUME TypeOK, Closed, [Next]_vars PROVE Closed'
    OBVIOUS
  <1>1. ASSUME NEW p \in Party, NEW mode \in Mode, Send(p, mode) PROVE Closed'
    BY <1>1 DEF Send, CanSend, Closed, TypeOK
  <1>2. ASSUME NEW p \in Party, SendRaises(p) PROVE Closed'
    BY <1>2 DEF SendRaises, CanSend, Closed, TypeOK
  <1>3. ASSUME NEW p \in Party, NEW m, NEW intact \in BOOLEAN,
               Arrives(m, intact), Receive(p, m, intact)
        PROVE  Closed'
    BY <1>3 DEF Receive, Refuse, Process, Closed, TypeOK
  <1>4. CASE UNCHANGED vars
    BY <1>4 DEF vars, Closed
  <1> QED
    BY <1>1, <1>2, <1>3, <1>4 DEF Next, ReceiveIntact, ReceiveDamaged, Arrives

-----------------------------------------------------------------------------
(***************************************************************************)
(* No message key is used twice.  A rotation mixes a key pair that nobody  *)
(* has seen into the root key, so the seed of the new chain ends in a      *)
(* secret that no seed ended in before; within a chain the step only       *)
(* grows.  The invariant is about values, so that it can be carried        *)
(* through the two halves of a Send.                                       *)
(***************************************************************************)
Known(ss, pair) == pair \in KeyPair /\ pair.n <= ss[pair.owner].dh_self.n

(* Every key pair of the last secret mixed into the seed has been generated. *)
SeedKnown(ss, seed) == Len(seed) > 0 /\ \A pair \in seed[Len(seed)] : Known(ss, pair)

KeysKnown(ss, ms) ==
  /\ \A p \in Party :
       /\ ss[p].dh_self.owner = p /\ Known(ss, ss[p].dh_remote)
       /\ ss[p].chain_key = NoKey \/ SeedKnown(ss, ss[p].chain_key.seed)
  /\ \A m \in ms : Known(ss, m.ephemeral) /\ SeedKnown(ss, m.key.seed)

(* Every key made is a step the chain of its seed has left behind.         *)
KeysSpent(ss, ms) ==
  /\ \A p \in Party : \A m \in ms :
       m.key.seed = ss[p].chain_key.seed => m.key.step < ss[p].chain_key.step
  /\ ss[Initiator].chain_key.seed # ss[Responder].chain_key.seed

KeysDistinct(ms) == \A m1, m2 \in ms : m1.key = m2.key => m1 = m2

KeysInv(ss, ms) == KeysKnown(ss, ms) /\ KeysSpent(ss, ms) /\ KeysDistinct(ms)

(* A rotation: the new seed is not the seed of any message or chain.       *)
LEMMA FreshSeed ==
  ASSUME NEW ss \in [Party -> SessionState], NEW ms \in SUBSET Message,
         KeysKnown(ss, ms), NEW p \in Party
  PROVE  LET s == RatchetSend(ss[p])
         IN  /\ s.dh_self = Generate(ss[p].dh_self)
             /\ s.dh_remote = ss[p].dh_remote
             /\ s.chain_key.step = 0
             /\ Len(s.chain_key.seed) > 0
             /\ s.chain_key.seed[Len(s.chain_key.seed)] =
                  {Generate(ss[p].dh_self), ss[p].dh_remote}
             /\ \A m \in ms : m.key.seed # s.chain_key.seed
             /\ \A q \in Party : ss[q].chain_key.seed # s.chain_key.seed
  <1> DEFINE s == RatchetSend(ss[p])
             fresh == Generate(ss[p].dh_self)
  <1>1. /\ ss[p] \in SessionState
        /\ ss[p].root_key \in Seq(Secret)
        /\ ss[p].dh_self \in KeyPair
        /\ ss[p].dh_remote \in KeyPair
    BY DEF SessionState, RootKey
  <1>2. /\ fresh \in KeyPair /\ fresh.owner = ss[p].dh_self.owner
        /\ fresh.n = ss[p].dh_self.n + 1
    BY <1>1 DEF Generate, KeyPair
  <1>3. /\ s.dh_self = fresh
        /\ s.dh_remote = ss[p].dh_remote
        /\ s.chain_key.step = 0
        /\ s.chain_key.seed = Append(ss[p].root_key, {fresh, ss[p].dh_remote})
    BY <1>1 DEF RatchetSend, KdfRoot, Exchange, SessionState
  <1>4. {fresh, ss[p].dh_remote} \in Secret
    BY <1>1, <1>2 DEF Secret
  <1>5. /\ Len(s.chain_key.seed) > 0
        /\ s.chain_key.seed[Len(s.chain_key.seed)] = {fresh, ss[p].dh_remote}
    BY <1>1, <1>3, <1>4
  <1>6. ~Known(ss, fresh)
    BY <1>1, <1>2 DEF Known, KeysKnown, KeyPair
  <1>7. \A seed : SeedKnown(ss, seed) => seed # s.chain_key.seed
    BY <1>5, <1>6 DEF SeedKnown
  <1>8. NoKey.seed # s.chain_key.seed
    BY <1>5 DEF NoKey
  <1> QED
    BY <1>3, <1>5, <1>7, <1>8 DEF KeysKnown

LEMMA ReadyKeepsKeys ==
  ASSUME NEW ss \in [Party -> SessionState], NEW ms \in SUBSET Message,
         KeysInv(ss, ms), NEW p \in Party
  PROVE  LET ready == [ss EXCEPT ![p] = ReadyToSend(ss[p])]
         IN  KeysInv(ready, ms) /\ SeedKnown(ready, ready[p].chain_key.seed)
  <1> DEFINE ready == [ss EXCEPT ![p] = ReadyToSend(ss[p])]
  <1>1. CASE ~MaybeRotate(ss[p])
    <2>1. ready = ss
      BY <1>1 DEF ReadyToSend
    <2>2. ss[p].chain_key # NoKey
      BY <1>1 DEF MaybeRotate
    <2> QED
      BY <2>1, <2>2 DEF KeysInv, KeysKnown
  <1>2. CASE MaybeRotate(ss[p])
    <2> DEFINE s == RatchetSend(ss[p])
               fresh == Generate(ss[p].dh_self)
    <2>1. ready[p] = s /\ \A q \in Party : q # p => ready[q] = ss[q]
      BY <1>2 DEF ReadyToSend
    <2>2. /\ s.dh_self = fresh /\ s.dh_remote = ss[p].dh_remote
          /\ s.chain_key.step = 0 /\ Len(s.chain_key.seed) > 0
          /\ s.chain_key.seed[Len(s.chain_key.seed)] = {fresh, ss[p].dh_remote}
          /\ \A m \in ms : m.key.seed # s.chain_key.seed
          /\ \A q \in Party : ss[q].chain_key.seed # s.chain_key.seed
      BY FreshSeed DEF KeysInv
    <2>3. /\ ss[p].dh_self \in KeyPair /\ ss[p].dh_self.owner = p
          /\ fresh \in KeyPair /\ fresh.owner = p /\ fresh.n = ss[p].dh_self.n + 1
      BY DEF SessionState, Generate, KeyPair, KeysInv, KeysKnown
    <2>4. \A pair : Known(ss, pair) => Known(ready, pair)
      <3> SUFFICES ASSUME NEW pair, Known(ss, pair) PROVE Known(ready, pair)
        OBVIOUS
      <3>1. pair \in KeyPair /\ pair.owner \in Party /\ pair.n \in Nat
        BY DEF Known, KeyPair
      <3>2. CASE pair.owner = p
        BY <2>1, <2>2, <2>3, <3>1, <3>2 DEF Known, KeyPair
      <3>3. CASE pair.owner # p
        BY <2>1, <3>1, <3>3 DEF Known
      <3> QED
        BY <3>2, <3>3
    <2>5. Known(ready, fresh) /\ Known(ready, ss[p].dh_remote)
      BY <2>1, <2>2, <2>3, <2>4 DEF Known, KeyPair, KeysInv, KeysKnown
    <2>6. \A seed : SeedKnown(ss, seed) => SeedKnown(ready, seed)
      BY <2>4 DEF SeedKnown
    <2>7. SeedKnown(ready, s.chain_key.seed)
      BY <2>2, <2>5 DEF SeedKnown
    <2>8. KeysKnown(ready, ms)
      BY <2>1, <2>2, <2>3, <2>4, <2>5, <2>6, <2>7 DEF KeysInv, KeysKnown
    <2>9. KeysSpent(ready, ms)
      BY <2>1, <2>2, PartiesDiffer DEF KeysInv, KeysSpent
    <2> QED
      BY <2>1, <2>7, <2>8, <2>9 DEF KeysInv
  <1> QED
    BY <1>1, <1>2

LEMMA AfterSendKeepsKeys ==
  ASSUME NEW ss \in [Party -> SessionState], NEW ms \in SUBSET Message,
         KeysInv(ss, ms), NEW p \in Party, NEW mode \in Mode, NEW opk \in BOOLEAN,
         SeedKnown(ss, ss[p].chain_key.seed)
  PROVE  KeysInv([ss EXCEPT ![p] = AfterSend(ss[p], mode)],
                 ms \cup {Outgoing(p, ss[p], mode, opk)})
  <1> DEFINE next == [ss EXCEPT ![p] = AfterSend(ss[p], mode)]
             made == Outgoing(p, ss[p], mode, opk)
             all == ms \cup {made}
  <1>1. ss[p] \in SessionState /\ ss[p].chain_key \in ChainKey /\ ss[p].dh_self \in KeyPair
    BY DEF SessionState
  <1>2. /\ next[p].dh_self = ss[p].dh_self /\ next[p].dh_remote = ss[p].dh_remote
        /\ next[p].chain_key.seed = ss[p].chain_key.seed
        /\ next[p].chain_key.step = ss[p].chain_key.step + 1
    BY <1>1 DEF AfterSend, KdfChain, SessionState, ChainKey
  <1>3. \A q \in Party : q # p => next[q] = ss[q]
    OBVIOUS
  <1>4. made.key = ss[p].chain_key /\ made.ephemeral = ss[p].dh_self
    BY DEF Outgoing, KdfChain
  <1>5. \A pair : Known(ss, pair) <=> Known(next, pair)
    BY <1>2, <1>3 DEF Known, KeyPair
  <1>6. \A seed : SeedKnown(ss, seed) <=> SeedKnown(next, seed)
    BY <1>5 DEF SeedKnown
  <1>7. Known(ss, ss[p].dh_self)
    BY <1>1 DEF Known, KeyPair, KeysInv, KeysKnown
  <1>8. KeysKnown(next, all)
    BY <1>2, <1>3, <1>4, <1>5, <1>6, <1>7 DEF KeysInv, KeysKnown
  <1>9. KeysSpent(next, all)
    <2>1. \A q \in Party : next[q].chain_key.seed = ss[q].chain_key.seed
      BY <1>2, <1>3
    <2>2. \A m \in all : m.key.step \in Nat
      BY <1>1, <1>4 DEF Message, ChainKey
    <2>3. ASSUME NEW q \in Party, NEW m \in all, m.key.seed = next[q].chain_key.seed
          PROVE  m.key.step < next[q].chain_key.step
      <3>1. ss[q].chain_key.step \in Nat
        BY DEF SessionState, ChainKey
      <3>2. CASE q = p
        BY <1>1, <1>2, <1>4, <2>1, <2>2, <2>3, <3>1, <3>2 DEF KeysInv, KeysSpent
      <3>3. CASE q # p
        <4>1. ss[p].chain_key.seed # ss[q].chain_key.seed
          BY <3>3 DEF KeysInv, KeysSpent
        <4>2. m \in ms
          BY <1>4, <2>1, <2>3, <4>1
        <4> QED
          BY <1>3, <2>3, <3>3, <4>2 DEF KeysInv, KeysSpent
      <3> QED
        BY <3>2, <3>3
    <2> QED
      BY <2>1, <2>3 DEF KeysInv, KeysSpent
  <1>10. KeysDistinct(all)
    <2>1. \A m \in ms : m.key # made.key
      BY <1>1, <1>4 DEF KeysInv, KeysSpent, ChainKey
    <2> QED
      BY <2>1 DEF KeysInv, KeysDistinct
  <1> QED
    BY <1>8, <1>9, <1>10 DEF KeysInv

(* Receiving leaves a party's own keys alone, and takes over the key pair  *)
(* of the message that arrived.                                            *)
LEMMA HeldKeepsKeys ==
  ASSUME NEW ss \in [Party -> SessionState], NEW ms \in SUBSET Message,
         KeysInv(ss, ms), NEW p \in Party, NEW s,
         s.dh_self = ss[p].dh_self, s.chain_key = ss[p].chain_key, Known(ss, s.dh_remote)
  PROVE  KeysInv([ss EXCEPT ![p] = s], ms)
  <1> DEFINE next == [ss EXCEPT ![p] = s]
  <1>1. \A q \in Party : /\ next[q].dh_self = ss[q].dh_self
                         /\ next[q].chain_key = ss[q].chain_key
                         /\ next[q].dh_remote \in {ss[q].dh_remote, s.dh_remote}
    OBVIOUS
  <1>2. \A pair : Known(ss, pair) => Known(next, pair)
    BY <1>1 DEF Known, KeyPair
  <1>3. \A seed : SeedKnown(ss, seed) => SeedKnown(next, seed)
    BY <1>2 DEF SeedKnown
  <1>4. KeysKnown(next, ms)
    BY <1>1, <1>2, <1>3 DEF KeysInv, KeysKnown
  <1>5. KeysSpent(next, ms)
    BY <1>1 DEF KeysInv, KeysSpent
  <1> QED
    BY <1>4, <1>5 DEF KeysInv

LEMMA HoldingKeys ==
  ASSUME TypeOK, Closed, KeysInv(session, sent), NEW p \in Party, NEW m \in Message,
         Known(session, m.ephemeral), NEW held \in Holding(p, m)
  PROVE  /\ held.dh_self = session[p].dh_self /\ held.chain_key = session[p].chain_key
         /\ Known(session, held.dh_remote)
  <1>1. CASE p \in open
    BY <1>1 DEF Holding, KeysInv, KeysKnown
  <1>2. CASE p \notin open
    BY <1>2 DEF Holding, Closed, NoSession, ResponderSession, NewSession, KeysInv, KeysKnown
  <1> QED
    BY <1>1, <1>2

(* The key pair of an altered header is as good as known: its rank is that *)
(* of none that was generated.                                             *)
LEMMA ArrivalKnown ==
  ASSUME TypeOK, KeysInv(session, sent), NEW m, NEW intact \in BOOLEAN, Arrives(m, intact)
  PROVE  Known(session, m.ephemeral)
  <1>1. PICK made \in sent : m.ephemeral \in {made.ephemeral} \cup MisreadKeyPairs
    BY Arrival
  <1>2. Known(session, made.ephemeral)
    BY DEF KeysInv, KeysKnown
  <1>3. Known(session, Stray)
    BY DEF Known, Stray, KeyPair, TypeOK, SessionState
  <1> QED
    BY <1>1, <1>2, <1>3 DEF MisreadKeyPairs

LEMMA ProcessedKeys ==
  ASSUME NEW s \in SessionState, NEW m \in Message
  PROVE  LET t == AfterKey(Following(s, m.ephemeral), m)
         IN  t.dh_self = s.dh_self /\ t.chain_key = s.chain_key /\ t.dh_remote = m.ephemeral
  <1> DEFINE f == Following(s, m.ephemeral)
  <1>1. m.ephemeral \in KeyPair
    BY DEF Message
  <1>2. /\ f \in SessionState
        /\ f.dh_self = s.dh_self /\ f.chain_key = s.chain_key /\ f.dh_remote = m.ephemeral
    BY <1>1, FollowingType DEF Following, RatchetReceive, SessionState
  <1> QED
    BY <1>2 DEF AfterKey, FastForward, SessionState

LEMMA InitKeys == Init => KeysInv(session, sent)
  <1> SUFFICES ASSUME Init PROVE KeysInv(session, sent)
    OBVIOUS
  <1> DEFINE first == HandshakeRoot(Root0(EK, pending), EK).chain
  <1>1. /\ EK \in KeyPair /\ EK.owner = Initiator /\ EK.n = 1
        /\ SPK \in KeyPair /\ SPK.owner = Responder /\ SPK.n = 1
    BY DEF EK, SPK, KeyPair
  <1>2. /\ session[Initiator].dh_self = EK /\ session[Initiator].dh_remote = SPK
        /\ session[Initiator].chain_key = first
        /\ session[Responder].dh_self = SPK /\ session[Responder].dh_remote = SPK
        /\ session[Responder].chain_key = NoKey
    BY PartiesDiffer DEF Init, InitiatorSession, NoSession, NewSession
  <1>3. \A pair \in {EK, SPK} : Known(session, pair)
    BY <1>1, <1>2 DEF Known
  <1>4. first.seed = Append(<<Root0(EK, pending)>>, {EK, SPK})
    BY DEF HandshakeRoot, KdfRoot, Exchange
  <1>5. Len(first.seed) = 2 /\ first.seed[2] = {EK, SPK}
    BY <1>4
  <1> HIDE DEF first
  <1>6. SeedKnown(session, first.seed)
    BY <1>3, <1>5 DEF SeedKnown
  <1>7. KeysKnown(session, sent)
    BY <1>1, <1>2, <1>3, <1>6 DEF Init, KeysKnown
  <1>8. KeysSpent(session, sent)
    BY <1>2, <1>5 DEF Init, KeysSpent, NoKey
  <1> QED
    BY <1>7, <1>8 DEF Init, KeysInv, KeysDistinct

LEMMA KeysStep ==
  TypeOK /\ Closed /\ KeysInv(session, sent) /\ [Next]_vars => KeysInv(session, sent)'
  <1> SUFFICES ASSUME TypeOK, Closed, KeysInv(session, sent), [Next]_vars
               PROVE  KeysInv(session', sent')
    BY DEF KeysInv, KeysKnown, KeysSpent, KeysDistinct, Known, SeedKnown
  <1>0. session \in [Party -> SessionState] /\ sent \in SUBSET Message
    BY DEF TypeOK
  <1>1. ASSUME NEW p \in Party, NEW mode \in Mode, Send(p, mode)
        PROVE  KeysInv(session', sent')
    <2> DEFINE ready == [session EXCEPT ![p] = ReadyToSend(session[p])]
    <2>1. ready \in [Party -> SessionState]
      BY <1>0, ReadyToSendType
    <2>2. KeysInv(ready, sent) /\ SeedKnown(ready, ready[p].chain_key.seed)
      BY <1>0, ReadyKeepsKeys
    <2>3. session' = [ready EXCEPT ![p] = AfterSend(ready[p], mode)]
      BY <1>0, <1>1 DEF Send
    <2>4. sent' = sent \cup {Outgoing(p, ready[p], mode, Header(p))}
      BY <1>0, <1>1 DEF Send
    <2>5. Header(p) \in BOOLEAN
      BY DEF Header, TypeOK
    <2> HIDE DEF ready
    <2> QED
      BY <1>0, <2>1, <2>2, <2>3, <2>4, <2>5, AfterSendKeepsKeys
  <1>2. ASSUME NEW p \in Party, SendRaises(p) PROVE KeysInv(session', sent')
    BY <1>0, <1>2, ReadyKeepsKeys DEF SendRaises
  <1>3. ASSUME NEW p \in Party, NEW m, NEW intact \in BOOLEAN,
               Arrives(m, intact), Receive(p, m, intact)
        PROVE  KeysInv(session', sent')
    <2>1. PICK held \in Holding(p, m) : Refuse(p, held, m, intact) \/ Process(p, held, m, intact)
      BY <1>3 DEF Receive
    <2>2. m \in Message /\ held \in SessionState /\ sent' = sent
      BY <1>0, <1>3, Arrival, HoldingType DEF Receive
    <2>3. /\ held.dh_self = session[p].dh_self /\ held.chain_key = session[p].chain_key
          /\ Known(session, held.dh_remote) /\ Known(session, m.ephemeral)
      BY <1>3, <2>2, HoldingKeys, ArrivalKnown
    <2>4. CASE Refuse(p, held, m, intact)
      BY <1>0, <2>2, <2>3, <2>4, HeldKeepsKeys DEF Refuse
    <2>5. CASE Process(p, held, m, intact)
      <3> DEFINE t == AfterKey(Following(held, m.ephemeral), m)
      <3>1. /\ t.dh_self = session[p].dh_self /\ t.chain_key = session[p].chain_key
            /\ Known(session, t.dh_remote)
        BY <2>2, <2>3, ProcessedKeys
      <3>2. session' = [session EXCEPT ![p] = t]
        BY <2>5 DEF Process
      <3> HIDE DEF t
      <3> QED
        BY <1>0, <2>2, <3>1, <3>2, HeldKeepsKeys
    <2> QED
      BY <2>1, <2>4, <2>5
  <1>4. CASE UNCHANGED vars
    BY <1>4 DEF vars
  <1> QED
    BY <1>1, <1>2, <1>3, <1>4 DEF Next, ReceiveIntact, ReceiveDamaged, Arrives

(* No two messages of a session are made under one key, and so under one   *)
(* AES-GCM nonce, whatever the network does and however the two parties    *)
(* rotate (construct_outgoing_message, _ratchet_send, kdf_chain).          *)
THEOREM KeysUnique == Spec => []UniqueMessageKeys
  <1>1. KeysInv(session, sent) => UniqueMessageKeys
    BY DEF KeysInv, KeysDistinct, UniqueMessageKeys
  <1> QED
    BY <1>1, InitTypeOK, TypeOKStep, InitClosed, ClosedStep, InitKeys, KeysStep, PTL DEF Spec

-----------------------------------------------------------------------------
(***************************************************************************)
(* A key taken off the receiving chain reads one message once.  The        *)
(* receiving chain only moves forward, to later steps of its seed or to a  *)
(* longer seed, because every ratchet lengthens the root key.  Whatever    *)
(* was accepted or cached is behind it, and what was taken off it was      *)
(* never cached.                                                           *)
(***************************************************************************)
Before(key, chain) ==
  \/ Len(key.seed) < Len(chain.seed)
  \/ key.seed = chain.seed /\ key.step < chain.step

SpentInv(s, h) ==
  /\ Len(s.receiving_chain_key.seed) <= Len(s.root_key)
  /\ \A m \in h.accepted : Before(m.key, s.receiving_chain_key)
  /\ \A e \in s.previous_keys : Before(e.key, s.receiving_chain_key)
  /\ \A m \in h.direct : \A e \in s.previous_keys : e.key # m.key
  /\ h.direct \subseteq h.accepted
  /\ h.replayed \subseteq h.accepted
  /\ h.direct \cap h.replayed = {}

LEMMA AppendLength ==
  ASSUME NEW root \in RootKey, NEW secret \in Secret
  PROVE  Append(root, secret) \in RootKey /\ Len(Append(root, secret)) = Len(root) + 1
  BY DEF RootKey

LEMMA ReadyKeepsSpent ==
  ASSUME NEW s \in SessionState, NEW h \in History, SpentInv(s, h)
  PROVE  SpentInv(ReadyToSend(s), h)
  <1>1. /\ s.root_key \in RootKey /\ s.receiving_chain_key.seed \in RootKey
        /\ Exchange(Generate(s.dh_self), s.dh_remote) \in Secret
    <2>1. Generate(s.dh_self) \in KeyPair
      BY DEF Generate, KeyPair, SessionState
    <2> QED
      BY <2>1, ExchangeType DEF SessionState, ChainKey
  <1>2. Len(RatchetSend(s).root_key) = Len(s.root_key) + 1
    BY <1>1, AppendLength DEF RatchetSend, KdfRoot, SessionState
  <1>3. /\ RatchetSend(s).receiving_chain_key = s.receiving_chain_key
        /\ RatchetSend(s).previous_keys = s.previous_keys
    BY DEF RatchetSend, SessionState
  <1>4. Len(s.root_key) \in Nat /\ Len(s.receiving_chain_key.seed) \in Nat
    BY <1>1 DEF RootKey
  <1> QED
    BY <1>2, <1>3, <1>4 DEF ReadyToSend, SpentInv

LEMMA AfterSendKeepsSpent ==
  ASSUME NEW s \in SessionState, NEW h \in History, SpentInv(s, h), NEW mode \in Mode
  PROVE  SpentInv(AfterSend(s, mode), h)
  <1>1. /\ AfterSend(s, mode).root_key = s.root_key
        /\ AfterSend(s, mode).receiving_chain_key = s.receiving_chain_key
        /\ AfterSend(s, mode).previous_keys = s.previous_keys
    BY DEF AfterSend, SessionState
  <1> QED
    BY <1>1 DEF SpentInv

LEMMA FollowingKeepsSpent ==
  ASSUME NEW s \in SessionState, NEW h \in History, SpentInv(s, h), NEW remote \in KeyPair
  PROVE  SpentInv(Following(s, remote), h)
  <1> DEFINE t == RatchetReceive(s, remote)
  <1>1. /\ s.root_key \in RootKey /\ s.receiving_chain_key.seed \in RootKey
        /\ Exchange(s.dh_self, remote) \in Secret
    BY ExchangeType DEF SessionState, ChainKey
  <1>2. /\ t.root_key = Append(s.root_key, Exchange(s.dh_self, remote))
        /\ t.receiving_chain_key.seed = t.root_key
        /\ t.previous_keys = s.previous_keys
    BY DEF RatchetReceive, KdfRoot, SessionState
  <1>3. /\ Len(s.root_key) \in Nat /\ Len(s.receiving_chain_key.seed) \in Nat
        /\ Len(t.root_key) = Len(s.root_key) + 1
    BY <1>1, <1>2, AppendLength DEF RootKey
  <1>4. /\ \A m \in h.accepted : Len(m.key.seed) \in Nat
        /\ \A e \in s.previous_keys : Len(e.key.seed) \in Nat
    BY DEF History, Message, SessionState, CachedKey, ChainKey, RootKey
  <1>5. ASSUME NEW key, Len(key.seed) \in Nat, Before(key, s.receiving_chain_key)
        PROVE  Before(key, t.receiving_chain_key)
    <2>1. Len(key.seed) <= Len(s.receiving_chain_key.seed)
      BY <1>3, <1>5 DEF Before
    <2>2. Len(key.seed) < Len(t.receiving_chain_key.seed)
      BY <1>2, <1>3, <1>5, <2>1 DEF SpentInv
    <2> QED
      BY <2>2 DEF Before
  <1>6. SpentInv(t, h)
    BY <1>2, <1>3, <1>4, <1>5 DEF SpentInv
  <1> QED
    BY <1>6 DEF Following

(* What FastForward leaves behind the chain, and ahead of what it cached.  *)
LEMMA FastForwardSpends ==
  ASSUME NEW s \in SessionState, NEW counter \in Nat, counter >= s.recv_counter
  PROVE  LET t == FastForward(s, counter)
             key == ChainAt(s, counter)
         IN  /\ t.root_key = s.root_key
             /\ t.receiving_chain_key.seed = s.receiving_chain_key.seed
             /\ t.receiving_chain_key.step = key.step + 1
             /\ key.seed = s.receiving_chain_key.seed
             /\ key.step >= s.receiving_chain_key.step
             /\ \A e \in t.previous_keys \ s.previous_keys :
                  /\ e.key.seed = s.receiving_chain_key.seed
                  /\ e.key.step \in s.receiving_chain_key.step .. (key.step - 1)
  <1> DEFINE t == FastForward(s, counter)
             key == ChainAt(s, counter)
  <1>1. /\ s.recv_counter \in Nat /\ s.receiving_chain_key.step \in Nat
        /\ s.receiving_chain_key \in ChainKey
    BY DEF SessionState, ChainKey
  <1>2. /\ key \in ChainKey /\ key.seed = s.receiving_chain_key.seed
        /\ key.step = s.receiving_chain_key.step + (counter - s.recv_counter)
    BY ChainAtType
  <1>3. /\ t.root_key = s.root_key
        /\ t.receiving_chain_key = KdfChain(key).next
        /\ t.previous_keys \subseteq s.previous_keys \cup
              {[chain |-> s.dh_remote, counter |-> n, key |-> KdfChain(ChainAt(s, n)).message] :
                 n \in Skipped(s, counter)}
    BY DEF FastForward, SessionState
  <1>4. /\ t.receiving_chain_key.seed = key.seed
        /\ t.receiving_chain_key.step = key.step + 1
    BY <1>2, <1>3 DEF KdfChain, ChainKey
  <1>5. \A n \in Skipped(s, counter) :
          /\ KdfChain(ChainAt(s, n)).message.seed = s.receiving_chain_key.seed
          /\ KdfChain(ChainAt(s, n)).message.step
               \in s.receiving_chain_key.step .. (key.step - 1)
    BY <1>1, <1>2, ChainAtType DEF KdfChain, Skipped
  <1>6. ASSUME NEW e \in t.previous_keys \ s.previous_keys
        PROVE  /\ e.key.seed = s.receiving_chain_key.seed
               /\ e.key.step \in s.receiving_chain_key.step .. (key.step - 1)
    <2>1. PICK n \in Skipped(s, counter) :
            e = [chain |-> s.dh_remote, counter |-> n,
                 key |-> KdfChain(ChainAt(s, n)).message]
      BY <1>3
    <2> QED
      BY <1>5, <2>1
  <1> QED
    BY <1>1, <1>2, <1>3, <1>4, <1>6

LEMMA ReceiveKeepsSpent ==
  ASSUME NEW s \in SessionState, NEW h \in History, SpentInv(s, h),
         NEW m \in Message, NEW intact \in BOOLEAN
  PROVE  SpentInv(AfterKey(s, m), Record(h, m, intact, Authentic(s, m, intact), ~IsOld(s, m)))
  <1> DEFINE accepts == Authentic(s, m, intact)
             g == Record(h, m, intact, accepts, ~IsOld(s, m))
  <1>1. /\ g.accepted = IF accepts THEN h.accepted \cup {m} ELSE h.accepted
        /\ g.direct = IF accepts /\ ~IsOld(s, m) THEN h.direct \cup {m} ELSE h.direct
        /\ g.replayed = IF accepts /\ m \in h.accepted THEN h.replayed \cup {m} ELSE h.replayed
    BY DEF Record, History
  <1>a. accepts => m.key \in MessageKeys(s, m)
    BY DEF Authentic
  <1> HIDE DEF accepts, g
  <1> SUFFICES SpentInv(AfterKey(s, m), g)
    BY DEF accepts, g
  <1>2. CASE IsOld(s, m)
    <2>1. AfterKey(s, m) = s
      BY <1>2 DEF AfterKey
    <2>2. accepts => \E e \in s.previous_keys : e.key = m.key
      BY <1>2, <1>a DEF MessageKeys, Cached
    <2>3. accepts => m \notin h.direct /\ Before(m.key, s.receiving_chain_key)
      BY <2>2 DEF SpentInv
    <2> QED
      BY <1>1, <1>2, <2>1, <2>3 DEF SpentInv
  <1>3. CASE ~IsOld(s, m)
    <2> DEFINE t == FastForward(s, m.counter)
               key == ChainAt(s, m.counter)
    <2>1. /\ m.counter \in Nat /\ m.counter >= s.recv_counter
          /\ s.receiving_chain_key.step \in Nat /\ key.step \in Nat
      BY <1>3, ChainAtType DEF IsOld, Message, SessionState, ChainKey
    <2>2. /\ t.root_key = s.root_key
          /\ t.receiving_chain_key.seed = s.receiving_chain_key.seed
          /\ t.receiving_chain_key.step = key.step + 1
          /\ key.seed = s.receiving_chain_key.seed
          /\ key.step >= s.receiving_chain_key.step
          /\ \A e \in t.previous_keys \ s.previous_keys :
               /\ e.key.seed = s.receiving_chain_key.seed
               /\ e.key.step \in s.receiving_chain_key.step .. (key.step - 1)
      BY <2>1, FastForwardSpends
    <2>3. AfterKey(s, m) = t
      BY <1>3 DEF AfterKey
    <2>4. accepts => m.key = key
      BY <1>3, <1>a DEF MessageKeys, KdfChain
    <2>5. ~Before(key, s.receiving_chain_key) /\ Before(key, t.receiving_chain_key)
      BY <2>1, <2>2 DEF Before, SessionState, ChainKey, RootKey
    <2>6. /\ \A x \in h.accepted : x.key.step \in Nat
          /\ \A e \in s.previous_keys : e.key.step \in Nat
      BY DEF History, Message, SessionState, CachedKey, ChainKey
    <2>7. \A k : k.step \in Nat /\ Before(k, s.receiving_chain_key)
                  => Before(k, t.receiving_chain_key)
      BY <2>1, <2>2 DEF Before
    <2>8. \A e \in t.previous_keys \ s.previous_keys :
            /\ Before(e.key, t.receiving_chain_key)
            /\ ~Before(e.key, s.receiving_chain_key)
            /\ e.key # key
      <3> SUFFICES ASSUME NEW e \in t.previous_keys \ s.previous_keys
                   PROVE  /\ Before(e.key, t.receiving_chain_key)
                          /\ ~Before(e.key, s.receiving_chain_key)
                          /\ e.key # key
        OBVIOUS
      <3>1. /\ e.key.seed = s.receiving_chain_key.seed
            /\ e.key.step \in s.receiving_chain_key.step .. (key.step - 1)
        BY <2>2
      <3>2. Len(s.receiving_chain_key.seed) \in Nat
        BY DEF SessionState, ChainKey, RootKey
      <3> HIDE DEF t, key
      <3> QED
        BY <2>1, <2>2, <3>1, <3>2 DEF Before
    <2>9. accepts => m \notin h.accepted
      BY <2>4, <2>5 DEF SpentInv
    <2>10. /\ \A x \in g.accepted : Before(x.key, t.receiving_chain_key)
           /\ \A e \in t.previous_keys : Before(e.key, t.receiving_chain_key)
      BY <1>1, <2>4, <2>5, <2>6, <2>7, <2>8 DEF SpentInv
    <2>11. ASSUME NEW x \in g.direct, NEW e \in t.previous_keys PROVE e.key # x.key
      <3>1. CASE x \in h.direct /\ e \in s.previous_keys
        BY <3>1 DEF SpentInv
      <3>2. CASE x \in h.direct /\ e \notin s.previous_keys
        BY <2>8, <3>2 DEF SpentInv
      <3>3. CASE x \notin h.direct /\ e \in s.previous_keys
        BY <1>1, <2>4, <2>5, <2>11, <3>3 DEF SpentInv
      <3>4. CASE x \notin h.direct /\ e \notin s.previous_keys
        BY <1>1, <2>4, <2>8, <2>11, <3>4
      <3> QED
        BY <3>1, <3>2, <3>3, <3>4
    <2>12. /\ g.direct \subseteq g.accepted /\ g.replayed \subseteq g.accepted
           /\ g.direct \cap g.replayed = {}
      BY <1>1, <2>9 DEF SpentInv
    <2>13. Len(t.receiving_chain_key.seed) <= Len(t.root_key)
      BY <2>2 DEF SpentInv
    <2> QED
      BY <2>3, <2>10, <2>11, <2>12, <2>13 DEF SpentInv
  <1> QED
    BY <1>2, <1>3

AllSpent == \A p \in Party : SpentInv(session[p], log[p])

(* A session that nothing has reached, as the handshake makes it.          *)
LEMMA NewSpent ==
  ASSUME NEW root0 \in Secret, NEW ephemeral \in KeyPair, NEW s \in SessionState,
         \/ s = NoSession
         \/ /\ s.previous_keys = {}
            /\ s.root_key = HandshakeRoot(root0, ephemeral).root
            /\ s.receiving_chain_key \in {NoKey, HandshakeRoot(root0, ephemeral).chain}
  PROVE  SpentInv(s, NoHistory)
  <1>1. /\ HandshakeRoot(root0, ephemeral).chain.seed = HandshakeRoot(root0, ephemeral).root
        /\ HandshakeRoot(root0, ephemeral).root = Append(<<root0>>, {ephemeral, SPK})
    BY DEF HandshakeRoot, KdfRoot, Exchange
  <1>2. Len(NoKey.seed) = 0 /\ Len(HandshakeRoot(root0, ephemeral).root) = 2
    BY <1>1 DEF NoKey
  <1>3. /\ Len(s.receiving_chain_key.seed) <= Len(s.root_key)
        /\ s.previous_keys = {}
    <2>1. CASE s = NoSession
      BY <1>2, <2>1 DEF NoSession, NewSession
    <2>2. CASE s.receiving_chain_key = NoKey /\ s.root_key = HandshakeRoot(root0, ephemeral).root
      <3>1. Len(s.receiving_chain_key.seed) = 0 /\ Len(s.root_key) = 2
        BY <1>2, <2>2
      <3> QED
        BY <3>1, <2>2 DEF NoSession, NewSession
    <2>3. CASE /\ s.receiving_chain_key = HandshakeRoot(root0, ephemeral).chain
               /\ s.root_key = HandshakeRoot(root0, ephemeral).root
      <3>1. s.receiving_chain_key.seed = s.root_key /\ Len(s.root_key) = 2
        BY <1>1, <1>2, <2>3
      <3> QED
        BY <3>1 DEF NoSession, NewSession
    <2> QED
      BY <2>1, <2>2, <2>3
  <1> QED
    BY <1>3 DEF NoHistory, SpentInv

LEMMA InitSpent == Init => AllSpent
  <1> SUFFICES ASSUME Init, NEW p \in Party PROVE SpentInv(session[p], log[p])
    BY DEF AllSpent
  <1>1. pending \in BOOLEAN /\ session[p] \in SessionState
    BY InitTypeOK DEF Init, TypeOK
  <1>2. Root0(EK, pending) \in Secret
    BY <1>1, FirstKeysType, HandshakeRootType
  <1>3. \/ session[p] = NoSession
        \/ /\ session[p].previous_keys = {}
           /\ session[p].root_key = HandshakeRoot(Root0(EK, pending), EK).root
           /\ session[p].receiving_chain_key = NoKey
    BY DEF Init, InitiatorSession, NewSession
  <1> QED
    BY <1>1, <1>2, <1>3, FirstKeysType, NewSpent DEF Init

LEMMA HoldingSpent ==
  ASSUME TypeOK, Closed, AllSpent, NEW p \in Party, NEW m \in Message, NEW held \in Holding(p, m)
  PROVE  SpentInv(held, log[p])
  <1>1. CASE p \in open
    BY <1>1 DEF Holding, AllSpent
  <1>2. CASE p \notin open
    <2>1. PICK found \in MayFail("no_opk"), answered \in MayFail("no_sig") :
            held = ResponderSession(m.ephemeral, m.opk /\ found, answered)
      BY <1>2 DEF Holding
    <2>2. (m.opk /\ found) \in BOOLEAN /\ m.ephemeral \in KeyPair
      BY DEF MayFail, Message
    <2> DEFINE root0 == Root0(m.ephemeral, m.opk /\ found)
    <2>3. /\ held.previous_keys = {}
          /\ held.root_key = HandshakeRoot(root0, m.ephemeral).root
          /\ held.receiving_chain_key = HandshakeRoot(root0, m.ephemeral).chain
      BY <2>1 DEF ResponderSession, NewSession
    <2>4. root0 \in Secret /\ held \in SessionState
      BY <2>2, HandshakeRootType, HoldingType
    <2> HIDE DEF root0
    <2>5. SpentInv(held, NoHistory)
      BY <2>2, <2>3, <2>4, NewSpent
    <2> QED
      BY <1>2, <2>5 DEF Closed
  <1> QED
    BY <1>1, <1>2

LEMMA SpentStep == TypeOK /\ Closed /\ AllSpent /\ [Next]_vars => AllSpent'
  <1> SUFFICES ASSUME TypeOK, Closed, AllSpent, [Next]_vars, NEW q \in Party
               PROVE  SpentInv(session'[q], log'[q])
    BY DEF AllSpent, SpentInv, Before
  <1>0. session[q] \in SessionState /\ log[q] \in History /\ SpentInv(session[q], log[q])
        /\ session \in [Party -> SessionState] /\ log \in [Party -> History]
        /\ sent \in SUBSET Message
    BY DEF TypeOK, AllSpent
  <1>1. ASSUME NEW p \in Party, NEW mode \in Mode, Send(p, mode)
        PROVE  SpentInv(session'[q], log'[q])
    <2>1. SpentInv(AfterSend(ReadyToSend(session[q]), mode), log[q])
      BY <1>0, ReadyToSendType, ReadyKeepsSpent, AfterSendKeepsSpent
    <2> QED
      BY <1>0, <1>1, <2>1 DEF Send
  <1>2. ASSUME NEW p \in Party, SendRaises(p) PROVE SpentInv(session'[q], log'[q])
    BY <1>0, <1>2, ReadyKeepsSpent DEF SendRaises
  <1>3. ASSUME NEW p \in Party, NEW m, NEW intact \in BOOLEAN,
               Arrives(m, intact), Receive(p, m, intact)
        PROVE  SpentInv(session'[q], log'[q])
    <2>1. PICK held \in Holding(p, m) : Refuse(p, held, m, intact) \/ Process(p, held, m, intact)
      BY <1>3 DEF Receive
    <2>2. /\ m \in Message /\ m.ephemeral \in KeyPair /\ held \in SessionState
          /\ log[p] \in History /\ SpentInv(held, log[p])
      BY <1>0, <1>3, Arrival, HoldingType, HoldingSpent DEF Message
    <2>3. CASE q # p
      BY <1>0, <2>1, <2>3 DEF Refuse, Process
    <2>4. CASE q = p /\ Refuse(p, held, m, intact)
      <3>1. SpentInv(held, Record(log[p], m, intact, FALSE, FALSE))
        BY <2>2 DEF SpentInv, Record, History
      <3> QED
        BY <1>0, <2>4, <3>1 DEF Refuse
    <2>5. CASE q = p /\ Process(p, held, m, intact)
      <3> DEFINE s == Following(held, m.ephemeral)
      <3>1. s \in SessionState /\ SpentInv(s, log[p])
        BY <2>2, FollowingType, FollowingKeepsSpent
      <3>2. SpentInv(AfterKey(s, m),
                     Record(log[p], m, intact, Authentic(s, m, intact), ~IsOld(s, m)))
        BY <2>2, <3>1, ReceiveKeepsSpent
      <3> QED
        BY <1>0, <2>5, <3>2 DEF Process
    <2> QED
      BY <2>1, <2>3, <2>4, <2>5
  <1>4. CASE UNCHANGED vars
    BY <1>0, <1>4 DEF vars
  <1> QED
    BY <1>1, <1>2, <1>3, <1>4 DEF Next, ReceiveIntact, ReceiveDamaged, Arrives

(* A message read with a key taken off the receiving chain is never read   *)
(* again, whatever duplicates, damages and ratchets come: only the cache   *)
(* of skipped keys can read a message twice (process_incoming_message).    *)
THEOREM DirectReadsOnce == Spec => []DirectOnce
  <1>1. AllSpent => DirectOnce
    BY DEF AllSpent, SpentInv, DirectOnce
  <1> QED
    BY <1>1, InitTypeOK, TypeOKStep, InitClosed, ClosedStep, InitSpent, SpentStep, PTL DEF Spec

-----------------------------------------------------------------------------
(***************************************************************************)
(* The cache.  A party makes the positions of a chain one after the other, *)
(* so a message that was made has every position before it behind it, and  *)
(* those are the only ones the loop passes over.                           *)
(***************************************************************************)
MadeAt(ms, p, pair, n) ==
  \E m \in ms : m.from = p /\ m.ephemeral = pair /\ m.counter = n

NoGaps ==
  /\ \A m \in sent : \A n \in 0 .. (m.counter - 1) : MadeAt(sent, m.from, m.ephemeral, n)
  /\ \A p \in Party : \A n \in 0 .. (session[p].send_counter - 1) :
       MadeAt(sent, p, session[p].dh_self, n)

(* What an end keeps of itself when it makes a message ready.              *)
LEMMA ReadyKeeps ==
  ASSUME NEW s \in SessionState
  PROVE  LET ready == ReadyToSend(s)
         IN  /\ \/ ready.dh_self = s.dh_self /\ ready.send_counter = s.send_counter
                \/ ready.send_counter = 0
             /\ ready.previous_keys = s.previous_keys
             /\ ready.outgoing_index = s.outgoing_index
             /\ ready.pending_mac_keys = s.pending_mac_keys
  BY DEF ReadyToSend, RatchetSend, SessionState

LEMMA AfterSendKeeps ==
  ASSUME NEW s \in SessionState, NEW mode \in Mode
  PROVE  LET after == AfterSend(s, mode)
         IN  /\ after.dh_self = s.dh_self /\ after.send_counter = s.send_counter + 1
             /\ after.previous_keys = s.previous_keys
             /\ after.outgoing_index = s.outgoing_index + 1
             /\ after.pending_mac_keys = PendingAfter(s, mode)
  <1> DEFINE index == s.outgoing_index + 1
             queue == PendingAfter(s, mode)
             chain == KdfChain(s.chain_key).next
             counter == s.send_counter + 1
             t == [s EXCEPT !.outgoing_index = index, !.pending_mac_keys = queue,
                            !.chain_key = chain, !.send_counter = counter]
  <1>1. AfterSend(s, mode) = t
    BY DEF AfterSend
  <1> HIDE DEF index, queue, chain, counter
  <1>2. /\ t.dh_self = s.dh_self /\ t.send_counter = counter
        /\ t.previous_keys = s.previous_keys
        /\ t.outgoing_index = index /\ t.pending_mac_keys = queue
    BY DEF SessionState
  <1> HIDE DEF t
  <1> QED
    BY <1>1, <1>2 DEF index, queue, counter

LEMMA FollowingKeeps ==
  ASSUME NEW s \in SessionState, NEW remote \in KeyPair
  PROVE  LET f == Following(s, remote)
         IN  /\ f \in SessionState /\ f.dh_remote = remote
             /\ f.dh_self = s.dh_self /\ f.send_counter = s.send_counter
             /\ f.previous_keys = s.previous_keys
             /\ f.outgoing_index = s.outgoing_index
             /\ f.pending_mac_keys = s.pending_mac_keys
  <1>1. Following(s, remote) \in SessionState
    BY FollowingType
  <1>2. CASE remote # s.dh_remote
    <2>1. Following(s, remote) = RatchetReceive(s, remote)
      BY <1>2 DEF Following
    <2>2. \A root, chain :
            LET f == [s EXCEPT !.dh_remote = remote, !.root_key = root,
                               !.receiving_chain_key = chain, !.recv_counter = 0]
            IN  /\ f.dh_remote = remote
                /\ f.dh_self = s.dh_self /\ f.send_counter = s.send_counter
                /\ f.previous_keys = s.previous_keys
                /\ f.outgoing_index = s.outgoing_index
                /\ f.pending_mac_keys = s.pending_mac_keys
      BY DEF SessionState
    <2> QED
      BY <1>1, <2>1, <2>2 DEF RatchetReceive
  <1>3. CASE remote = s.dh_remote
    BY <1>1, <1>3 DEF Following
  <1> QED
    BY <1>2, <1>3

(* Receiving leaves what an end sends with alone.                          *)
LEMMA ReceiveKeeps ==
  ASSUME TypeOK, Closed, NEW p \in Party, NEW m, NEW intact \in BOOLEAN,
         Arrives(m, intact), Receive(p, m, intact)
  PROVE  /\ sent' = sent
         /\ \A q \in Party :
              /\ session'[q].dh_self = session[q].dh_self
              /\ session'[q].send_counter = session[q].send_counter
              /\ session'[q].outgoing_index = session[q].outgoing_index
              /\ session'[q].pending_mac_keys = session[q].pending_mac_keys
  <1>1. PICK held \in Holding(p, m) : Refuse(p, held, m, intact) \/ Process(p, held, m, intact)
    BY DEF Receive
  <1>2. /\ held \in SessionState /\ m \in Message /\ m.ephemeral \in KeyPair
        /\ session \in [Party -> SessionState] /\ sent' = sent
    BY Arrival, HoldingType DEF TypeOK, Message, Receive
  <1>3. /\ held.dh_self = session[p].dh_self /\ held.send_counter = session[p].send_counter
        /\ held.outgoing_index = session[p].outgoing_index
        /\ held.pending_mac_keys = session[p].pending_mac_keys
    <2>1. CASE p \in open
      BY <2>1 DEF Holding
    <2>2. CASE p \notin open
      <3>1. session[p] = NoSession
        BY <2>2 DEF Closed
      <3>2. PICK found \in MayFail("no_opk"), answered \in MayFail("no_sig") :
              held = ResponderSession(m.ephemeral, m.opk /\ found, answered)
        BY <2>2 DEF Holding
      <3> QED
        BY <3>1, <3>2 DEF NoSession, ResponderSession, NewSession
    <2> QED
      BY <2>1, <2>2
  <1>4. CASE Refuse(p, held, m, intact)
    BY <1>2, <1>3, <1>4 DEF Refuse
  <1>5. CASE Process(p, held, m, intact)
    <2> DEFINE s == Following(held, m.ephemeral)
               t == AfterKey(s, m)
    <2>1. /\ s \in SessionState
          /\ s.dh_self = held.dh_self /\ s.send_counter = held.send_counter
          /\ s.outgoing_index = held.outgoing_index
          /\ s.pending_mac_keys = held.pending_mac_keys
      BY <1>2, FollowingKeeps
    <2>2. session' = [session EXCEPT ![p] = t]
      BY <1>5 DEF Process
    <2> HIDE DEF s
    <2>3. /\ t.dh_self = s.dh_self /\ t.send_counter = s.send_counter
          /\ t.outgoing_index = s.outgoing_index /\ t.pending_mac_keys = s.pending_mac_keys
      BY <2>1 DEF AfterKey, FastForward, SessionState
    <2> HIDE DEF t
    <2> QED
      BY <1>2, <1>3, <2>1, <2>2, <2>3
  <1> QED
    BY <1>1, <1>4, <1>5

LEMMA InitNoGaps == Init => NoGaps
  BY DEF Init, NoGaps, InitiatorSession, NoSession, NewSession

LEMMA NoGapsStep == TypeOK /\ Closed /\ NoGaps /\ [Next]_vars => NoGaps'
  <1> SUFFICES ASSUME TypeOK, Closed, NoGaps, [Next]_vars PROVE NoGaps'
    OBVIOUS
  <1>0. session \in [Party -> SessionState] /\ sent \in SUBSET Message
    BY DEF TypeOK
  <1>1. ASSUME NEW p \in Party, NEW mode \in Mode, Send(p, mode) PROVE NoGaps'
    <2> DEFINE ready == ReadyToSend(session[p])
               made == Outgoing(p, ready, mode, Header(p))
    <2>1. ready \in SessionState /\ ready.send_counter \in Nat
      BY <1>0, ReadyToSendType DEF SessionState
    <2>2. /\ session' = [session EXCEPT ![p] = AfterSend(ready, mode)]
          /\ sent' = sent \cup {made}
      BY <1>1 DEF Send
    <2>3. /\ made.from = p /\ made.ephemeral = ready.dh_self
          /\ made.counter = ready.send_counter
      BY DEF Outgoing
    <2>4. \A n \in 0 .. (ready.send_counter - 1) : MadeAt(sent, p, ready.dh_self, n)
      BY <1>0, ReadyKeeps DEF NoGaps
    <2>5. \A q, pair, n : MadeAt(sent, q, pair, n) => MadeAt(sent', q, pair, n)
      BY <2>2 DEF MadeAt
    <2>6. /\ session'[p].dh_self = ready.dh_self
          /\ session'[p].send_counter = ready.send_counter + 1
          /\ \A q \in Party : q # p => session'[q] = session[q]
      BY <1>0, <2>1, <2>2, AfterSendKeeps
    <2>7. MadeAt(sent', p, ready.dh_self, ready.send_counter)
      BY <2>2, <2>3 DEF MadeAt
    <2> HIDE DEF ready, made
    <2>8. \A n \in 0 .. ready.send_counter : MadeAt(sent', p, ready.dh_self, n)
      BY <2>1, <2>4, <2>5, <2>7
    <2>9. \A m \in sent' : \A n \in 0 .. (m.counter - 1) :
            MadeAt(sent', m.from, m.ephemeral, n)
      BY <2>2, <2>3, <2>4, <2>5 DEF NoGaps
    <2>10. \A q \in Party : \A n \in 0 .. (session'[q].send_counter - 1) :
             MadeAt(sent', q, session'[q].dh_self, n)
      BY <2>1, <2>5, <2>6, <2>8 DEF NoGaps
    <2> QED
      BY <2>9, <2>10 DEF NoGaps
  <1>2. ASSUME NEW p \in Party, SendRaises(p) PROVE NoGaps'
    <2>1. sent' = sent /\ session' = [session EXCEPT ![p] = ReadyToSend(session[p])]
      BY <1>2 DEF SendRaises
    <2>2. \A q \in Party :
            \/ /\ session'[q].dh_self = session[q].dh_self
               /\ session'[q].send_counter = session[q].send_counter
            \/ session'[q].send_counter = 0
      BY <1>0, <2>1, ReadyKeeps
    <2> QED
      BY <2>1, <2>2 DEF NoGaps
  <1>3. ASSUME NEW p \in Party, NEW m, NEW intact \in BOOLEAN,
               Arrives(m, intact), Receive(p, m, intact)
        PROVE  NoGaps'
    BY <1>3, ReceiveKeeps DEF NoGaps
  <1>4. CASE UNCHANGED vars
    BY <1>4 DEF vars, NoGaps
  <1> QED
    BY <1>1, <1>2, <1>3, <1>4 DEF Next, ReceiveIntact, ReceiveDamaged, Arrives

(* One end's cache, when the messages made are ms and those damaged on     *)
(* their way to it ds: CacheAccounted of it.                               *)
Accounted(p, ms, ds, pair, n) ==
  MadeAt(ms, Peer(p), pair, n) \/ \E a \in ds : a.ephemeral = pair /\ n < a.counter

CacheWithin(cache, p, ms, ds) ==
  \A e \in cache :
    /\ Accounted(p, ms, ds, e.chain, e.counter)
    /\ \A f \in cache : f.chain = e.chain /\ f.counter = e.counter => f = e

LEMMA CacheWithinMore ==
  ASSUME NEW cache, NEW p \in Party, NEW ms, NEW ds, NEW more, NEW spoilt,
         CacheWithin(cache, p, ms, ds), ms \subseteq more, ds \subseteq spoilt
  PROVE  CacheWithin(cache, p, more, spoilt)
  BY DEF CacheWithin, Accounted, MadeAt

LEMMA FastForwardWithin ==
  ASSUME NEW s \in SessionState, NEW p \in Party, NEW ms, NEW ds, NEW counter \in Nat,
         CacheWithin(s.previous_keys, p, ms, ds),
         \A n \in 0 .. (counter - 1) : Accounted(p, ms, ds, s.dh_remote, n)
  PROVE  CacheWithin(FastForward(s, counter).previous_keys, p, ms, ds)
  <1> DEFINE skipped == Skipped(s, counter)
             kept == {e \in s.previous_keys : ~(e.chain = s.dh_remote /\ e.counter \in skipped)}
             entry(n) == [chain |-> s.dh_remote, counter |-> n,
                          key |-> KdfChain(ChainAt(s, n)).message]
  <1>1. FastForward(s, counter).previous_keys = kept \cup {entry(n) : n \in skipped}
    BY DEF FastForward, SessionState
  <1>2. \A n \in skipped : Accounted(p, ms, ds, s.dh_remote, n)
    BY DEF Skipped, SessionState
  <1>3. \A n : entry(n).chain = s.dh_remote /\ entry(n).counter = n
    OBVIOUS
  <1>4. \A e \in kept : ~(e.chain = s.dh_remote /\ e.counter \in skipped)
    OBVIOUS
  <1>5. kept \subseteq s.previous_keys
    OBVIOUS
  <1> DEFINE cache == kept \cup {entry(n) : n \in skipped}
  <1> HIDE DEF entry, skipped, kept
  <1>6. ASSUME NEW e \in cache, NEW f \in cache, f.chain = e.chain, f.counter = e.counter
        PROVE  f = e
    BY <1>3, <1>4, <1>5, <1>6 DEF CacheWithin
  <1>7. \A e \in cache : Accounted(p, ms, ds, e.chain, e.counter)
    BY <1>2, <1>3, <1>5 DEF CacheWithin
  <1> QED
    BY <1>1, <1>6, <1>7 DEF CacheWithin

LEMMA CacheStep ==
  TypeOK /\ Closed /\ NoGaps /\ CacheAccounted /\ [Next]_vars => CacheAccounted'
  <1> SUFFICES ASSUME TypeOK, Closed, NoGaps, CacheAccounted, [Next]_vars, NEW q \in Party
               PROVE  CacheWithin(session'[q].previous_keys, q, sent', log'[q].damaged)
    BY DEF CacheAccounted, CacheWithin, Accounted, MadeAt
  <1>0. /\ session \in [Party -> SessionState] /\ sent \in SUBSET Message
        /\ log \in [Party -> History]
        /\ CacheWithin(session[q].previous_keys, q, sent, log[q].damaged)
    BY DEF TypeOK, CacheAccounted, CacheWithin, Accounted, MadeAt
  <1>1. ASSUME sent \subseteq sent', log' = log,
               session'[q].previous_keys = session[q].previous_keys
        PROVE  CacheWithin(session'[q].previous_keys, q, sent', log'[q].damaged)
    BY <1>0, <1>1, CacheWithinMore
  <1>2. ASSUME NEW p \in Party, NEW mode \in Mode, Send(p, mode)
        PROVE  CacheWithin(session'[q].previous_keys, q, sent', log'[q].damaged)
    <2>1. AfterSend(ReadyToSend(session[p]), mode).previous_keys = session[p].previous_keys
      BY <1>0, ReadyToSendType, ReadyKeeps, AfterSendKeeps
    <2> QED
      BY <1>0, <1>1, <1>2, <2>1 DEF Send
  <1>3. ASSUME NEW p \in Party, SendRaises(p)
        PROVE  CacheWithin(session'[q].previous_keys, q, sent', log'[q].damaged)
    BY <1>0, <1>1, <1>3, ReadyKeeps DEF SendRaises
  <1>4. ASSUME NEW p \in Party, NEW m, NEW intact \in BOOLEAN,
               Arrives(m, intact), Receive(p, m, intact)
        PROVE  CacheWithin(session'[q].previous_keys, q, sent', log'[q].damaged)
    <2>1. PICK held \in Holding(p, m) : Refuse(p, held, m, intact) \/ Process(p, held, m, intact)
      BY <1>4 DEF Receive
    <2>2. /\ held \in SessionState /\ m \in Message /\ m.ephemeral \in KeyPair
          /\ m.counter \in Nat /\ sent' = sent /\ m.from = Peer(p)
      BY <1>0, <1>4, Arrival, HoldingType DEF Message, Receive, Deliverable
    <2>3. CacheWithin(held.previous_keys, p, sent, log[p].damaged)
      BY DEF Holding, ResponderSession, NewSession, CacheAccounted, CacheWithin, Accounted, MadeAt
    <2>a. \A accepts, fresh \in BOOLEAN :
            LET h == Record(log[p], m, intact, accepts, fresh)
            IN  log[p].damaged \subseteq h.damaged /\ (~intact => m \in h.damaged)
      BY <1>0 DEF Record, History
    <2>4. CASE q # p
      <3>1. session'[q] = session[q] /\ log'[q] = log[q]
        BY <1>0, <2>1, <2>4 DEF Refuse, Process
      <3> QED
        BY <1>0, <2>2, <3>1
    <2>5. CASE q = p /\ Refuse(p, held, m, intact)
      <3>1. session'[p] = held /\ log'[p] = Record(log[p], m, intact, FALSE, FALSE)
        BY <1>0, <2>5 DEF Refuse
      <3> QED
        BY <2>2, <2>3, <2>5, <2>a, <3>1, CacheWithinMore
    <2>6. CASE q = p /\ Process(p, held, m, intact)
      <3> DEFINE s == Following(held, m.ephemeral)
                 h == Record(log[p], m, intact, Authentic(s, m, intact), ~IsOld(s, m))
      <3>1. /\ s \in SessionState /\ s.dh_remote = m.ephemeral
            /\ s.previous_keys = held.previous_keys
        BY <2>2, FollowingKeeps
      <3>2. Authentic(s, m, intact) \in BOOLEAN /\ (~IsOld(s, m)) \in BOOLEAN
        BY DEF Authentic, IsOld
      <3>3. session'[p] = AfterKey(s, m) /\ log'[p] = h
        BY <1>0, <2>6 DEF Process
      <3>4. log[p].damaged \subseteq h.damaged /\ (~intact => m \in h.damaged)
        BY <2>a, <3>2
      <3> HIDE DEF s, h
      <3>5. CacheWithin(s.previous_keys, p, sent, h.damaged)
        BY <2>3, <3>1, <3>4, CacheWithinMore
      <3>6. \A n \in 0 .. (m.counter - 1) : Accounted(p, sent, h.damaged, m.ephemeral, n)
        <4>1. CASE intact
          BY <1>4, <2>2, <4>1 DEF Arrives, NoGaps, Accounted
        <4>2. CASE ~intact
          BY <2>2, <3>4, <4>2 DEF Accounted
        <4> QED
          BY <4>1, <4>2
      <3>7. CacheWithin(FastForward(s, m.counter).previous_keys, p, sent, h.damaged)
        BY <2>2, <3>1, <3>5, <3>6, FastForwardWithin
      <3> QED
        BY <2>2, <2>6, <3>3, <3>5, <3>7 DEF AfterKey
    <2> QED
      BY <2>1, <2>4, <2>5, <2>6
  <1>5. CASE UNCHANGED vars
    BY <1>1, <1>5 DEF vars
  <1> QED
    BY <1>2, <1>3, <1>4, <1>5 DEF Next, ReceiveIntact, ReceiveDamaged, Arrives

(* The cache of skipped keys is accounted for: a position the peer made,   *)
(* once, or one below the counter of a damaged message, to which the loop  *)
(* of process_incoming_message runs before it authenticates anything.  So  *)
(* replays, losses and reordering cannot grow previous_keys past what was  *)
(* sent, and only the counters of damaged headers can.                     *)
THEOREM CacheAlwaysAccounted == Spec => []CacheAccounted
  <1>1. Init => CacheAccounted
    BY DEF Init, CacheAccounted, InitiatorSession, NoSession, NewSession
  <1> QED
    BY <1>1, InitTypeOK, TypeOKStep, InitClosed, ClosedStep, InitNoGaps, NoGapsStep, CacheStep,
       PTL DEF Spec

-----------------------------------------------------------------------------
(***************************************************************************)
(* The queue of undisclosed MAC keys.  Its entries lie in a window of the  *)
(* last indices (Young), one for each index; each is the key of a deniable *)
(* message of its end that no message has disclosed yet.                   *)
(***************************************************************************)
Backlog == IF RevealInterval > 1 THEN RevealInterval ELSE 1

Young(queue) ==
  /\ \E top \in Int : \A e \in queue : e.index \in (top - Backlog + 1) .. top
  /\ \A e, f \in queue : e.index = f.index => e = f

Undisclosed(p, e, ms) ==
  /\ \E old \in ms :
       old.from = p /\ old.key = e.key /\ old.mode = DENIABLE /\ old.index = e.index
  /\ \A m \in ms : m.from = p => e.key \notin m.revealed

QueueOf(p, s, ms) ==
  /\ \A m \in ms : m.from = p => m.index <= s.outgoing_index
  /\ \A e \in s.pending_mac_keys : e.index <= s.outgoing_index /\ Undisclosed(p, e, ms)
  /\ Young(s.pending_mac_keys)

QueueInv == DisclosureSound /\ \A p \in Party : QueueOf(p, session[p], sent)

LEMMA InitQueue == Init => QueueInv
  <1> SUFFICES ASSUME Init PROVE QueueInv
    OBVIOUS
  <1>1. \A p \in Party : session[p].pending_mac_keys = {} /\ session[p].outgoing_index = 0
    BY DEF Init, InitiatorSession, NoSession, NewSession
  <1>2. Young({})
    BY DEF Young
  <1> QED
    BY <1>1, <1>2 DEF Init, QueueInv, QueueOf, DisclosureSound

(* A queue keeps its bound, whether or not the message adds to it.         *)
LEMMA QueueStaysYoung ==
  ASSUME NEW s \in SessionState, NEW mode \in Mode, Young(s.pending_mac_keys),
         \A e \in s.pending_mac_keys : e.index <= s.outgoing_index
  PROVE  Young(PendingAfter(s, mode))
  <1> DEFINE now == s.outgoing_index + 1
             kept == Kept(s.pending_mac_keys, now)
             new == [index |-> now, key |-> KdfChain(s.chain_key).message]
  <1>1. CASE mode # DENIABLE
    BY <1>1 DEF PendingAfter
  <1>2. CASE mode = DENIABLE
    <2>1. PendingAfter(s, mode) = kept \cup {new}
      BY <1>2 DEF PendingAfter, Queue
    <2>2. /\ s.outgoing_index \in Nat /\ s.pending_mac_keys \in SUBSET PendingKey
          /\ now \in Nat /\ RevealInterval \in Int
      BY RevealIntervalAssumption DEF SessionState
    <2>3. \A e \in kept : /\ e \in s.pending_mac_keys /\ e.index \in Nat
                          /\ now - e.index < RevealInterval
      BY <2>2 DEF Kept, Revealable, PendingKey
    <2>4. new.index = now
      OBVIOUS
    <2> HIDE DEF now, kept, new
    <2>5. \A e \in kept \cup {new} : e.index \in (now - Backlog + 1) .. now
      BY <2>2, <2>3, <2>4 DEF Backlog, now
    <2>6. \A e, f \in kept \cup {new} : e.index = f.index => e = f
      BY <2>2, <2>3, <2>4 DEF Young, now
    <2> QED
      BY <2>1, <2>2, <2>5, <2>6 DEF Young
  <1> QED
    BY <1>1, <1>2

(* What a message discloses, and what it leaves in the queue.              *)
LEMMA OutgoingDiscloses ==
  ASSUME NEW p \in Party, NEW s \in SessionState, NEW mode \in Mode, NEW opk \in BOOLEAN,
         \A e \in s.pending_mac_keys : e.index <= s.outgoing_index
  PROVE  LET m == Outgoing(p, s, mode, opk)
         IN  /\ m \in Message /\ m.from = p /\ m.mode = mode
             /\ m.index = s.outgoing_index + 1
             /\ \A k \in m.revealed : mode = DENIABLE /\
                  \E e \in s.pending_mac_keys \ PendingAfter(s, mode) :
                    e.key = k /\ e.index < m.index /\ e.index + RevealInterval <= m.index
             /\ \A e \in PendingAfter(s, mode) :
                  \/ e \in s.pending_mac_keys
                  \/ mode = DENIABLE /\ e.index = m.index /\ e.key = m.key
  <1> DEFINE now == s.outgoing_index + 1
             m == Outgoing(p, s, mode, opk)
             queue == s.pending_mac_keys
  <1>1. /\ m \in Message /\ m.from = p /\ m.mode = mode /\ m.index = now
        /\ m.key = KdfChain(s.chain_key).message
        /\ m.revealed = IF mode = DENIABLE THEN {e.key : e \in Revealable(queue, now)} ELSE {}
    BY OutgoingType DEF Outgoing
  <1>2. now \in Nat /\ queue \in SUBSET PendingKey /\ s.outgoing_index \in Nat
    BY DEF SessionState
  <1>3. \A e \in PendingAfter(s, mode) :
          \/ e \in queue
          \/ mode = DENIABLE /\ e.index = now /\ e.key = m.key
    BY <1>1 DEF PendingAfter, Queue, Kept
  <1>4. ASSUME NEW k \in m.revealed
        PROVE  /\ mode = DENIABLE
               /\ \E e \in queue \ PendingAfter(s, mode) :
                    e.key = k /\ e.index < now /\ e.index + RevealInterval <= now
    <2>1. mode = DENIABLE
      BY <1>1, <1>4
    <2>2. PICK e \in Revealable(queue, now) : e.key = k
      BY <1>1, <1>4, <2>1
    <2>3. /\ e \in queue /\ e.index \in Nat /\ e.index < now
          /\ now - e.index >= RevealInterval
      BY <1>2 DEF Revealable, PendingKey
    <2>4. e.index + RevealInterval <= now
      BY <1>2, <2>3, RevealIntervalAssumption
    <2>5. e \notin PendingAfter(s, mode)
      BY <1>2, <2>1, <2>2, <2>3 DEF PendingAfter, Queue, Kept
    <2> QED
      BY <2>1, <2>2, <2>3, <2>4, <2>5
  <1> QED
    BY <1>1, <1>3, <1>4

(***************************************************************************)
(* A message is made.  Its key is no other message's, so it is disclosed   *)
(* by none; and two entries of the queue with one key are one entry, so    *)
(* what it discloses has left the queue.                                   *)
(***************************************************************************)
Discloses(p, m, ms) ==
  \A k \in m.revealed :
    /\ m.mode = DENIABLE
    /\ \E old \in ms : /\ old.key = k /\ old.from = p /\ old.mode = DENIABLE
                       /\ old.index < m.index /\ old.index + RevealInterval <= m.index
    /\ \A x \in ms : k \notin x.revealed

LEMMA MadeKeepsQueue ==
  ASSUME NEW ms \in SUBSET Message, NEW p \in Party, NEW s \in SessionState,
         NEW mode \in Mode, NEW opk \in BOOLEAN,
         KeysDistinct(ms \cup {Outgoing(p, s, mode, opk)}), QueueOf(p, s, ms),
         \A x \in ms : \A k \in x.revealed : \E old \in ms : old.key = k /\ old.from = x.from
  PROVE  /\ QueueOf(p, AfterSend(s, mode), ms \cup {Outgoing(p, s, mode, opk)})
         /\ Discloses(p, Outgoing(p, s, mode, opk), ms)
  <1> DEFINE m == Outgoing(p, s, mode, opk)
             all == ms \cup {m}
             queue == s.pending_mac_keys
             after == PendingAfter(s, mode)
  <1>1. /\ m.from = p /\ m.mode = mode /\ m.index = s.outgoing_index + 1
        /\ \A k \in m.revealed : mode = DENIABLE /\
             \E e \in queue \ after :
               e.key = k /\ e.index < m.index /\ e.index + RevealInterval <= m.index
        /\ \A e \in after :
             e \in queue \/ (mode = DENIABLE /\ e.index = m.index /\ e.key = m.key)
    BY OutgoingDiscloses DEF QueueOf
  <1>2. /\ s.outgoing_index \in Nat
        /\ \A x \in ms : x.index \in Nat
    BY DEF SessionState, Message
  <1>3. Young(after)
    BY QueueStaysYoung DEF QueueOf
  <1>4. \A x \in ms : x.key # m.key
    <2> SUFFICES ASSUME NEW x \in ms, x.key = m.key PROVE FALSE
      OBVIOUS
    <2>1. x = m
      BY DEF KeysDistinct
    <2> QED
      BY <1>1, <1>2, <2>1 DEF QueueOf
  <1>5. \A x \in ms : m.key \notin x.revealed
    BY <1>4
  <1>6. \A e \in queue : Undisclosed(p, e, ms)
    BY DEF QueueOf
  <1>7. \A e \in queue : \A x \in ms : e.key \notin x.revealed
    <2> SUFFICES ASSUME NEW e \in queue, NEW x \in ms, e.key \in x.revealed PROVE FALSE
      OBVIOUS
    <2>1. PICK old \in ms : old.from = p /\ old.key = e.key
      BY <1>6 DEF Undisclosed
    <2>2. PICK other \in ms : other.key = e.key /\ other.from = x.from
      OBVIOUS
    <2>3. old = other
      BY <2>1, <2>2 DEF KeysDistinct
    <2> QED
      BY <1>6, <2>1, <2>2, <2>3 DEF Undisclosed
  <1>8. \A e, f \in queue : e.key = f.key => e = f
    <2> SUFFICES ASSUME NEW e \in queue, NEW f \in queue, e.key = f.key PROVE e = f
      OBVIOUS
    <2>1. PICK a \in ms : a.key = e.key /\ a.index = e.index
      BY <1>6 DEF Undisclosed
    <2>2. PICK b \in ms : b.key = f.key /\ b.index = f.index
      BY <1>6 DEF Undisclosed
    <2>3. a = b
      BY <2>1, <2>2 DEF KeysDistinct
    <2> QED
      BY <2>1, <2>2, <2>3 DEF QueueOf, Young
  <1>9. AfterSend(s, mode).outgoing_index = s.outgoing_index + 1
        /\ AfterSend(s, mode).pending_mac_keys = after
    BY AfterSendKeeps
  <1> HIDE DEF m, queue, after
  <1>10. \A e \in after : e.key \notin m.revealed
    <2> SUFFICES ASSUME NEW e \in after, e.key \in m.revealed PROVE FALSE
      OBVIOUS
    <2>1. PICK f \in queue \ after : f.key = e.key
      BY <1>1
    <2>2. CASE e \in queue
      BY <1>8, <2>1, <2>2
    <2>3. CASE e.key = m.key
      BY <1>4, <1>6, <2>1, <2>3 DEF Undisclosed
    <2> QED
      BY <1>1, <2>2, <2>3
  <1>11. \A e \in after : e.index <= s.outgoing_index + 1 /\ Undisclosed(p, e, all)
    <2> SUFFICES ASSUME NEW e \in after
                 PROVE  e.index <= s.outgoing_index + 1 /\ Undisclosed(p, e, all)
      OBVIOUS
    <2>1. CASE e \in queue
      <3>1. e.index <= s.outgoing_index
        BY <2>1 DEF QueueOf, queue
      <3>2. e.index \in Nat
        BY <2>1 DEF SessionState, PendingKey, queue
      <3> QED
        BY <1>2, <1>6, <1>10, <2>1, <3>1, <3>2 DEF Undisclosed
    <2>2. CASE mode = DENIABLE /\ e.index = m.index /\ e.key = m.key
      BY <1>1, <1>2, <1>5, <1>10, <2>2 DEF Undisclosed
    <2> QED
      BY <1>1, <2>1, <2>2
  <1>12. \A x \in all : x.from = p => x.index <= s.outgoing_index + 1
    BY <1>1, <1>2 DEF QueueOf
  <1>13. QueueOf(p, AfterSend(s, mode), all)
    BY <1>3, <1>9, <1>11, <1>12 DEF QueueOf
  <1>14. Discloses(p, m, ms)
    <2> SUFFICES ASSUME NEW k \in m.revealed
                 PROVE  /\ m.mode = DENIABLE
                        /\ \E old \in ms :
                             /\ old.key = k /\ old.from = p /\ old.mode = DENIABLE
                             /\ old.index < m.index /\ old.index + RevealInterval <= m.index
                        /\ \A x \in ms : k \notin x.revealed
      BY DEF Discloses
    <2>1. PICK e \in queue : /\ e.key = k /\ e.index < m.index
                             /\ e.index + RevealInterval <= m.index
      BY <1>1
    <2> QED
      BY <1>1, <1>6, <1>7, <2>1 DEF Undisclosed
  <1> QED
    BY <1>13, <1>14 DEF m

LEMMA QueueStep ==
  /\ TypeOK /\ Closed /\ QueueInv /\ [Next]_vars
  /\ KeysInv(session', sent')
  => QueueInv'
  <1> SUFFICES ASSUME TypeOK, Closed, QueueInv, [Next]_vars, KeysInv(session', sent')
               PROVE  QueueInv'
    OBVIOUS
  <1>0. session \in [Party -> SessionState] /\ sent \in SUBSET Message
    BY DEF TypeOK
  <1>1. ASSUME NEW p \in Party, NEW mode \in Mode, Send(p, mode) PROVE QueueInv'
    <2> DEFINE ready == ReadyToSend(session[p])
               m == Outgoing(p, ready, mode, Header(p))
    <2>1. ready \in SessionState /\ Header(p) \in BOOLEAN /\ QueueOf(p, ready, sent)
      BY <1>0, ReadyToSendType, ReadyKeeps DEF TypeOK, Header, QueueInv, QueueOf
    <2>2. /\ session' = [session EXCEPT ![p] = AfterSend(ready, mode)]
          /\ sent' = sent \cup {m}
      BY <1>1 DEF Send
    <2>3. KeysDistinct(sent \cup {m})
      BY <2>2 DEF KeysInv
    <2>4. \A x \in sent : \A k \in x.revealed : \E old \in sent : old.key = k /\ old.from = x.from
      BY DEF QueueInv, DisclosureSound
    <2> HIDE DEF ready
    <2>5. QueueOf(p, AfterSend(ready, mode), sent \cup {m}) /\ Discloses(p, m, sent)
      BY <1>0, <2>1, <2>3, <2>4, MadeKeepsQueue
    <2>6. m.from = p
      BY DEF Outgoing
    <2> HIDE DEF m
    <2>7. DisclosureSound'
      BY <2>2, <2>5, <2>6 DEF QueueInv, DisclosureSound, Discloses
    <2>8. ASSUME NEW q \in Party, q # p PROVE QueueOf(q, session'[q], sent')
      <3>1. session'[q] = session[q]
        BY <1>0, <2>2, <2>8
      <3> QED
        BY <2>2, <2>6, <2>8, <3>1 DEF QueueInv, QueueOf, Undisclosed
    <2>9. QueueOf(p, session'[p], sent')
      BY <1>0, <2>2, <2>5
    <2> QED
      BY <2>7, <2>8, <2>9 DEF QueueInv, QueueOf, Young, Undisclosed
  <1>2. ASSUME sent' = sent,
               \A q \in Party : /\ session'[q].outgoing_index = session[q].outgoing_index
                                 /\ session'[q].pending_mac_keys = session[q].pending_mac_keys
        PROVE  QueueInv'
    <2>1. \A q \in Party : QueueOf(q, session'[q], sent')
      BY <1>2 DEF QueueInv, QueueOf
    <2> QED
      BY <1>2, <2>1 DEF QueueInv, DisclosureSound, QueueOf, Young, Undisclosed
  <1>3. ASSUME NEW p \in Party, SendRaises(p) PROVE QueueInv'
    BY <1>0, <1>2, <1>3, ReadyKeeps DEF SendRaises
  <1>4. ASSUME NEW p \in Party, NEW m, NEW intact \in BOOLEAN,
               Arrives(m, intact), Receive(p, m, intact)
        PROVE  QueueInv'
    BY <1>2, <1>4, ReceiveKeeps
  <1>5. CASE UNCHANGED vars
    BY <1>2, <1>5 DEF vars
  <1> QED
    BY <1>1, <1>3, <1>4, <1>5 DEF Next, ReceiveIntact, ReceiveDamaged, Arrives

LEMMA QueueHolds == Spec => []QueueInv
  <1>1. /\ TypeOK /\ Closed /\ KeysInv(session, sent) /\ QueueInv /\ [Next]_vars
        => KeysInv(session, sent)' /\ QueueInv'
    BY KeysStep, QueueStep DEF KeysInv, KeysKnown, KeysSpent, KeysDistinct, Known, SeedKnown
  <1> QED
    BY <1>1, InitTypeOK, TypeOKStep, InitClosed, ClosedStep, InitKeys, InitQueue, PTL DEF Spec

(* A MAC key is disclosed once, by its sender, and no earlier than         *)
(* RevealInterval messages after the message it authenticates, whatever    *)
(* the modes, the network and failing sends do (queue_mac_key,             *)
(* collect_revealable_mac_keys).                                           *)
THEOREM DisclosedOnceAndLate == Spec => []DisclosureSound
  BY QueueHolds, PTL DEF QueueInv

(* A set whose indices are distinct and lie in a window is no larger.      *)
LEMMA YoungIsSmall ==
  ASSUME NEW queue, Young(queue)
  PROVE  Cardinality(queue) <= Backlog
  <1>1. PICK top \in Int : \A e \in queue : e.index \in (top - Backlog + 1) .. top
    BY DEF Young
  <1> DEFINE window == (top - Backlog + 1) .. top
             index == [e \in queue |-> e.index]
  <1>2. Backlog \in Nat \ {0}
    BY RevealIntervalAssumption DEF Backlog
  <1>3. IsFiniteSet(window) /\ Cardinality(window) = Backlog
    BY <1>2, FS_Interval
  <1>4. index \in Injection(queue, window)
    BY <1>1 DEF Young, Injection, IsInjective
  <1> QED
    BY <1>3, <1>4, FS_Injection

(* The queue never holds more than RevealInterval keys, however the two    *)
(* modes alternate (DeniabilityState.pending_mac_keys).                    *)
THEOREM QueueBounded == Spec => []BacklogBounded
  <1>1. QueueInv => BacklogBounded
    BY YoungIsSmall DEF QueueInv, QueueOf, BacklogBounded, Backlog
  <1> QED
    BY <1>1, QueueHolds, PTL
=============================================================================
