---------------------------- MODULE SessionPair -----------------------------
(***************************************************************************)
(* Two clients and one session: start_session has made the initiator's     *)
(* end, receive_message makes the responder's of the first message that    *)
(* arrives, and construct_outgoing_message and process_incoming_message    *)
(* are the steps of both.  The misbehaviour of the network, the users and  *)
(* the prekey server is the parameter Faults.                              *)
(***************************************************************************)
EXTENDS Messaging, FiniteSets

CONSTANTS
  Faults,       \* what the network and the users may do, a subset of AllFaults
  MaxSend,      \* bound: messages each party sends
  MaxDamaged,   \* bound: messages damaged on their way to each party
  MaxCounter,   \* bound: the highest counter a damaged message carries
  MaxRatchets   \* bound: DH secrets a party mixes into its root key

AllFaults ==
  {"reorder",   \* messages of one chain overtake each other, get lost or come twice
   "stale",     \* a message comes after one of a later chain of its sender
   "skip",      \* a message comes with no message of the chain before it
   "crossing",  \* a party rotates without knowing the peer's latest key pair
   "damage",    \* a ciphertext is damaged on the way
   "counter",   \* with it, the counter in the message's header
   "keypair",   \* with it, the key pair in the header: it names one nobody has
   "overtaken", \* another message than the one with the header it takes opens the session
   "raises",    \* the message that carries the header cannot be encoded
   "no_opk",    \* the responder no longer has the one-time prekey
   "no_sig"}    \* the responder's fetch of the initiator's keys fails

ASSUME FaultsAssumption == Faults \subseteq AllFaults
ASSUME BoundsAssumption ==
  /\ MaxSend \in [Party -> Nat]
  /\ MaxDamaged \in Nat /\ MaxCounter \in Nat /\ MaxRatchets \in Nat

VARIABLES
  session,   \* each party's SessionState
  open,      \* the parties whose client holds a session
  pending,   \* the initiator's pending header names a one-time prekey
  sent,      \* every message made: the network may deliver any of them at any time
  log        \* what happened to the messages that reached each party

vars == <<session, open, pending, sent, log>>

(***************************************************************************)
(* History, of messages as they arrived.  `tried' and `damaged' are those  *)
(* processed as sent and damaged; `accepted' those whose text was          *)
(* returned, `direct' with a key taken off the chain, `replayed' more than *)
(* once; `spoiled' those that took a key off the chain and were not        *)
(* accepted.                                                               *)
(***************************************************************************)
History ==
  [tried : SUBSET Message, damaged : SUBSET Message, accepted : SUBSET Message,
   direct : SUBSET Message, replayed : SUBSET Message, spoiled : SUBSET Message]

NoHistory ==
  [tried |-> {}, damaged |-> {}, accepted |-> {}, direct |-> {}, replayed |-> {},
   spoiled |-> {}]

TypeOK ==
  /\ session \in [Party -> SessionState]
  /\ open \subseteq Party
  /\ pending \in BOOLEAN
  /\ sent \subseteq Message
  /\ log \in [Party -> History]

Init ==
  /\ pending \in BOOLEAN
  /\ session = [p \in Party |-> IF p = Initiator THEN InitiatorSession(pending) ELSE NoSession]
  /\ open = {Initiator}
  /\ sent = {}
  /\ log = [p \in Party |-> NoHistory]

-----------------------------------------------------------------------------
(* A party that rotates does so knowing the key pair its peer uses now. *)
MayRotate(p) ==
  \/ "crossing" \in Faults
  \/ session[p].dh_remote = session[Peer(p)].dh_self

CanSend(p) ==
  /\ p \in open
  /\ MaybeRotate(session[p]) => MayRotate(p) /\ Len(session[p].root_key) < MaxRatchets

(* send_message pops the header before it makes the message.              *)
Header(p) == p = Initiator /\ pending
PopHeader(p) == pending' = (pending /\ p # Initiator)

Send(p, mode) ==
  /\ CanSend(p)
  /\ session[p].outgoing_index < MaxSend[p]
  /\ LET ready == ReadyToSend(session[p])
     IN  /\ session' = [session EXCEPT ![p] = AfterSend(ready, mode)]
         /\ sent' = sent \cup {Outgoing(p, ready, mode, Header(p))}
  /\ PopHeader(p)
  /\ UNCHANGED <<open, log>>

(***************************************************************************)
(* The text cannot be encoded: construct_outgoing_message raises, after    *)
(* the header was popped and the rotation it began with was made.          *)
(***************************************************************************)
SendRaises(p) ==
  /\ CanSend(p)
  /\ MaybeRotate(session[p]) \/ Header(p)
  /\ Header(p) => "raises" \in Faults
  /\ session' = [session EXCEPT ![p] = ReadyToSend(@)]
  /\ PopHeader(p)
  /\ UNCHANGED <<open, sent, log>>

-----------------------------------------------------------------------------
(* What the network delivers.  Without "reorder" it delivers each message *)
(* once, in the order of sending.                                         *)
Arrived(p, m) == \E a \in log[p].tried \cup log[p].damaged : a.index = m.index

InOrder(p, m) ==
  /\ ~Arrived(p, m)
  /\ \A other \in sent : other.from = m.from /\ other.index < m.index => Arrived(p, other)

(* accept_session makes the session the message is of. *)
Opens(m) == m.session_id = Root0(m.ephemeral, m.opk)

Deliverable(p, m) ==
  /\ m.from = Peer(p)
  /\ "reorder" \in Faults \/ InOrder(p, m)
  /\ IF p \in open
     THEN /\ "stale" \in Faults \/ m.ephemeral.n >= session[p].dh_remote.n
          /\ "skip" \in Faults \/ m.ephemeral.n <= session[p].dh_remote.n + 1
          /\ m.ephemeral # session[p].dh_remote => Len(session[p].root_key) < MaxRatchets
     ELSE "overtaken" \in Faults \/ Opens(m)

(* The session receive_message finds or makes for message m.               *)
MayFail(fault) == IF fault \in Faults THEN BOOLEAN ELSE {TRUE}
Holding(p, m) ==
  IF p \in open
  THEN {session[p]}
  ELSE {ResponderSession(m.ephemeral, m.opk /\ found, answered) :
          found \in MayFail("no_opk"), answered \in MayFail("no_sig")}

Record(h, m, intact, accepts, fresh) ==
  [h EXCEPT !.tried = IF intact THEN @ \cup {m} ELSE @,
            !.damaged = IF intact THEN @ ELSE @ \cup {m},
            !.accepted = IF accepts THEN @ \cup {m} ELSE @,
            !.direct = IF accepts /\ fresh THEN @ \cup {m} ELSE @,
            !.replayed = IF accepts /\ m \in h.accepted THEN @ \cup {m} ELSE @,
            !.spoiled = IF ~accepts /\ fresh THEN @ \cup {m} ELSE @]

(* A message of another session is refused before anything else (one for   *)
(* another receiver or without a key pair, which the program never makes   *)
(* and would refuse next, does not come) ...                               *)
Refuse(p, held, m, intact) ==
  /\ m.session_id # held.session_id
  /\ session' = [session EXCEPT ![p] = held]
  /\ log' = [log EXCEPT ![p] = Record(@, m, intact, FALSE, FALSE)]

(***************************************************************************)
(* ... and one of this session makes it follow the message's chain and     *)
(* spend or look up its key, and keep what that changed whether or not the *)
(* message then turns out to be authentic.                                 *)
(***************************************************************************)
Process(p, held, m, intact) ==
  /\ m.session_id = held.session_id
  /\ LET s == Following(held, m.ephemeral)
     IN  /\ session' = [session EXCEPT ![p] = AfterKey(s, m)]
         /\ log' = [log EXCEPT ![p] =
                      Record(@, m, intact, Authentic(s, m, intact), ~IsOld(s, m))]

Receive(p, m, intact) ==
  /\ Deliverable(p, m)
  /\ \E held \in Holding(p, m) : Refuse(p, held, m, intact) \/ Process(p, held, m, intact)
  /\ open' = open \cup {p}
  /\ UNCHANGED <<pending, sent>>

(***************************************************************************)
(* What a damaged message arrives as.  Its ciphertext, MAC or signature no *)
(* longer matches the rest, and the counter and the key pair, which        *)
(* process_incoming_message acts on before it finds that out, may be       *)
(* others.                                                                 *)
(***************************************************************************)
Stray == [owner |-> Initiator, n |-> 0]   \* a key pair neither end ever made
MisreadCounters == IF "counter" \in Faults THEN 0 .. MaxCounter ELSE {}
MisreadKeyPairs == IF "keypair" \in Faults THEN {Stray} ELSE {}
Altered(m, n, pair) == [m EXCEPT !.counter = n, !.ephemeral = pair]
Damaged(m) ==
  {Altered(m, n, pair) :
     n \in {m.counter} \cup MisreadCounters, pair \in {m.ephemeral} \cup MisreadKeyPairs}

ReceiveIntact(p) == \E m \in sent : Receive(p, m, TRUE)
ReceiveDamaged(p) ==
  /\ "damage" \in Faults /\ Cardinality(log[p].damaged) < MaxDamaged
  /\ \E m \in sent : \E a \in Damaged(m) : Receive(p, a, FALSE)

Next ==
  \E p \in Party :
    \/ \E mode \in Mode : Send(p, mode)
    \/ SendRaises(p)
    \/ ReceiveIntact(p)
    \/ ReceiveDamaged(p)

Spec == Init /\ [][Next]_vars

(* Messages that can be delivered are, in the end. *)
Fairness == \A p \in Party : WF_vars(ReceiveIntact(p))
FairSpec == Spec /\ Fairness
-----------------------------------------------------------------------------
(***************************************************************************)
(* Safety over any network.                                                *)
(***************************************************************************)

(* Two messages are never made under one message key: the AES-GCM nonce is *)
(* derived from that key, so a key used twice is a nonce used twice        *)
(* (construct_outgoing_message, kdf_chain, _ratchet_send).                 *)
UniqueMessageKeys ==
  \A m1, m2 \in sent : m1.key = m2.key => m1 = m2

(* A message accepted with a key taken off the receiving chain is never    *)
(* accepted again, although recv_counter goes back to 0 at every ratchet   *)
(* and a duplicate of an earlier chain makes the session ratchet again.    *)
DirectOnce ==
  \A p \in Party : log[p].direct \cap log[p].replayed = {}

(* A disclosed MAC key is that of an earlier deniable message of the same  *)
(* sender, at least RevealInterval messages old, and is disclosed once     *)
(* (collect_revealable_mac_keys, queue_mac_key).                           *)
DisclosureSound ==
  \A m \in sent : \A k \in m.revealed :
    /\ m.mode = DENIABLE
    /\ \E old \in sent :
         /\ old.key = k /\ old.from = m.from /\ old.mode = DENIABLE
         /\ old.index < m.index /\ old.index + RevealInterval <= m.index
    /\ \A other \in sent \ {m} : k \notin other.revealed

(* The queue of undisclosed MAC keys stays as short as the interval asks,  *)
(* however deniable and verifiable messages alternate.                     *)
BacklogBounded ==
  \A p \in Party :
    Cardinality(session[p].pending_mac_keys) <= IF RevealInterval > 1 THEN RevealInterval ELSE 1

(* previous_keys is never pruned and nothing bounds the loop that fills it, *)
(* but no order of messages, duplicate or loss makes it hold more keys     *)
(* than the peer made messages: a key is cached once for a position, and   *)
(* for a position the peer never made only below the counter of a damaged  *)
(* message, which the loop runs to before the message is authenticated.    *)
CacheAccounted ==
  \A p \in Party : \A e \in session[p].previous_keys :
    /\ \/ \E m \in sent : m.from = Peer(p) /\ m.ephemeral = e.chain /\ m.counter = e.counter
       \/ \E a \in log[p].damaged : a.ephemeral = e.chain /\ e.counter < a.counter
    /\ \A f \in session[p].previous_keys :
         f.chain = e.chain /\ f.counter = e.counter => f = e

-----------------------------------------------------------------------------
(***************************************************************************)
(* What holds while chains arrive in order and rotations do not cross.     *)
(***************************************************************************)

(* A message that reaches its receiver undamaged is accepted, whatever     *)
(* happened to the other messages of its chain, also when damage moved     *)
(* their counters: only a damaged message that came with its very position *)
(* takes its key, and a verifiable message needs the signature key too.    *)
SamePosition(m1, m2) == m1.ephemeral = m2.ephemeral /\ m1.counter = m2.counter
FirstDeliveryAccepted ==
  \A p \in Party : \A m \in log[p].tried :
    \/ m \in log[p].accepted
    \/ m.mode = VERIFIABLE /\ ~session[p].peer_sig_known
    \/ \E a \in log[p].damaged \cap log[p].spoiled : SamePosition(a, m)

(* The key cached for a skipped position is the key of the message the     *)
(* peer makes at that position.                                            *)
CacheSound ==
  \A p \in Party : \A e \in session[p].previous_keys : \A m \in sent :
    m.ephemeral = e.chain /\ m.counter = e.counter => m.key = e.key

(* In order of sending, a MAC key is disclosed to the receiver only after  *)
(* it accepted the message the key authenticates.                          *)
DisclosedAfterAccepted ==
  \A p \in Party : \A m \in log[p].accepted : \A k \in m.revealed :
    \E old \in log[p].accepted : old.key = k

(* In order of sending, every message that needs no unknown signature key  *)
(* is accepted in the end.                                                 *)
EventuallyAccepted ==
  \A p \in Party : \A i \in 1 .. MaxSend[p] :
    (\E m \in sent : /\ m.from = p /\ m.index = i
                     /\ m.mode = VERIFIABLE => session[Peer(p)].peer_sig_known)
      ~> (\E m \in log[Peer(p)].accepted : m.index = i)

-----------------------------------------------------------------------------
(***************************************************************************)
(* The abstract specification: a receiver that numbers chains and          *)
(* positions, with the key pair's rank for the chain and the counters for  *)
(* the position.                                                           *)
(***************************************************************************)
ChainOf(pair) == pair.n - 1
PositionOf(m) == [chain |-> ChainOf(m.ephemeral), n |-> m.counter]

Window == INSTANCE DeliveryWindow WITH
  Misread <- MisreadCounters,
  made <- [p \in Party |-> {PositionOf(m) : m \in {x \in sent : x.from = p}}],
  out <- [p \in Party |-> [chain |-> ChainOf(session[p].dh_self), n |-> session[p].send_counter]],
  window <- [p \in Party |->
               [chain |-> ChainOf(session[p].dh_remote), next |-> session[p].recv_counter,
                skipped |-> {[chain |-> ChainOf(e.chain), n |-> e.counter] :
                               e \in session[p].previous_keys}]],
  read <- [p \in Party |-> {PositionOf(m) : m \in log[p].accepted}],
  spoiled <- [p \in Party |-> {PositionOf(m) : m \in log[p].spoiled}]

(* Every step of the two ends is one the delivery window allows, so a      *)
(* session accepts exactly what the window says it reads, and caches the   *)
(* keys of exactly the positions the window skipped.                       *)
ImplementsWindow == Window!Spec

(* Of the chain a session follows, the key of every position below         *)
(* recv_counter is cached, has read a message or was spent on one spoiled  *)
(* on its way: none is dropped.                                            *)
NothingLost == Window!NothingLost

-----------------------------------------------------------------------------
(***************************************************************************)
(* What the repository says of the program and the program does not do.    *)
(***************************************************************************)

(* A message is accepted once: messaging.py refuses a counter it has       *)
(* passed as "replayed/unknown counter".                                   *)
AcceptedOnce == \A p \in Party : log[p].replayed = {}

(* A message of an earlier chain is read with its cached key, as the       *)
(* comment in process_incoming_message says.                               *)
CachedKeyReads ==
  \A p \in Party : \A m \in log[p].tried \ log[p].damaged :
    (\E e \in session[p].previous_keys : e.key = m.key) => m \in log[p].accepted
=============================================================================
