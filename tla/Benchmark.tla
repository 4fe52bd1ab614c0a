------------------------------ MODULE Benchmark ------------------------------
(***************************************************************************)
(* The comparison of utils/benchmark_protocols.py: run_trial sends and     *)
(* receives one message at a time, through OTR++ and through a baseline    *)
(* that has a ratchet of its own.  Both are driven here by the same calls, *)
(* so that what they do can be compared call by call.  A caller of the     *)
(* adapters may also lose a message, as run_trial never does: the loops    *)
(* that fast-forward both ratchets are there for that.                     *)
(***************************************************************************)
EXTENDS Messaging, FiniteSets

CONSTANTS
  Messages,  \* run_trial's parameter: how many messages a trial sends
  MaxLost    \* how many of them the caller may lose

ASSUME TrialAssumption == Messages \in Nat /\ MaxLost \in Nat

VARIABLES
  mode,     \* the mode of the OTR++ adapter
  session,  \* the OTR++ sessions of alice, the Initiator, and bob
  open,     \* bob has a session
  party,    \* the baseline's two parties
  flight,   \* the two messages sent and not received yet, if any
  lost,     \* the indices of the messages lost
  refused   \* the adapters whose receive raised, which ends the trial

vars == <<mode, session, open, party, flight, lost, refused>>

-----------------------------------------------------------------------------
(* X3DHRatchetBaselineAdapter. *)
RatchetParty(root, sending, receiving, self, remote) ==
  [root_key |-> root, sending_chain_key |-> sending, receiving_chain_key |-> receiving,
   dh_self |-> self, dh_remote |-> remote, send_counter |-> 0, recv_counter |-> 0]

Setup ==
  LET derived == HandshakeRoot(Root0(EK, TRUE), EK)
  IN  [p \in Party |->
         IF p = Initiator THEN RatchetParty(derived.root, derived.chain, NoKey, EK, SPK)
                          ELSE RatchetParty(derived.root, NoKey, derived.chain, SPK, EK)]

MaybeRotateSend(a) ==
  IF RotateInterval > 0 /\ a.send_counter > 0 /\ a.send_counter % RotateInterval = 0
  THEN LET fresh == Generate(a.dh_self)
           derived == KdfRoot(a.root_key, Exchange(fresh, a.dh_remote))
       IN  [a EXCEPT !.dh_self = fresh, !.root_key = derived.root,
                     !.sending_chain_key = derived.chain, !.send_counter = 0]
  ELSE a

BaselineMessage(a) ==
  [counter |-> a.send_counter, ephemeral |-> a.dh_self,
   key |-> KdfChain(a.sending_chain_key).message]
BaselineAfterSend(a) ==
  [a EXCEPT !.sending_chain_key = KdfChain(@).next, !.send_counter = @ + 1]

(* Mutant: the receiving end keeps its counter when it ratchets. *)
BaselineFollowingKeepsCounter(b, remote) ==
  LET derived == KdfRoot(b.root_key, Exchange(b.dh_self, remote))
  IN  IF remote # b.dh_remote
      THEN [b EXCEPT !.dh_remote = remote, !.root_key = derived.root,
                     !.receiving_chain_key = derived.chain]
      ELSE b

BaselineFollowing(b, remote) ==
  LET derived == KdfRoot(b.root_key, Exchange(b.dh_self, remote))
  IN  IF remote # b.dh_remote
      THEN [b EXCEPT !.dh_remote = remote, !.root_key = derived.root,
                     !.receiving_chain_key = derived.chain, !.recv_counter = 0]
      ELSE b

(* Mutant: the loop stops one key early. *)
BaselineSkippedFewer(b, m) ==
  IF m.counter > b.recv_counter + 1 THEN m.counter - b.recv_counter - 1 ELSE 0

(* How many keys the loop passes over; it caches none.  A counter behind   *)
(* recv_counter passes over none either, and takes the next key.           *)
BaselineSkipped(b, m) ==
  IF m.counter > b.recv_counter THEN m.counter - b.recv_counter ELSE 0

(* What receive finds once it follows the message's chain: the MAC is that *)
(* of the key it is left with, or receive raises; the key is spent.        *)
BaselineKey(b, m) == [b.receiving_chain_key EXCEPT !.step = @ + BaselineSkipped(b, m)]
BaselineAfterReceive(b, m) ==
  [b EXCEPT !.receiving_chain_key = KdfChain(BaselineKey(b, m)).next,
            !.recv_counter = @ + BaselineSkipped(b, m) + 1]

-----------------------------------------------------------------------------
(* OTRPPAdapter: bob takes the first message he gets for a handshake.      *)
Held(m) == IF open THEN session[Responder] ELSE ResponderSession(m.ephemeral, m.opk, TRUE)
SameSession(m) == m.session_id = Held(m).session_id

OTRPPAccepts(m) ==
  SameSession(m) /\ Authentic(Following(Held(m), m.ephemeral), m, TRUE)
OTRPPAfterReceive(m) ==
  IF SameSession(m) THEN AfterKey(Following(Held(m), m.ephemeral), m) ELSE Held(m)

-----------------------------------------------------------------------------
Sent == session[Initiator].outgoing_index

Init ==
  /\ mode \in Mode
  /\ session = [p \in Party |-> IF p = Initiator THEN InitiatorSession(TRUE) ELSE NoSession]
  /\ open = FALSE
  /\ party = Setup
  /\ flight = {}
  /\ lost = {}
  /\ refused = {}

Send ==
  /\ Sent < Messages /\ flight = {} /\ refused = {}
  /\ LET a == ReadyToSend(session[Initiator])
         b == MaybeRotateSend(party[Initiator])
     IN  /\ session' = [session EXCEPT ![Initiator] = AfterSend(a, mode)]
         /\ party' = [party EXCEPT ![Initiator] = BaselineAfterSend(b)]
         /\ flight' = {[otrpp |-> Outgoing(Initiator, a, mode, Sent = 0),
                        baseline |-> BaselineMessage(b)]}
  /\ UNCHANGED <<mode, open, lost, refused>>

Receive ==
  \E m \in flight :
    LET b == BaselineFollowing(party[Responder], m.baseline.ephemeral)
    IN  /\ session' = [session EXCEPT ![Responder] = OTRPPAfterReceive(m.otrpp)]
        /\ party' = [party EXCEPT ![Responder] = BaselineAfterReceive(b, m.baseline)]
        /\ refused' = (IF OTRPPAccepts(m.otrpp) THEN {} ELSE {"otrpp"})
                        \cup (IF m.baseline.key = BaselineKey(b, m.baseline)
                              THEN {} ELSE {"baseline"})
        /\ open' = TRUE
        /\ flight' = {}
        /\ UNCHANGED <<mode, lost>>

(* The caller does not hand the message on. *)
Lose ==
  /\ flight # {} /\ Cardinality(lost) < MaxLost
  /\ lost' = lost \cup {Sent}
  /\ flight' = {}
  /\ UNCHANGED <<mode, session, open, party, refused>>

Next == Send \/ Receive \/ Lose

Spec == Init /\ [][Next]_vars

-----------------------------------------------------------------------------
(* The two ratchets are the same ratchet: the same keys, key pairs and     *)
(* counters at both ends, whatever is lost, so that their timings differ   *)
(* by what OTR++ adds (the baseline's docstring: "excludes adaptive        *)
(* deniability disclosure logic and signature mode switching").  Bob's end *)
(* of OTR++ counts from the first message on, if that arrives.             *)
Ratchet(s) ==
  [root_key |-> s.root_key, sending_chain_key |-> s.chain_key,
   receiving_chain_key |-> s.receiving_chain_key,
   dh_self |-> s.dh_self, dh_remote |-> s.dh_remote,
   send_counter |-> s.send_counter, recv_counter |-> s.recv_counter]

SameRatchet ==
  /\ party[Initiator] = Ratchet(session[Initiator])
  /\ open /\ 1 \notin lost => party[Responder] = Ratchet(session[Responder])

(* A trial fails only for what was lost: OTR++ when the first message is,  *)
(* which alone carries the handshake, and either protocol when a whole     *)
(* chain is, with the key pair the next root key is derived from.          *)
Chains == IF RotateInterval > 0 THEN Sent \div RotateInterval ELSE 0
ChainLost ==
  \E c \in 1 .. Chains :
    /\ c * RotateInterval < Sent
    /\ (c - 1) * RotateInterval + 1 .. c * RotateInterval \subseteq lost

RefusedForLoss ==
  /\ "baseline" \in refused => ChainLost
  /\ "otrpp" \in refused => ChainLost \/ 1 \in lost
=============================================================================
