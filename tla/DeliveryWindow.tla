--------------------------- MODULE DeliveryWindow ---------------------------
(***************************************************************************)
(* What a session promises its two ends while chains arrive in order and   *)
(* rotations do not cross, without a word about keys.  Each party numbers  *)
(* its messages by chain and by position in the chain.  The receiver holds *)
(* a window: the chain it follows, the next position in it, and the        *)
(* positions it passed without reading.  A message outside the window's    *)
(* past, or skipped by it, is always readable unless it is spoiled on its  *)
(* way; any other was read before, or a spoiled one came in its place.     *)
(***************************************************************************)
EXTENDS Integers

CONSTANTS
  Initiator, Responder,
  Misread    \* the places in its chain that a spoiled message may be taken for

Party == {Initiator, Responder}
Peer(p) == IF p = Initiator THEN Responder ELSE Initiator

Position == [chain : Nat, n : Nat]

VARIABLES
  made,     \* the positions of the messages each party made
  out,      \* where each party makes the next one
  window,   \* what each party knows of its peer's positions: chain, next, skipped
  read,     \* the peer's positions each party has read
  spoiled   \* those its window gave to a message it could not read

vars == <<made, out, window, read, spoiled>>

Init ==
  /\ made = [p \in Party |-> {}]
  /\ out = [p \in Party |-> [chain |-> 0, n |-> 0]]
  /\ window = [p \in Party |-> [chain |-> 0, next |-> 0, skipped |-> {}]]
  /\ read = [p \in Party |-> {}]
  /\ spoiled = [p \in Party |-> {}]

NextChain(position) == [chain |-> position.chain + 1, n |-> 0]

(* A message goes on with the chain or begins the next one ... *)
Make(p) ==
  \E at \in {out[p], NextChain(out[p])} :
    /\ made' = [made EXCEPT ![p] = @ \cup {at}]
    /\ out' = [out EXCEPT ![p] = [at EXCEPT !.n = @ + 1]]
    /\ UNCHANGED <<window, read, spoiled>>

(* ... and a chain may begin with no message yet. *)
BeginChain(p) ==
  /\ out' = [out EXCEPT ![p] = NextChain(@)]
  /\ UNCHANGED <<made, window, read, spoiled>>

Gap(chain, first, last) == {[chain |-> chain, n |-> k] : k \in first .. last}

(* The window moves to a position at or after its own, in its chain or the *)
(* next one ...                                                            *)
Reach(p, at) ==
  /\ \/ at.chain = window[p].chain /\ at.n >= window[p].next
     \/ at.chain = window[p].chain + 1
  /\ LET first == IF at.chain = window[p].chain THEN window[p].next ELSE 0
     IN  window' = [window EXCEPT ![p] =
                      [chain |-> at.chain, next |-> at.n + 1,
                       skipped |-> @.skipped \cup Gap(at.chain, first, at.n - 1)]]
  /\ UNCHANGED <<made, out>>

(* ... and what came is read, or spoiled.                                  *)
ReadNew(p, at) ==
  /\ Reach(p, at)
  /\ read' = [read EXCEPT ![p] = @ \cup {at}]
  /\ UNCHANGED spoiled

SpoilNew(p, at) ==
  /\ Reach(p, at)
  /\ spoiled' = [spoiled EXCEPT ![p] = @ \cup {at}]
  /\ UNCHANGED read

(* Reading what the window skipped in the chain it follows. *)
ReadSkipped(p, at) ==
  /\ at.chain = window[p].chain
  /\ at \in window[p].skipped
  /\ read' = [read EXCEPT ![p] = @ \cup {at}]
  /\ UNCHANGED <<made, out, window, spoiled>>

Next ==
  \E p \in Party :
    \/ Make(p)
    \/ BeginChain(p)
    \/ \E at \in made[Peer(p)] :
         \/ ReadNew(p, at)
         \/ ReadSkipped(p, at)
         \/ \E n \in {at.n} \cup Misread : SpoilNew(p, [at EXCEPT !.n = n])

Spec == Init /\ [][Next]_vars
-----------------------------------------------------------------------------
(* Every position of the chain the window follows, made or not, is ahead   *)
(* of it, skipped by it, read or spoiled: the window loses no message it   *)
(* could have read.                                                        *)
NothingLost ==
  \A p \in Party :
    Gap(window[p].chain, 0, window[p].next - 1)
      \subseteq window[p].skipped \cup read[p] \cup spoiled[p]
=============================================================================
