----------------------------- MODULE Deniability -----------------------------
(***************************************************************************)
(* The deniability engine, protocol/deniability.py: the MAC keys of past   *)
(* deniable messages wait in a queue until they are old enough to be       *)
(* disclosed.  The queue is a set of entries: indices are distinct, and    *)
(* nothing depends on the order in which one message lists the keys.       *)
(***************************************************************************)
EXTENDS Integers

CONSTANT RevealInterval   \* DeniabilityState.reveal_interval, unchecked by the code

ASSUME RevealIntervalAssumption == RevealInterval \in Int

DENIABLE == 0
VERIFIABLE == 1
Mode == {DENIABLE, VERIFIABLE}

(* Mutants: a key waits one message too long; disclosed keys stay queued. *)
RevealableLate(pending, now) == {e \in pending : now - e.index > RevealInterval}
KeptAll(pending, now) == pending

(* collect_revealable_mac_keys: what is disclosed, and what is kept. *)
Revealable(pending, now) == {e \in pending : now - e.index >= RevealInterval}
Kept(pending, now) == pending \ Revealable(pending, now)

(* queue_mac_key. *)
Queue(pending, index, mac_key) == pending \cup {[index |-> index, key |-> mac_key]}
=============================================================================
