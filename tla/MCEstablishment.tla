--------------------------- MODULE MCEstablishment ---------------------------
(* Establishment on small instances: the cfg files choose bounds and faults. *)
EXTENDS Establishment

CONSTANTS alice, bob, carol

OneReceiver == {<<alice, bob>>, <<carol, bob>>}
BothWays == {<<alice, bob>>, <<bob, alice>>}

(* Bounds: none, one for each client or for bob alone, two for alice. *)
Zero == [u \in Client |-> 0]
One == [u \in Client |-> 1]
OneOfBob == [u \in Client |-> IF u = bob THEN 1 ELSE 0]
TwoOfAlice == [u \in Client |-> IF u = alice THEN 2 ELSE 1]
=============================================================================
