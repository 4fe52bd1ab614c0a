---------------------------- MODULE MCSessionPair ----------------------------
(* SessionPair on small instances: the cfg files choose bounds and faults. *)
EXTENDS SessionPairInv

Sends(initiator, responder) ==
  [p \in Party |-> IF p = Initiator THEN initiator ELSE responder]

Send3and1 == Sends(3, 1)
Send3and3 == Sends(3, 3)
Send4and3 == Sends(4, 3)
=============================================================================
