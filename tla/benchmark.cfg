SPECIFICATION Spec
CONSTANTS
  Initiator = Initiator
  Responder = Responder
  RotateInterval = 3
  RevealInterval = 3
  Messages = 12
  MaxLost = 6
INVARIANT SameRatchet
INVARIANT RefusedForLoss
CHECK_DEADLOCK FALSE
