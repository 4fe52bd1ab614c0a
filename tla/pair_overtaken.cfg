SPECIFICATION Spec
CONSTANTS
  Initiator = Initiator
  Responder = Responder
  RotateInterval = 2
  RevealInterval = 1
  MaxSend <- Send3and3
  MaxDamaged = 1
  MaxCounter = 0
  MaxRatchets = 6
  Faults = {"overtaken", "reorder"}
INVARIANT FirstDeliveryAccepted
CHECK_DEADLOCK FALSE
