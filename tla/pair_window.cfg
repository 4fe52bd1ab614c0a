SPECIFICATION Spec
CONSTANTS
  Initiator = Initiator
  Responder = Responder
  RotateInterval = 2
  RevealInterval = 1
  MaxSend <- Send3and1
  MaxDamaged = 1
  MaxCounter = 2
  MaxRatchets = 5
  Faults = {"reorder", "damage", "counter", "raises"}
INVARIANT FirstDeliveryAccepted
INVARIANT InStep
INVARIANT CacheSound
INVARIANT NothingLost
PROPERTY ImplementsWindow
CHECK_DEADLOCK FALSE
