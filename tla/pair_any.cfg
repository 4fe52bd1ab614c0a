SPECIFICATION Spec
CONSTANTS
  Initiator = Initiator
  Responder = Responder
  RotateInterval = 2
  RevealInterval = 1
  MaxSend <- Send3and1
  MaxDamaged = 1
  MaxCounter = 1
  MaxRatchets = 4
  Faults = {"reorder", "stale", "skip", "crossing", "damage", "counter", "keypair", "overtaken", "raises", "no_opk"}
INVARIANT TypeOK
INVARIANT UniqueMessageKeys
INVARIANT DirectOnce
INVARIANT CacheAccounted
CHECK_DEADLOCK FALSE
