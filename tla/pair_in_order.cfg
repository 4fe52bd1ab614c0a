SPECIFICATION FairSpec
CONSTANTS
  Initiator = Initiator
  Responder = Responder
  RotateInterval = 2
  RevealInterval = 2
  MaxSend <- Send4and3
  MaxDamaged = 1
  MaxCounter = 0
  MaxRatchets = 6
  Faults = {"no_sig"}
INVARIANT DisclosureSound
INVARIANT BacklogBounded
INVARIANT InStep
INVARIANT DisclosedAfterAccepted
PROPERTY EventuallyAccepted
CHECK_DEADLOCK FALSE
