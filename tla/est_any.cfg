SPECIFICATION Spec
CONSTANTS
  None = None
  alice = alice
  bob = bob
  carol = carol
  Client = {alice, bob, carol}
  Contacts <- OneReceiver
  Publishers = {bob}
  Faults = {"race", "unmarked", "republish", "again"}
  InitialOneTime = 1
  MaxOneTime = 1
  MaxSigned <- Zero
  MaxEphemeral <- TwoOfAlice
  MaxRestarts <- Zero
  MaxUploads = 1
INVARIANT OneTimeKeyOnce
CHECK_DEADLOCK FALSE
