SPECIFICATION Spec
CONSTANTS
  None = None
  alice = alice
  bob = bob
  carol = carol
  Client = {alice, bob}
  Contacts <- BothWays
  Publishers = {bob, alice}
  Faults = {"race", "unmarked", "republish", "outdated", "overtaken", "crossed", "raises", "no_sig", "restart"}
  InitialOneTime = 1
  MaxOneTime = 1
  MaxSigned <- OneOfBob
  MaxEphemeral <- One
  MaxRestarts <- OneOfBob
  MaxUploads = 1
INVARIANT SessionAgreement
CHECK_DEADLOCK FALSE
