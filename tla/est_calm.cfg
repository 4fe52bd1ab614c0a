SPECIFICATION FairSpec
CONSTANTS
  None = None
  alice = alice
  bob = bob
  carol = carol
  Client = {alice, bob, carol}
  Contacts <- OneReceiver
  Publishers = {bob}
  Faults = {"no_sig"}
  InitialOneTime = 1
  MaxOneTime = 2
  MaxSigned <- OneOfBob
  MaxEphemeral <- One
  MaxRestarts <- Zero
  MaxUploads = 1
INVARIANT TypeOK
INVARIANT NeverRefused
PROPERTY SessionOpens
CHECK_DEADLOCK FALSE
