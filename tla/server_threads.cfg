SPECIFICATION FairSpec
CONSTANTS
  None = None
  alice = alice
  bob = bob
  Thread = {t1, t2}
  User = {alice, bob}
  OneTime = {1, 2}
  Bundles <- Uploads
INVARIANT TypeOK
INVARIANT BundleWhole
INVARIANT OfferedKnown
PROPERTY LockReleased
PROPERTY ImplementsStore
