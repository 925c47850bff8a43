CONSTANTS
  Key = {k1, k2, k3, k4}
  K_VALUE = 3
  PendingTimeout = 2
  None = None
SPECIFICATION FairSpec
INVARIANTS TypeOK WellFormed UniqueEntries StatusFaithful
PROPERTIES EvictsDisconnected ImplementsLru PendingResolves
