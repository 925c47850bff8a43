CONSTANTS
  NUM_BUCKETS = 3
  local_key <- MCLocalKey
  Key <- MCKey
  K_VALUE = 2
  PendingTimeout = 1
  MaxApplied = 1
  None = None
SPECIFICATION Spec
INVARIANT IncreasingDistance
