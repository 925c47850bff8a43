CONSTANTS
  Value = {v1, v2}
  Salt = {s1}
  MaxSeq = 1
  Capacity = 2
  QueryId = {q1, q2}
  LocalAddr = {TRUE}
  LanBytes = {0, 5}
  MaxEvents = 1
  None = None
SPECIFICATION FairSpec
INVARIANTS TypeOK Tracked
PROPERTIES StoresVerified UpdatesNeverGoBack OneResult ResultArrives
CHECK_DEADLOCK FALSE
