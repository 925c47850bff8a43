CONSTANTS
  Value = {v1, v2}
  Salt = {s1}
  MaxSeq = 1
  Capacity = 2
  QueryId = {q1, q2}
  LocalAddr = {FALSE, TRUE}
  LanBytes = {0, 4, 8}
  MaxEvents = 1
  None = None
SPECIFICATION Spec
INVARIANT LanPeersDelivered
