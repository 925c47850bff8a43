CONSTANTS
  Addr = {a1, a2}
  RequestIds = 3
  RemoteId = 0
  MaxRequests = 2
  MaxQueue = 1
  MaxInbox = 1
  None = None
SPECIFICATION Spec
INVARIANTS FlushMatchesSocket Accounted
PROPERTIES TokenStaysValid
SYMMETRY Symmetry
