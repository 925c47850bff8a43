CONSTANTS
  Addr = {a1, a2}
  RequestIds = 2
  RemoteId = 0
  MaxRequests = 2
  MaxQueue = 1
  MaxInbox = 1
  None = None
SPECIFICATION Spec
PROPERTY RotatesAtInterval
SYMMETRY Symmetry
