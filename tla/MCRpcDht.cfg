CONSTANTS
  Key = {k1, k2}
  Addr = {a1}
  QueryId = {q1, q2}
  K_VALUE = 1
  PendingTimeout = 0
  BootstrapBelow = 1
  None = None
SPECIFICATION FairSpec
INVARIANTS TypeOK NothingPending SleepsWhenDone SomethingWakes
PROPERTIES ImplementsRpcEvents MessagesAreRead PingsAgain
