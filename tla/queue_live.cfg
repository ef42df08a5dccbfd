\* Crash recovery: two passes, one of which dies, over a nudge and an action without executor.
SPECIFICATION LiveSpec
CONSTANTS
  n1 = n1  n2 = n2  r1 = r1  p1 = p1  c1 = c1  c2 = c2  k1 = k1
  None = None
  Actions = {n1, p1}
  Workers = {w1, w2}
  Cases = {c1}
  Customers = {k1}
  CaseOf <- OneCase
  CustomerOf <- OneCustomer
  KindOf <- MCKinds
  MethodOf <- Upi
  Executors = {"nudge", "retry"}
  Day = 3
  Bands <- NoBands
  ContactOpen = 0
  ContactClose = 2
  ContactWindow = 2
  ContactMax = 1
  Lease = 1
  Batch = 1
  Delays = {0}
  Cancellable = {}
  Scopes = {}
  Payable = {}
  Diversions = {"unrecovered"}
  Promises = {}
  MaxTime = 1
  MaxCrashes = 1
PROPERTIES
  DueRowsSettle
CHECK_DEADLOCK FALSE
