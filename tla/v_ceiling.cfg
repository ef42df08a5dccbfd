SPECIFICATION Spec
CONSTANTS
  n1 = n1  n2 = n2  r1 = r1  p1 = p1  c1 = c1  c2 = c2  k1 = k1
  None = None
  Actions = {n1, n2}
  Workers = {w1, w2}
  Cases = {c1, c2}
  Customers = {k1}
  CaseOf <- TwoCases
  CustomerOf <- OneCustomer
  KindOf <- MCKinds
  MethodOf <- Upi
  Executors = {"nudge", "retry"}
  Day = 2
  Bands <- NoBands
  ContactOpen = 1
  ContactClose = 2
  ContactWindow = 2
  ContactMax = 1
  Lease = 1
  Batch = 2
  Delays = {0}
  Cancellable = {}
  Scopes = {}
  Payable = {}
  Diversions = {}
  Promises = {}
  MaxTime = 2
  MaxCrashes = 0
INVARIANT ContactCeiling
CHECK_DEADLOCK FALSE
