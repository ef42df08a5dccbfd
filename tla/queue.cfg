\* Two overlapping passes, one of which may die, over a retry and a nudge of one case that
\* the agent cancels, the runner holds and a reviewer reopens.
SPECIFICATION Spec
CONSTANTS
  n1 = n1  n2 = n2  r1 = r1  p1 = p1  c1 = c1  c2 = c2  k1 = k1
  None = None
  Actions = {n1, r1}
  Workers = {w1, w2}
  Cases = {c1}
  Customers = {k1}
  CaseOf <- OneCase
  CustomerOf <- OneCustomer
  KindOf <- MCKinds
  MethodOf <- Upi
  Executors = {"nudge", "retry"}
  Day = 3
  Bands <- NoonBand
  ContactOpen = 1
  ContactClose = 3
  ContactWindow = 2
  ContactMax = 1
  Lease = 1
  Batch = 1
  Delays = {0}
  Cancellable = {c1}
  Scopes = {}
  Payable = {}
  Diversions = {}
  Promises = {}
  MaxTime = 1
  MaxCrashes = 1
SYMMETRY WorkerSymmetry
INVARIANTS
  TypeOK
  LeasesExpire
  AttemptsAreSpentOnce
  RetryCountIsBacked
  SentIsOnRecord
  AttemptedIsRouted
  RetriesLandOutsideBands
PROPERTIES
  CancellationSticks
  ImplementsLedger
CHECK_DEADLOCK FALSE
