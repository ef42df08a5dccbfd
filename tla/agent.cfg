\* Two cases of one customer, an outage in doubt and an empty account, beside one
\* case for each other way a case can go, with the trail that the reports read.
SPECIFICATION ReportSpec
CONSTANTS
  c1 = c1  c2 = c2  c3 = c3  c4 = c4  c5 = c5  c6 = c6  c7 = c7  c8 = c8  k1 = k1  k2 = k2
  None = None
  Cost <- MCCost
  Success <- MCSuccess
  Cases = {c1, c2, c3, c4, c5, c6, c7, c8}
  Customers = {k1, k2}
  CustomerOf <- MCCustomer
  SignalOf <- MCSignal
  Table <- MCTable
  Causes <- MRCauses
  MerchantSources = {"business"}
  UnsettledReasons <- MCUnsettled
  ActsFrom = 70
  AmountOf <- MRAmount
  MandateMaxOf <- MCMandateMax
  FrictionlessUpi = 15000
  UpiMandateMax = 100000
  CardRecurringMax = 15000
  EmandateMax = 10000000
  Protective = 50
  ActsOnMoney = 70
  Cancellation = 85
  Attempts <- MCAttempts
  Executors = {"nudge", "retry"}
  RetryCap = 1
  Codes = {"REVOKED", "RETRY_CAP"}
  Replies <- AllReplies
  MaxInputs = 5
  AutoFrom = 90
  Day = 3
  ContactOpen = 0
  ContactClose = 3
  ContactWindow = 2
  ContactMax = 1
  Bands <- NoonBand
INVARIANTS
  TypeOK
  VerifiedBeforeDebit
  OpenCasesAreWorked
  ConsentBoundsDebits
  MerchantFaultsStayInHouse
  IgnoranceBuysNothing
  OneOfEachUntilCleared
  DebitsAreOnTheReport
  ContactsAreOnTheReport
  FutileNeedsAPerson
  CeilingHolds
  RecoveriesAreEarned
PROPERTIES
  CancellationReachesAPerson
  StopIsHonoured
  OnlyTheirWordsCount
  SilenceReachesAPerson
  FollowsLifecycle
CHECK_DEADLOCK FALSE
