SPECIFICATION Spec
CONSTANTS
  c1 = c1  c2 = c2  c3 = c3  c4 = c4  c5 = c5  c6 = c6  c7 = c7  c8 = c8  k1 = k1  k2 = k2
  None = None
  Cost <- MCCost
  Success <- MCSuccess
  Cases = {c2}
  Customers = {k1}
  CustomerOf <- MCCustomer
  SignalOf <- MCSignal
  Table <- MCTable
  Causes <- MCCauses
  MerchantSources = {"business"}
  UnsettledReasons <- MCUnsettled
  ActsFrom = 70
  AmountOf <- MCAmount
  MandateMaxOf <- MCMandateMax
  FrictionlessUpi = 15000
  UpiMandateMax = 100000
  CardRecurringMax = 15000
  EmandateMax = 10000000
  Protective = 50
  ActsOnMoney = 70
  Cancellation = 85
  Attempts <- MCAttempts
  Executors = {"nudge", "retry"}
  RetryCap = 3
  Codes = {}
  Replies <- Promises
  MaxInputs = 8
INVARIANT RetryCapHolds
CHECK_DEADLOCK FALSE
