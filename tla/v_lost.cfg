SPECIFICATION Spec
CONSTANTS
  p1 = p1  p2 = p2  p3 = p3  w1 = w1  w2 = w2  s1 = s1
  failed1 = failed1  paid1 = paid1  dollars2 = dollars2
  None = None
  Payments = {p1}
  Events = {failed1}
  PaymentOf <- MCPaymentOf
  PayloadOf <- MCPayloadOf
  PaidEvents = {}
  Passes = {}
  MaxWrites = 0
  WrittenTo = {}
  WrittenStates = {}
  Workers = {w1}
  PlanOf <- MCPlanOf
  Undecided = {}
  MaxDeliveries = 2
  MaxCrashes = 1
INVARIANT AnsweredIsWorked
CHECK_DEADLOCK FALSE
