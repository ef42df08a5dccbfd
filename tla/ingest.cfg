\* Two processes, one of which may die, a pass of the runner, three deliveries of three
\* events, and one write of a reply or a reviewer to the case that can be paid.
SPECIFICATION Spec
CONSTANTS
  p1 = p1  p2 = p2  p3 = p3  w1 = w1  w2 = w2  s1 = s1
  failed1 = failed1  paid1 = paid1  dollars2 = dollars2
  None = None
  Payments = {p1, p2, p3}
  Events = {failed1, paid1, dollars2}
  PaymentOf <- MCPaymentOf
  PayloadOf <- MCPayloadOf
  PaidEvents = {paid1}
  Passes = {s1}
  MaxWrites = 1
  WrittenTo = {p1}
  WrittenStates = {"open"}
  Workers = {w1, w2}
  PlanOf <- MCPlanOf
  Undecided = {p3}
  MaxDeliveries = 3
  MaxCrashes = 1
SYMMETRY Symmetry
INVARIANTS
  TypeOK
  OneCasePerPayment
  AnsweredIsOnFile
  WorkedOnce
  OnFileIsWorked
  PaidIsClosed
CHECK_DEADLOCK FALSE
