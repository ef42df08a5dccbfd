-------------------------- MODULE WebhookIngestProofs --------------------------
(***************************************************************************)
(* The safety of the webhook endpoint for any number of processes,         *)
(* payments, deliveries and crashes.                                       *)
(***************************************************************************)
EXTENDS WebhookIngest, TLAPS

(* the tuples of variables that frames are written with *)
USE DEF tables, bounded, deeds, marks, vars, Aside, Untouched, NoHandler

(* steps at which the payment in hand has a case *)
AfterInsert == {"mark", "read", "diagnose", "schedule", "hold", "cancel", "close"}

(* What a process has in its hands fits the step it is at. *)
TaskFits(w) ==
  /\ task[w].payment = None <=> task[w].step = "idle"
  /\ task[w].step = "idle" => task[w].event = None
  /\ task[w].event \in Events => task[w].payment = PaymentOf[task[w].event]
  /\ task[w].step \in {"seen", "mark", "cancel", "close"} => task[w].event \in Events
  /\ task[w].event \in PaidEvents =>
       /\ task[w].payment \in sent
       /\ task[w].step \in {"seen", "mark", "cancel", "close"}
  /\ task[w].step \notin {"idle", "schedule"} => task[w].next = 1
  /\ task[w].step = "schedule" => task[w].next \in 1 .. Len(PlanOf[task[w].payment])
  /\ task[w].step \in AfterInsert => caseRows[task[w].payment] > 0

TasksFit == \A w \in Workers : TaskFits(w)

(* Nothing is scheduled, leased, sent or marked for a payment that is not on file. *)
TablesFit ==
  /\ \A p \in Payments : rows[p] # {} \/ p \in sent => caseRows[p] > 0
  /\ \A s \in Passes : hand[s].step # "free" => caseRows[hand[s].payment] > 0
  /\ \A e \in processed : caseRows[PaymentOf[e]] > 0

(* A payment is in two hands only once it is known to have been. *)
OneHand ==
  \A p \in Payments \ overlapped : \A v, w \in Workers :
    task[v].payment = p /\ task[w].payment = p => v = w

(* In one hand, a plan is followed row by row, once, behind the diagnosis, and a case
   that is diagnosed is put before a person once. *)
PlanFits(p) ==
  /\ diagnoses[p] = 0 => armed[p] = 0 /\ (p \in presented => p \in Undecided)
  /\ armed[p] <= Len(PlanOf[p])
  /\ \A w \in Workers : task[w].payment = p =>
       /\ task[w].step = "diagnose" => diagnoses[p] = 0
       /\ task[w].step = "schedule" =>
            diagnoses[p] > 0 /\ armed[p] = task[w].next - 1 /\ task[w].next <= Len(PlanOf[p])
       /\ task[w].step = "hold" => p \in Undecided \/ (diagnoses[p] > 0 /\ p \notin presented)

PlanFollowed == \A p \in Payments \ overlapped : PlanFits(p)

IngestInv ==
  TypeOK /\ TasksFit /\ TablesFit /\ OneCasePerPayment /\ AnsweredIsOnFile /\ OneHand
  /\ PlanFollowed

-----------------------------------------------------------------------------
(* Two shapes of what a step does to the tasks: one goes on, or one is over. *)
TaskRecords == [event : Events \cup {None}, payment : Payments \cup {None},
                step : Steps, next : Nat]

Others(w) == \A v \in Workers : v # w => task'[v] = task[v]

Moved(w, step) ==
  /\ Others(w)
  /\ task'[w].event = task[w].event /\ task'[w].payment = task[w].payment
  /\ task'[w].next = task[w].next /\ task'[w].step = step

Freed(w) == Others(w) /\ task'[w] = Idle

LEMMA IdleFacts ==
  /\ Idle \in TaskRecords
  /\ Idle.event = None /\ Idle.payment = None /\ Idle.step = "idle" /\ Idle.next = 0
  BY DEF Idle, TaskRecords, Steps

LEMMA GoingOn ==
  ASSUME TypeOK, NEW w \in Workers, NEW step \in Steps, GoTo(w, step)
  PROVE  task' \in [Workers -> TaskRecords] /\ Moved(w, step) /\ answered' = answered
<1>1. task \in [Workers -> TaskRecords]
  BY DEF TypeOK, TaskRecords
<1>2. task' = [task EXCEPT ![w].step = step] /\ answered' = answered
  BY DEF GoTo
<1>3. task'[w] = [task[w] EXCEPT !.step = step]
  BY <1>1, <1>2
<1>4. Others(w)
  BY <1>1, <1>2 DEF Others
<1>5. task[w] \in TaskRecords
  BY <1>1
<1>6. task'[w] \in TaskRecords /\ Moved(w, step)
  BY <1>3, <1>4, <1>5 DEF TaskRecords, Moved
<1> QED
  BY <1>1, <1>2, <1>6

LEMMA Freeing ==
  ASSUME TypeOK, NEW w \in Workers, task' = [task EXCEPT ![w] = Idle]
  PROVE  task' \in [Workers -> TaskRecords] /\ Freed(w)
<1>1. task \in [Workers -> TaskRecords]
  BY DEF TypeOK, TaskRecords
<1> QED
  BY <1>1, IdleFacts DEF Freed, Others

LEMMA Answering ==
  ASSUME TypeOK, NEW w \in Workers, Answer(w)
  PROVE  /\ task' \in [Workers -> TaskRecords] /\ Freed(w)
         /\ answered' = answered \cup ({task[w].event} \ {None})
         /\ answered' \subseteq Events
<1>1. task[w].event \in Events \cup {None} /\ answered \subseteq Events
  BY DEF TypeOK
<1> QED
  BY <1>1, Freeing DEF Answer

LEMMA Taking ==
  ASSUME TypeOK, NEW w \in Workers, NEW e \in Events \cup {None}, NEW p \in Payments,
         NEW step \in Steps, Take(w, e, p, step)
  PROVE  /\ task' \in [Workers -> TaskRecords] /\ Others(w)
         /\ task'[w].event = e /\ task'[w].payment = p
         /\ task'[w].step = step /\ task'[w].next = 1
<1>1. task \in [Workers -> TaskRecords]
  BY DEF TypeOK, TaskRecords
<1>2. task' = [task EXCEPT ![w] = [event |-> e, payment |-> p, step |-> step, next |-> 1]]
  BY DEF Take
<1> QED
  BY <1>1, <1>2 DEF Others, TaskRecords

(* Where the event in hand leads once its id was looked up. *)
LEMMA Looking ==
  ASSUME TypeOK, NEW w \in Workers, AfterSeen(w)
  PROVE  /\ task' \in [Workers -> TaskRecords] /\ answered' \subseteq Events
         /\ \/ /\ task[w].event \in processed /\ Freed(w)
               /\ answered' = answered \cup ({task[w].event} \ {None})
            \/ Freed(w) /\ answered' = answered
            \/ task[w].event \in PaidEvents /\ Moved(w, "mark") /\ answered' = answered
            \/ task[w].event \notin PaidEvents /\ Moved(w, "open") /\ answered' = answered
<1>0. answered \subseteq Events
  BY DEF TypeOK
<1>1. CASE task[w].event \in processed
  BY <1>1, Answering DEF AfterSeen
<1>2. CASE task[w].event \notin processed /\ task[w].event \in PaidEvents
  <2>1. "mark" \in Steps /\ GoTo(w, "mark")
    BY <1>2 DEF AfterSeen, Steps
  <2> QED
    BY <1>0, <1>2, <2>1, GoingOn
<1>3. CASE /\ task[w].event \notin processed /\ task[w].event \notin PaidEvents
           /\ Unsupported(task[w].event)
  BY <1>0, <1>3, Freeing DEF AfterSeen, Reject
<1>4. CASE /\ task[w].event \notin processed /\ task[w].event \notin PaidEvents
           /\ ~Unsupported(task[w].event)
  <2>1. "open" \in Steps /\ GoTo(w, "open")
    BY <1>4 DEF AfterSeen, Steps
  <2> QED
    BY <1>0, <1>4, <2>1, GoingOn
<1> QED
  BY <1>1, <1>2, <1>3, <1>4

LEMMA NextRow ==
  ASSUME TypeOK, NEW w \in Workers, task' = [task EXCEPT ![w].next = @ + 1]
  PROVE  /\ task' \in [Workers -> TaskRecords] /\ Others(w)
         /\ task'[w].event = task[w].event /\ task'[w].payment = task[w].payment
         /\ task'[w].step = task[w].step /\ task'[w].next = task[w].next + 1
<1>1. task \in [Workers -> TaskRecords]
  BY DEF TypeOK, TaskRecords
<1>2. task'[w] = [task[w] EXCEPT !.next = task[w].next + 1]
  BY <1>1
<1>3. Others(w) /\ DOMAIN task' = Workers
  BY <1>1 DEF Others
<1>4. task[w] \in TaskRecords
  BY <1>1
<1>5. /\ task'[w] \in TaskRecords
      /\ task'[w].event = task[w].event /\ task'[w].payment = task[w].payment
      /\ task'[w].step = task[w].step /\ task'[w].next = task[w].next + 1
  BY <1>2, <1>4 DEF TaskRecords
<1> QED
  BY <1>1, <1>3, <1>5

-----------------------------------------------------------------------------
LEMMA TypeInit == Init => TypeOK
  BY IngestAssumption, IdleFacts
  DEF Init, TypeOK, IngestAssumption, TaskRecords, Steps, States

LEMMA CountedUp ==
  ASSUME NEW f \in [Payments -> Nat], NEW p \in Payments
  PROVE  /\ [f EXCEPT ![p] = @ + 1] \in [Payments -> Nat]
         /\ [f EXCEPT ![p] = @ + 1][p] = f[p] + 1
         /\ \A q \in Payments : q # p => [f EXCEPT ![p] = @ + 1][q] = f[q]
<1>1. f[p] \in Nat /\ f[p] + 1 \in Nat
  OBVIOUS
<1> QED
  BY <1>1

(* What the runner and the writers outside the handlers leave alone. *)
LEMMA Elsewhere ==
  ASSUME TypeOK, (\E s \in Passes : Pass(s)) \/ (\E p \in WrittenTo : WriteElsewhere(p))
  PROVE  /\ UNCHANGED <<caseRows, diagnoses, processed, task, deliveries, crashes,
                        answered, armed, presented, overlapped, dropped>>
         /\ sent \subseteq sent'
<1>1. ASSUME NEW s \in Passes, Pass(s)
      PROVE  UNCHANGED NoHandler /\ sent \subseteq sent'
  BY <1>1 DEF Pass, Lease, ReadAgain, Refuse, Send, Return, Finish, HoldRetried, PassDies
<1>2. ASSUME NEW p \in WrittenTo, WriteElsewhere(p)
      PROVE  /\ UNCHANGED <<caseRows, diagnoses, processed, task, deliveries, crashes,
                            answered, armed, presented, overlapped, dropped>>
             /\ sent' = sent
  BY <1>2 DEF WriteElsewhere, ArmRow, CancelElsewhere, SetState, Write
<1> QED  BY <1>1, <1>2

HandRecords == [payment : Payments, row : Rows, step : {"taken", "running", "told", "hold"}]

(* A pass's hand is empty, or it has a row of a payment. *)
LEMMA HandFacts ==
  ASSUME TypeOK, NEW s \in Passes
  PROVE  /\ hand[s] \in HandRecords \cup {Free}
         /\ Free.step = "free" /\ Free.payment = None
         /\ hand[s].step # "free" => hand[s] \in HandRecords
         /\ hand[s].step = "free" => hand[s].payment = None
  BY DEF TypeOK, HandRecords, Free

OtherHands(s) == \A t \in Passes : t # s => hand'[t] = hand[t]

LEMMA HandMoves ==
  ASSUME TypeOK, NEW s \in Passes, hand[s].step # "free",
         NEW step \in {"running", "told", "hold"}, Step(s, step)
  PROVE  /\ hand' \in [Passes -> HandRecords \cup {Free}] /\ OtherHands(s)
         /\ hand'[s].payment = hand[s].payment /\ hand'[s].step = step
<1>1. hand[s] \in HandRecords /\ hand \in [Passes -> HandRecords \cup {Free}]
  BY HandFacts DEF TypeOK, HandRecords
<1>2. hand'[s] = [hand[s] EXCEPT !.step = step] /\ OtherHands(s)
  BY <1>1 DEF Step, OtherHands
<1>3. /\ hand'[s] \in HandRecords /\ hand'[s].payment = hand[s].payment
      /\ hand'[s].step = step
  BY <1>1, <1>2 DEF HandRecords
<1> QED  BY <1>1, <1>2, <1>3 DEF Step

LEMMA HandEmptied ==
  ASSUME TypeOK, NEW s \in Passes, LetGo(s)
  PROVE  /\ hand' \in [Passes -> HandRecords \cup {Free}] /\ OtherHands(s)
         /\ hand'[s] = Free
<1>1. hand \in [Passes -> HandRecords \cup {Free}]
  BY DEF TypeOK, HandRecords
<1> QED  BY <1>1 DEF LetGo, OtherHands

(* What a step of a pass does with its row. *)
RowIn(s) == hand[s].step # "free" /\ hand[s].payment \in Payments /\ hand[s].row \in Rows
LeaseDoes(s) ==
  /\ hand[s].step = "free" /\ UNCHANGED <<finished, caseState, rows, sent>>
  /\ hand'[s].payment \in Payments /\ hand'[s].step = "taken"
  /\ rows[hand'[s].payment] # {}
LeaveDoes(s) ==
  /\ hand[s].step # "free" /\ hand'[s] = Free
  /\ UNCHANGED <<finished, caseState, rows, sent>>
ReadDoesAgain(s) ==
  /\ hand[s].row \in rows[hand[s].payment] \cup finished[hand[s].payment]
  /\ hand'[s].payment = hand[s].payment /\ UNCHANGED <<finished, caseState, rows, sent>>
SendDoes(s) ==
  /\ hand[s].step = "running" /\ hand'[s].step = "told"
  /\ hand'[s].payment = hand[s].payment
  /\ sent' = sent \cup {hand[s].payment} /\ UNCHANGED <<finished, caseState, rows>>
ReturnDoes(s) ==
  /\ hand[s].step = "running" /\ hand'[s] = Free
  /\ rows' = [rows EXCEPT ![hand[s].payment] = @ \cup {hand[s].row}]
  /\ Unspent(s) /\ UNCHANGED <<caseState, sent>>
RefuseDoes(s) ==
  /\ hand[s].step = "running" /\ hand'[s] = Free
  /\ rows' = [rows EXCEPT ![hand[s].payment] = @ \ {hand[s].row}]
  /\ Unspent(s) /\ UNCHANGED <<caseState, sent>>
FinishDoes(s) ==
  /\ hand[s].step \in {"running", "told"} /\ Spend(s)
  /\ \/ hand'[s] = Free
     \/ hand[s].step = "running" /\ hand'[s].payment = hand[s].payment
  /\ UNCHANGED <<caseState, sent>>
HeldDoes(s) ==
  /\ hand[s].step = "hold" /\ hand'[s] = Free
  /\ caseState' = [caseState EXCEPT ![hand[s].payment] = "held-for-human"]
  /\ UNCHANGED <<finished, rows, sent>>

LEMMA Passing ==
  ASSUME TypeOK, NEW s \in Passes, Pass(s)
  PROVE  /\ hand' \in [Passes -> HandRecords \cup {Free}] /\ OtherHands(s)
         /\ \/ LeaseDoes(s)
            \/ LeaveDoes(s)
            \/ RowIn(s) /\ (\/ ReadDoesAgain(s) \/ SendDoes(s) \/ ReturnDoes(s)
                            \/ RefuseDoes(s) \/ FinishDoes(s) \/ HeldDoes(s))
<1> DEFINE Typed == hand' \in [Passes -> HandRecords \cup {Free}] /\ OtherHands(s)
<1>0. TypeOK
  OBVIOUS
<1>1. CASE \E p \in Payments : \E row \in rows[p] : Lease(s, p, row)
  <2> PICK p \in Payments : \E row \in rows[p] : Lease(s, p, row)
    BY <1>1
  <2> PICK row \in rows[p] : Lease(s, p, row)
    OBVIOUS
  <2> DEFINE taken == [payment |-> p, row |-> row, step |-> "taken"]
  <2>1. /\ hand \in [Passes -> HandRecords \cup {Free}] /\ row \in Rows
        /\ hand' = [hand EXCEPT ![s] = taken]
        /\ hand[s].step = "free" /\ UNCHANGED <<finished, caseState, rows, sent>>
    BY DEF TypeOK, Lease, HandRecords
  <2>2. taken \in HandRecords /\ taken.payment = p /\ taken.step = "taken"
    BY <2>1 DEF HandRecords
  <2> HIDE DEF taken
  <2>3. Typed /\ hand'[s] = taken
    BY <2>1, <2>2 DEF OtherHands
  <2>4. rows[p] # {}
    OBVIOUS
  <2> QED  BY <2>1, <2>2, <2>3, <2>4 DEF LeaseDoes
<1>2. ASSUME hand[s].step # "free"
      PROVE  RowIn(s)
  <2>1. hand[s] \in HandRecords
    BY <1>0, <1>2, HandFacts
  <2> QED  BY <1>2, <2>1 DEF RowIn, HandRecords
<1>3. CASE ReadAgain(s)
  <2>1. CASE StillOpen(s)
    <3>1. /\ hand[s].step # "free" /\ Step(s, "running")
          /\ UNCHANGED <<finished, caseState, rows, sent>>
      BY <1>3, <2>1 DEF ReadAgain
    <3>2. Typed /\ hand'[s].payment = hand[s].payment
      BY <1>0, <3>1, HandMoves
    <3> QED  BY <1>2, <2>1, <3>1, <3>2 DEF ReadDoesAgain, StillOpen
  <2>2. CASE ~StillOpen(s)
    BY <1>0, <1>3, <2>2, HandEmptied DEF ReadAgain, LeaveDoes
  <2> QED  BY <2>1, <2>2
<1>4. CASE Send(s)
  <2>1. /\ hand[s].step = "running" /\ Step(s, "told")
        /\ sent' = sent \cup {hand[s].payment} /\ UNCHANGED <<finished, caseState, rows>>
    BY <1>4 DEF Send
  <2>2. Typed /\ hand'[s].payment = hand[s].payment /\ hand'[s].step = "told"
    BY <1>0, <2>1, HandMoves
  <2> QED  BY <1>2, <2>1, <2>2 DEF SendDoes
<1>5. CASE Return(s)
  BY <1>0, <1>2, <1>5, HandEmptied DEF Return, ReturnDoes
<1>6. CASE Finish(s)
  <2>1. /\ hand[s].step \in {"running", "told"} /\ UNCHANGED <<caseState, sent>>
        /\ Spend(s)
        /\ LetGo(s) \/ (hand[s].step = "running" /\ Step(s, "hold"))
    BY <1>6 DEF Finish
  <2>2. CASE LetGo(s)
    BY <1>0, <1>2, <2>1, <2>2, HandEmptied DEF FinishDoes
  <2>3. CASE hand[s].step = "running" /\ Step(s, "hold")
    <3>1. Typed /\ hand'[s].payment = hand[s].payment
      BY <1>0, <2>3, HandMoves
    <3> QED  BY <1>2, <2>1, <2>3, <3>1 DEF FinishDoes
  <2> QED  BY <2>1, <2>2, <2>3
<1>7. CASE HoldRetried(s)
  BY <1>0, <1>2, <1>7, HandEmptied DEF HoldRetried, HeldDoes
<1>8. CASE PassDies(s)
  BY <1>0, <1>8, HandEmptied DEF PassDies, LeaveDoes
<1>9. CASE Refuse(s)
  BY <1>0, <1>2, <1>9, HandEmptied DEF Refuse, RefuseDoes
<1> QED
  BY <1>1, <1>3, <1>4, <1>5, <1>6, <1>7, <1>8, <1>9 DEF Pass

LEMMA TypeStep ==
  ASSUME TypeOK, TasksFit, [Next]_vars
  PROVE  TypeOK'
<1> USE DEF TaskRecords
<1>0. TypeOK
  OBVIOUS
<1>1. ASSUME NEW w \in Workers, NEW e \in Events, Deliver(w, e)
      PROVE  TypeOK'
  <2>1. Take(w, e, PaymentOf[e], "seen") /\ PaymentOf[e] \in Payments /\ "seen" \in Steps
    BY <1>1, IngestAssumption DEF Deliver, IngestAssumption, Steps
  <2>2. task' \in [Workers -> TaskRecords]
    BY <1>0, <2>1, Taking
  <2>3. deliveries' \in 0 .. MaxDeliveries /\ overlapped' \subseteq Payments
    BY <1>0, <2>1, IngestAssumption DEF TypeOK, Take, IngestAssumption
  <2> QED
    BY <1>0, <2>1, <2>2, <2>3 DEF TypeOK, Take, tables
<1>2. ASSUME NEW w \in Workers, NEW p \in Payments, HandIn(w, p)
      PROVE  TypeOK'
  <2>1. Take(w, None, p, "open") /\ "open" \in Steps
    BY <1>2 DEF HandIn, Steps
  <2>2. task' \in [Workers -> TaskRecords]
    BY <1>0, <2>1, Taking
  <2>3. deliveries' \in 0 .. MaxDeliveries /\ overlapped' \subseteq Payments
    BY <1>0, <2>1, IngestAssumption DEF TypeOK, Take, IngestAssumption
  <2> QED
    BY <1>0, <2>1, <2>2, <2>3 DEF TypeOK, Take, tables
<1>3. ASSUME NEW w \in Workers, Handler(w)
      PROVE  TypeOK'
  <2>0. task[w].step # "idle" => task[w].payment \in Payments
    BY <1>0 DEF TypeOK, TasksFit, TaskFits
  <2>1. CASE Seen(w)
    <3>1. AfterSeen(w)
      BY <2>1 DEF Seen
    <3> QED
      BY <1>0, <2>1, <3>1, Looking DEF Seen, TypeOK, tables
  <2>2. CASE LookUp(w)
    <3>1. \E step \in Steps : GoTo(w, step)
      BY <2>2 DEF LookUp, AfterOpen, Steps
    <3> QED
      BY <1>0, <2>2, <3>1, GoingOn DEF LookUp, TypeOK, tables
  <2>3. CASE Insert(w)
    <3>1. \E step \in Steps : GoTo(w, step)
      BY <2>3 DEF Insert, AfterOpen, Steps
    <3>2. caseRows' \in [Payments -> Nat] /\ caseState' \in [Payments -> States]
      BY <1>0, <2>3 DEF Insert, RowsAfterInsert, TypeOK, States
    <3> QED
      BY <1>0, <2>3, <3>1, <3>2, GoingOn DEF Insert, TypeOK, States
  <2>4. CASE Mark(w)
    <3>1. \E step \in Steps : GoTo(w, step)
      BY <2>4 DEF Mark, Steps
    <3>2. processed' \subseteq Events
      BY <1>0, <2>4 DEF Mark, At, TypeOK, TasksFit, TaskFits
    <3> QED
      BY <1>0, <2>4, <3>1, <3>2, GoingOn DEF Mark, TypeOK
  <2>5. CASE ReadDiagnosis(w)
    <3>1. (\E step \in Steps : GoTo(w, step)) \/ Answer(w)
      BY <2>5 DEF ReadDiagnosis, Steps
    <3>2. answered \subseteq Events
      BY <1>0 DEF TypeOK
    <3>3. task' \in [Workers -> TaskRecords] /\ answered' \subseteq Events
      BY <1>0, <3>1, <3>2, GoingOn, Answering
    <3> QED
      BY <1>0, <2>5, <3>3 DEF ReadDiagnosis, TypeOK, tables
  <2>6. CASE RecordDiagnosis(w)
    <3>1. \E step \in Steps : GoTo(w, step)
      BY <2>6 DEF RecordDiagnosis, Steps
    <3>2. diagnoses' \in [Payments -> Nat]
      <4>1. diagnoses' = [diagnoses EXCEPT ![task[w].payment] = @ + 1]
            /\ task[w].payment \in Payments /\ diagnoses \in [Payments -> Nat]
        BY <1>0, <2>0, <2>6 DEF RecordDiagnosis, At, TypeOK
      <4> QED
        BY <4>1, CountedUp
    <3> QED
      BY <1>0, <2>6, <3>1, <3>2, GoingOn DEF RecordDiagnosis, TypeOK
  <2>7. CASE Schedule(w)
    <3>1. rows' \in [Payments -> SUBSET Rows] /\ armed' \in [Payments -> Nat]
      <4> DEFINE p == task[w].payment
                 row == NewRow(p, PlanOf[p][task[w].next])
      <4>1. /\ rows' = [rows EXCEPT ![p] = @ \cup {row}]
            /\ armed' = [armed EXCEPT ![p] = @ + 1]
            /\ p \in Payments
        BY <2>0, <2>7 DEF Schedule, At
      <4>2. rows \in [Payments -> SUBSET Rows] /\ armed \in [Payments -> Nat] /\ writes \in Nat
        BY <1>0, IngestAssumption DEF TypeOK, IngestAssumption
      <4>3. row \in Rows
        <5>1. task[w].step = "schedule"
          BY <2>7 DEF Schedule, At
        <5>2. task[w].next \in 1 .. Len(PlanOf[p])
          BY <5>1 DEF TasksFit, TaskFits
        <5> QED
          BY <4>1, <4>2, <5>2, IngestAssumption DEF IngestAssumption, NewRow, Rows
      <4> QED
        BY <4>1, <4>2, <4>3, CountedUp
    <3>2. task' \in [Workers -> TaskRecords] /\ answered' \subseteq Events
      <4>1. Answer(w) \/ (task' = [task EXCEPT ![w].next = @ + 1] /\ answered' = answered)
        BY <2>7 DEF Schedule
      <4>2. answered \subseteq Events
        BY <1>0 DEF TypeOK
      <4> QED
        BY <1>0, <4>1, <4>2, Answering, NextRow
    <3> QED
      BY <1>0, <2>7, <3>1, <3>2 DEF Schedule, TypeOK
  <2>8. CASE Hold(w)
    <3>1. /\ Answer(w) /\ caseState' \in [Payments -> States]
          /\ presented' \subseteq Payments
      BY <1>0, <2>0, <2>8 DEF Hold, At, TypeOK, States
    <3> QED
      BY <1>0, <2>8, <3>1, Answering DEF Hold, TypeOK, States
  <2>9. CASE CancelRows(w)
    <3>1. "close" \in Steps /\ GoTo(w, "close")
      BY <2>9 DEF CancelRows, Steps
    <3>2. rows' \in [Payments -> SUBSET Rows] /\ disturbed' \subseteq Payments
      BY <1>0, <2>0, <2>9 DEF CancelRows, Disturbs, At, TypeOK
    <3> QED
      BY <1>0, <2>9, <3>1, <3>2, GoingOn DEF CancelRows, TypeOK
  <2>10. CASE Close(w)
    <3>1. Answer(w) /\ caseState' \in [Payments -> States]
      BY <1>0, <2>10 DEF Close, TypeOK, States
    <3> QED
      BY <1>0, <2>10, <3>1, Answering DEF Close, TypeOK, States
  <2> QED
    BY <1>3, <2>1, <2>2, <2>3, <2>4, <2>5, <2>6, <2>7, <2>8, <2>9, <2>10 DEF Handler
<1>4. ASSUME NEW w \in Workers, Crash(w)
      PROVE  TypeOK'
  <2>1. task' \in [Workers -> TaskRecords]
    BY <1>0, <1>4, Freeing DEF Crash
  <2>2. crashes' \in 0 .. MaxCrashes /\ dropped' \subseteq Payments
    BY <1>0, <1>4, IngestAssumption DEF Crash, At, TypeOK, TasksFit, TaskFits, IngestAssumption
  <2> QED
    BY <1>0, <1>4, <2>1, <2>2 DEF Crash, TypeOK, tables
<1>5. ASSUME NEW s \in Passes, Pass(s)
      PROVE  TypeOK'
  <2>1. /\ hand' \in [Passes -> HandRecords \cup {Free}]
        /\ rows \in [Payments -> SUBSET Rows] /\ caseState \in [Payments -> States]
        /\ finished \in [Payments -> SUBSET Rows] /\ sent \subseteq Payments
    BY <1>0, <1>5, Passing DEF TypeOK
  <2>2. /\ rows' \in [Payments -> SUBSET Rows] /\ caseState' \in [Payments -> States]
        /\ finished' \in [Payments -> SUBSET Rows] /\ sent' \subseteq Payments
    <3>1. CASE LeaseDoes(s) \/ LeaveDoes(s) \/ ReadDoesAgain(s)
      BY <2>1, <3>1 DEF LeaseDoes, LeaveDoes, ReadDoesAgain
    <3>2. CASE RowIn(s) /\ SendDoes(s)
      BY <2>1, <3>2 DEF RowIn, SendDoes
    <3>3. CASE RowIn(s) /\ (ReturnDoes(s) \/ RefuseDoes(s))
      BY <2>1, <3>3 DEF RowIn, ReturnDoes, RefuseDoes, Unspent
    <3>3a. CASE RowIn(s) /\ FinishDoes(s)
      BY <2>1, <3>3a DEF RowIn, FinishDoes, Spend
    <3>4. CASE RowIn(s) /\ HeldDoes(s)
      BY <2>1, <3>4 DEF RowIn, HeldDoes, States
    <3> QED  BY <1>0, <1>5, <3>1, <3>2, <3>3, <3>3a, <3>4, Passing
  <2>3. UNCHANGED NoHandler
    BY <1>5 DEF Pass, Lease, ReadAgain, Refuse, Send, Return, Finish, HoldRetried, PassDies
  <2> QED
    BY <1>0, <2>1, <2>2, <2>3 DEF TypeOK, HandRecords
<1>6. ASSUME NEW p \in WrittenTo, WriteElsewhere(p)
      PROVE  TypeOK'
  <2>1. /\ UNCHANGED <<caseRows, diagnoses, processed, task, hand, finished, deliveries,
                       crashes, answered, armed, presented, sent, overlapped, dropped>>
        /\ writes < MaxWrites /\ writes' = writes + 1 /\ p \in Payments
        /\ disturbed' \subseteq disturbed \cup {p}
    BY <1>6, IngestAssumption DEF WriteElsewhere, ArmRow, CancelElsewhere, SetState, Write,
       Disturbs, IngestAssumption
  <2>2. rows' \in [Payments -> SUBSET Rows] /\ caseState' \in [Payments -> States]
    <3>1. /\ rows \in [Payments -> SUBSET Rows] /\ caseState \in [Payments -> States]
          /\ armed \in [Payments -> Nat] /\ writes \in Nat /\ WrittenStates \subseteq States
      BY <1>0, IngestAssumption DEF TypeOK, IngestAssumption
    <3>2. ASSUME NEW kind \in Kinds, ArmRow(p, kind)
          PROVE  rows' \in [Payments -> SUBSET Rows] /\ caseState' = caseState
      <4>1. NewRow(p, kind) \in Rows
        BY <2>1, <3>1 DEF NewRow, Rows
      <4> QED  BY <3>1, <3>2, <4>1 DEF ArmRow
    <3>3. CASE CancelElsewhere(p)
      BY <3>1, <3>3 DEF CancelElsewhere
    <3>4. ASSUME NEW state \in WrittenStates, SetState(p, state)
          PROVE  caseState' \in [Payments -> States] /\ rows' = rows
      BY <3>1, <3>4 DEF SetState
    <3> QED  BY <1>6, <3>1, <3>2, <3>3, <3>4 DEF WriteElsewhere
  <2>3. writes' \in 0 .. MaxWrites /\ disturbed' \subseteq Payments
    BY <1>0, <2>1, IngestAssumption DEF TypeOK, IngestAssumption
  <2> QED
    BY <1>0, <2>1, <2>2, <2>3 DEF TypeOK
<1>7. CASE UNCHANGED vars
  BY <1>0, <1>7 DEF TypeOK
<1> QED
  BY <1>1, <1>2, <1>3, <1>4, <1>5, <1>6, <1>7 DEF Next

-----------------------------------------------------------------------------
(* No case is deleted, and no message taken back. *)
LEMMA Growing ==
  ASSUME TypeOK, [Next]_vars
  PROVE  sent \subseteq sent' /\ \A p \in Payments : caseRows[p] > 0 => caseRows'[p] > 0
<1>1. ASSUME NEW w \in Workers, Insert(w)
      PROVE  sent' = sent /\ \A p \in Payments : caseRows[p] > 0 => caseRows'[p] > 0
  BY <1>1 DEF Insert, RowsAfterInsert, TypeOK
<1>2. ASSUME NEW w \in Workers, Handler(w), ~Insert(w)
      PROVE  sent' = sent /\ caseRows' = caseRows
  BY <1>2 DEF Handler, Seen, LookUp, Mark, ReadDiagnosis, RecordDiagnosis, Schedule, Hold,
              CancelRows, Close, tables
<1>3. ASSUME NEW w \in Workers,
             (\E e \in Events : Deliver(w, e)) \/ (\E p \in Payments : HandIn(w, p)) \/ Crash(w)
      PROVE  sent' = sent /\ caseRows' = caseRows
  BY <1>3 DEF Deliver, HandIn, Take, Crash, tables
<1>4. ASSUME (\E s \in Passes : Pass(s)) \/ (\E p \in WrittenTo : WriteElsewhere(p))
      PROVE  sent \subseteq sent' /\ caseRows' = caseRows
  BY <1>4, Elsewhere
<1>5. CASE UNCHANGED vars
  BY <1>5 DEF vars
<1> QED
  BY <1>1, <1>2, <1>3, <1>4, <1>5 DEF Next

LEMMA Bystanders ==
  ASSUME TypeOK, NEW v \in Workers, TaskFits(v), task'[v] = task[v],
         sent \subseteq sent', \A p \in Payments : caseRows[p] > 0 => caseRows'[p] > 0
  PROVE  TaskFits(v)'
<1>1. task[v].payment \in Payments \/ task[v].payment = None
  BY DEF TypeOK
<1>2. task[v].step \in AfterInsert => task[v].payment \in Payments
  BY <1>1 DEF TaskFits, AfterInsert
<1> QED
  BY <1>2 DEF TaskFits

LEMMA FreeFits ==
  ASSUME NEW w \in Workers, task'[w] = Idle
  PROVE  TaskFits(w)'
  BY IdleFacts, IngestAssumption DEF TaskFits, IngestAssumption, AfterInsert

LEMMA PlanLengths ==
  ASSUME NEW p \in Payments
  PROVE  Len(PlanOf[p]) \in Nat /\ (PlanOf[p] # <<>> => Len(PlanOf[p]) >= 1)
<1>1. PlanOf[p] \in Seq(Kinds)
  BY IngestAssumption DEF IngestAssumption
<1> QED
  BY <1>1

LEMMA TasksStep ==
  ASSUME TypeOK, TasksFit, TablesFit, [Next]_vars
  PROVE  TasksFit'
<1>0. TypeOK /\ sent \subseteq sent'
      /\ \A p \in Payments : caseRows[p] > 0 => caseRows'[p] > 0
  BY Growing
<1>1. ASSUME NEW w \in Workers, Others(w), TaskFits(w)'
      PROVE  TasksFit'
  BY <1>0, <1>1, Bystanders DEF TasksFit, Others
<1>2. ASSUME NEW w \in Workers, Freed(w)
      PROVE  TasksFit'
  BY <1>1, <1>2, FreeFits DEF Freed
<1>3. ASSUME NEW w \in Workers, NEW e \in Events, Deliver(w, e)
      PROVE  TasksFit'
  <2>1. Take(w, e, PaymentOf[e], "seen") /\ PaymentOf[e] \in Payments /\ "seen" \in Steps
        /\ (e \in PaidEvents => PaymentOf[e] \in sent) /\ PaymentOf[e] # None /\ e # None
    BY <1>3, IngestAssumption DEF Deliver, IngestAssumption, Steps
  <2>2. /\ Others(w) /\ task'[w].event = e /\ task'[w].payment = PaymentOf[e]
        /\ task'[w].step = "seen" /\ task'[w].next = 1
    BY <1>0, <2>1, Taking
  <2>3. TaskFits(w)'
    BY <1>0, <2>1, <2>2 DEF TaskFits, AfterInsert
  <2> QED
    BY <1>1, <2>2, <2>3
<1>4. ASSUME NEW w \in Workers, NEW p \in Payments, HandIn(w, p)
      PROVE  TasksFit'
  <2>1. Take(w, None, p, "open") /\ "open" \in Steps /\ p # None /\ None \notin Events
        /\ None \notin PaidEvents
    BY <1>4, IngestAssumption DEF HandIn, IngestAssumption, Steps
  <2>2. /\ Others(w) /\ task'[w].event = None /\ task'[w].payment = p
        /\ task'[w].step = "open" /\ task'[w].next = 1
    BY <1>0, <2>1, Taking
  <2>3. TaskFits(w)'
    BY <2>1, <2>2 DEF TaskFits, AfterInsert
  <2> QED
    BY <1>1, <2>2, <2>3
<1>5. ASSUME NEW w \in Workers, Handler(w)
      PROVE  TasksFit'
  <2>0. /\ TaskFits(w)
        /\ PaidEvents \subseteq Events
        /\ task[w].event \in Events \cup {None} /\ None \notin Events
        /\ task[w].step # "idle" => task[w].payment \in Payments
        /\ \A p \in sent : p \in Payments /\ caseRows[p] > 0
        /\ \A p \in Payments : caseRows[p] \in Nat
    BY <1>0, IngestAssumption DEF TasksFit, TaskFits, TablesFit, TypeOK, IngestAssumption
  <2>1. CASE Seen(w)
    <3>1. AfterSeen(w) /\ task[w].step = "seen"
      BY <2>1 DEF Seen, At
    <3>2. ASSUME task[w].event \in PaidEvents, Moved(w, "mark")
          PROVE  TaskFits(w)'
      BY <1>0, <2>0, <3>1, <3>2 DEF TaskFits, Moved, AfterInsert
    <3>3. ASSUME task[w].event \notin PaidEvents, Moved(w, "open")
          PROVE  TaskFits(w)'
      BY <1>0, <2>0, <3>1, <3>3 DEF TaskFits, Moved, AfterInsert
    <3>4. \/ Freed(w)
          \/ task[w].event \in PaidEvents /\ Moved(w, "mark")
          \/ task[w].event \notin PaidEvents /\ Moved(w, "open")
      BY <1>0, <3>1, Looking
    <3> QED
      BY <1>1, <1>2, <3>2, <3>3, <3>4 DEF Moved
  <2>2. CASE LookUp(w)
    <3>1. task[w].step = "open"
          /\ \/ caseRows[task[w].payment] > 0 /\ GoTo(w, AfterOpen(w))
             \/ GoTo(w, "insert")
      BY <2>2 DEF LookUp, At
    <3>2. "insert" \in Steps /\ AfterOpen(w) \in {"read", "mark"} /\ "read" \in Steps
          /\ "mark" \in Steps /\ (AfterOpen(w) = "mark" => task[w].event # None)
      BY DEF AfterOpen, Steps
    <3>3. \/ caseRows[task[w].payment] > 0 /\ Moved(w, AfterOpen(w))
          \/ Moved(w, "insert")
      BY <1>0, <3>1, <3>2, GoingOn
    <3>4. TaskFits(w)'
      BY <1>0, <2>0, <3>1, <3>2, <3>3 DEF TaskFits, Moved, AfterInsert
    <3> QED
      BY <1>1, <3>3, <3>4 DEF Moved
  <2>3. CASE Insert(w)
    <3>1. task[w].step = "insert" /\ GoTo(w, AfterOpen(w))
          /\ caseRows' = RowsAfterInsert(task[w].payment)
      BY <2>3 DEF Insert, At
    <3>2. AfterOpen(w) \in {"read", "mark"} /\ "read" \in Steps
          /\ "mark" \in Steps /\ (AfterOpen(w) = "mark" => task[w].event # None)
      BY DEF AfterOpen, Steps
    <3>3. Moved(w, AfterOpen(w))
      BY <1>0, <3>1, <3>2, GoingOn
    <3>4. caseRows'[task[w].payment] > 0
      BY <1>0, <2>0, <3>1 DEF RowsAfterInsert, TypeOK
    <3>5. TaskFits(w)'
      BY <1>0, <2>0, <3>1, <3>2, <3>3, <3>4 DEF TaskFits, Moved, AfterInsert
    <3> QED
      BY <1>1, <3>3, <3>5 DEF Moved
  <2>4. CASE Mark(w)
    <3>1. task[w].step = "mark" /\ "cancel" \in Steps /\ "read" \in Steps
          /\ \/ task[w].event \in PaidEvents /\ GoTo(w, "cancel")
             \/ task[w].event \notin PaidEvents /\ GoTo(w, "read")
      BY <2>4 DEF Mark, At, Steps
    <3>2. \/ task[w].event \in PaidEvents /\ Moved(w, "cancel")
          \/ task[w].event \notin PaidEvents /\ Moved(w, "read")
      BY <1>0, <3>1, GoingOn
    <3>3. TaskFits(w)'
      BY <1>0, <2>0, <3>1, <3>2 DEF TaskFits, Moved, AfterInsert
    <3> QED
      BY <1>1, <3>2, <3>3 DEF Moved
  <2>5. CASE ReadDiagnosis(w)
    <3>1. task[w].step = "read"
          /\ (Answer(w) \/ \E step \in {"hold", "diagnose"} : GoTo(w, step))
      BY <2>5 DEF ReadDiagnosis, At
    <3>2. {"hold", "diagnose"} \subseteq Steps
      BY DEF Steps
    <3>3. Freed(w) \/ \E step \in {"hold", "diagnose"} : Moved(w, step)
      BY <1>0, <3>1, <3>2, GoingOn, Answering
    <3>4. ASSUME NEW step \in {"hold", "diagnose"}, Moved(w, step)
          PROVE  TaskFits(w)'
      BY <1>0, <2>0, <3>1, <3>4 DEF TaskFits, Moved, AfterInsert
    <3> QED
      BY <1>1, <1>2, <3>3, <3>4 DEF Moved
  <2>6. CASE RecordDiagnosis(w)
    <3>1. /\ task[w].step = "diagnose"
          /\ GoTo(w, "hold") \/ (PlanOf[task[w].payment] # <<>> /\ GoTo(w, "schedule"))
      BY <2>6 DEF RecordDiagnosis, At
    <3>2. {"hold", "schedule"} \subseteq Steps
      BY DEF Steps
    <3>3. Moved(w, "hold") \/ (PlanOf[task[w].payment] # <<>> /\ Moved(w, "schedule"))
      BY <1>0, <3>1, <3>2, GoingOn
    <3>4. /\ Len(PlanOf[task[w].payment]) \in Nat
          /\ PlanOf[task[w].payment] # <<>> => 1 \in 1 .. Len(PlanOf[task[w].payment])
      BY <2>0, <3>1, PlanLengths
    <3>5. TaskFits(w)'
      BY <1>0, <2>0, <3>1, <3>3, <3>4 DEF TaskFits, Moved, AfterInsert
    <3> QED
      BY <1>1, <3>3, <3>5 DEF Moved
  <2>7. CASE Schedule(w)
    <3>1. /\ task[w].step = "schedule"
          /\ Answer(w) \/ (/\ task[w].next # Len(PlanOf[task[w].payment])
                          /\ task' = [task EXCEPT ![w].next = @ + 1])
      BY <2>7 DEF Schedule, At
    <3>2. ASSUME task[w].next # Len(PlanOf[task[w].payment]),
                 task' = [task EXCEPT ![w].next = @ + 1]
          PROVE  Others(w) /\ TaskFits(w)'
      <4>1. /\ Len(PlanOf[task[w].payment]) \in Nat
            /\ task[w].next \in 1 .. Len(PlanOf[task[w].payment])
        BY <2>0, <3>1, PlanLengths DEF TaskFits
      <4>2. task[w].next + 1 \in 1 .. Len(PlanOf[task[w].payment])
        BY <3>2, <4>1
      <4> QED
        BY <1>0, <2>0, <3>1, <3>2, <4>2, NextRow DEF TaskFits, AfterInsert
    <3> QED
      BY <1>0, <1>1, <1>2, <3>1, <3>2, Answering
  <2>8. CASE Hold(w)
    BY <1>0, <1>2, <2>8, Answering DEF Hold
  <2>9. CASE CancelRows(w)
    <3>1. task[w].step = "cancel" /\ "close" \in Steps /\ GoTo(w, "close")
      BY <2>9 DEF CancelRows, At, Steps
    <3>2. Moved(w, "close")
      BY <1>0, <3>1, GoingOn
    <3>3. TaskFits(w)'
      BY <1>0, <2>0, <3>1, <3>2 DEF TaskFits, Moved, AfterInsert
    <3> QED
      BY <1>1, <3>2, <3>3 DEF Moved
  <2>10. CASE Close(w)
    BY <1>0, <1>2, <2>10, Answering DEF Close
  <2> QED
    BY <1>5, <2>1, <2>2, <2>3, <2>4, <2>5, <2>6, <2>7, <2>8, <2>9, <2>10 DEF Handler
<1>6. ASSUME NEW w \in Workers, Crash(w)
      PROVE  TasksFit'
  BY <1>0, <1>2, <1>6, Freeing DEF Crash
<1>7. CASE UNCHANGED task
  BY <1>0, <1>7, Bystanders DEF TasksFit
<1>8. ASSUME (\E s \in Passes : Pass(s)) \/ (\E p \in WrittenTo : WriteElsewhere(p))
      PROVE  TasksFit'
  BY <1>7, <1>8, Elsewhere
<1> QED
  BY <1>3, <1>4, <1>5, <1>6, <1>7, <1>8 DEF Next, vars

-----------------------------------------------------------------------------
LEMMA TablesStep ==
  ASSUME TypeOK, TasksFit, TablesFit, [Next]_vars
  PROVE  TablesFit'
<1>0. /\ TypeOK /\ TablesFit
      /\ \A p \in Payments : caseRows[p] > 0 => caseRows'[p] > 0
      /\ PaymentOf \in [Events -> Payments] /\ processed \subseteq Events
  BY Growing, IngestAssumption DEF TypeOK, IngestAssumption
<1>1. ASSUME UNCHANGED <<rows, hand, sent, processed>>
      PROVE  TablesFit'
  <2>1. \A s \in Passes : hand[s].step # "free" => hand[s].payment \in Payments
    BY HandFacts DEF HandRecords
  <2> QED  BY <1>0, <1>1, <2>1 DEF TablesFit
<1>2. ASSUME NEW w \in Workers,
             \/ Seen(w) \/ LookUp(w) \/ Insert(w) \/ ReadDiagnosis(w) \/ RecordDiagnosis(w)
             \/ Hold(w) \/ Close(w) \/ Crash(w)
      PROVE  TablesFit'
  BY <1>1, <1>2 DEF Seen, LookUp, Insert, ReadDiagnosis, RecordDiagnosis, Hold, Close, Crash,
                    tables
<1>3. ASSUME NEW w \in Workers,
             (\E e \in Events : Deliver(w, e)) \/ (\E p \in Payments : HandIn(w, p))
      PROVE  TablesFit'
  BY <1>1, <1>3 DEF Deliver, HandIn, Take, tables
<1>4. ASSUME NEW w \in Workers, Mark(w)
      PROVE  TablesFit'
  <2>1. /\ task[w].event \in Events /\ task[w].payment = PaymentOf[task[w].event]
        /\ caseRows[task[w].payment] > 0
    BY <1>4 DEF TasksFit, TaskFits, Mark, At, AfterInsert
  <2>2. processed' = processed \cup {task[w].event} /\ UNCHANGED <<rows, hand, sent, caseRows>>
    BY <1>4 DEF Mark
  <2> QED
    BY <1>0, <2>1, <2>2 DEF TablesFit
<1>5. ASSUME NEW w \in Workers, Schedule(w)
      PROVE  TablesFit'
  <2>1. caseRows[task[w].payment] > 0
    BY <1>5 DEF TasksFit, TaskFits, Schedule, At, AfterInsert
  <2>2. UNCHANGED <<hand, sent, processed, caseRows>>
    BY <1>5 DEF Schedule
  <2>3. \A p \in Payments : rows'[p] # {} => rows[p] # {} \/ p = task[w].payment
    BY <1>0, <1>5 DEF Schedule, TypeOK
  <2> QED
    BY <1>0, <2>1, <2>2, <2>3 DEF TablesFit
<1>6. ASSUME NEW w \in Workers, CancelRows(w)
      PROVE  TablesFit'
  <2>1. \A p \in Payments : rows'[p] # {} => rows[p] # {}
    BY <1>0, <1>6 DEF CancelRows, TypeOK
  <2> QED
    BY <1>0, <1>6, <2>1 DEF CancelRows, TablesFit
<1>7. ASSUME NEW s \in Passes, Pass(s)
      PROVE  TablesFit'
  <2>1. /\ OtherHands(s) /\ UNCHANGED <<caseRows, processed>>
        /\ rows \in [Payments -> SUBSET Rows]
        /\ hand[s].step # "free" => caseRows[hand[s].payment] > 0
        /\ Free.step = "free"
    BY <1>0, <1>7, Passing, Elsewhere, HandFacts DEF TypeOK, TablesFit
  <2>2. /\ hand'[s].step # "free" => caseRows[hand'[s].payment] > 0
        /\ \A p \in Payments : rows'[p] # {} \/ p \in sent' => caseRows[p] > 0
    <3>1. CASE LeaseDoes(s)
      BY <1>0, <3>1 DEF LeaseDoes, TablesFit
    <3>2. CASE LeaveDoes(s)
      BY <1>0, <2>1, <3>2 DEF LeaveDoes, TablesFit
    <3>3. CASE RowIn(s) /\ (ReadDoesAgain(s) \/ SendDoes(s) \/ HeldDoes(s))
      BY <1>0, <2>1, <3>3 DEF RowIn, ReadDoesAgain, SendDoes, HeldDoes, TablesFit
    <3>4. CASE RowIn(s) /\ (ReturnDoes(s) \/ RefuseDoes(s) \/ FinishDoes(s))
      <4>1. \A p \in Payments : rows'[p] # {} => rows[p] # {} \/ p = hand[s].payment
        BY <2>1, <3>4 DEF RowIn, ReturnDoes, RefuseDoes, FinishDoes, Spend
      <4> QED
        BY <1>0, <2>1, <3>4, <4>1 DEF RowIn, ReturnDoes, RefuseDoes, FinishDoes, TablesFit
    <3> QED  BY <1>0, <1>7, <3>1, <3>2, <3>3, <3>4, Passing
  <2>3. \A t \in Passes : hand'[t].step # "free" => caseRows[hand'[t].payment] > 0
    BY <1>0, <2>1, <2>2 DEF OtherHands, TablesFit
  <2> QED
    BY <1>0, <2>1, <2>2, <2>3 DEF TablesFit
<1>8. ASSUME NEW p \in WrittenTo, WriteElsewhere(p)
      PROVE  TablesFit'
  <2>1. caseRows[p] > 0 /\ UNCHANGED <<caseRows, processed, hand, sent>>
    BY <1>8 DEF WriteElsewhere, ArmRow, CancelElsewhere, SetState, Write
  <2>2. \A q \in Payments : rows'[q] # {} => rows[q] # {} \/ q = p
    BY <1>0, <1>8 DEF WriteElsewhere, ArmRow, CancelElsewhere, SetState, TypeOK
  <2> QED
    BY <1>0, <2>1, <2>2 DEF TablesFit
<1>9. CASE UNCHANGED vars
  BY <1>1, <1>9
<1> QED
  BY <1>2, <1>3, <1>4, <1>5, <1>6, <1>7, <1>8, <1>9 DEF Next, Handler

(* The unique index is what keeps the second process from a second case. *)
LEMMA OneCaseStep ==
  ASSUME TypeOK, TasksFit, OneCasePerPayment, [Next]_vars
  PROVE  OneCasePerPayment'
<1>1. ASSUME NEW w \in Workers, Insert(w)
      PROVE  OneCasePerPayment'
  <2>1. caseRows' = RowsAfterInsert(task[w].payment) /\ caseRows \in [Payments -> Nat]
    BY <1>1 DEF Insert, TypeOK
  <2> QED
    BY <2>1 DEF RowsAfterInsert, OneCasePerPayment
<1>2. ASSUME UNCHANGED caseRows
      PROVE  OneCasePerPayment'
  BY <1>2 DEF OneCasePerPayment
<1>3. ASSUME NEW w \in Workers, Handler(w), ~Insert(w)
      PROVE  UNCHANGED caseRows
  BY <1>3 DEF Handler, Seen, LookUp, Mark, ReadDiagnosis, RecordDiagnosis, Schedule, Hold,
              CancelRows, Close, tables
<1>4. ASSUME NEW w \in Workers,
             (\E e \in Events : Deliver(w, e)) \/ (\E p \in Payments : HandIn(w, p)) \/ Crash(w)
      PROVE  UNCHANGED caseRows
  BY <1>4 DEF Deliver, HandIn, Take, Crash, tables
<1> QED
  BY <1>1, <1>2, <1>3, <1>4, Elsewhere DEF Next

LEMMA AnsweredStep ==
  ASSUME TypeOK, TasksFit, TablesFit, AnsweredIsOnFile, [Next]_vars
  PROVE  AnsweredIsOnFile'
<1>0. /\ TypeOK
      /\ \A p \in Payments : caseRows[p] > 0 => caseRows'[p] > 0
      /\ PaymentOf \in [Events -> Payments] /\ answered \subseteq Events
  BY Growing, IngestAssumption DEF TypeOK, IngestAssumption
<1>1. ASSUME NEW e \in Events \cup {None}, e # None => caseRows[PaymentOf[e]] > 0,
             answered' \subseteq answered \cup ({e} \ {None})
      PROVE  AnsweredIsOnFile'
  BY <1>0, <1>1 DEF AnsweredIsOnFile
<1>2. ASSUME answered' = answered
      PROVE  AnsweredIsOnFile'
  BY <1>1, <1>2
<1>3. ASSUME NEW w \in Workers, task[w].step \in AfterInsert, Answer(w)
      PROVE  AnsweredIsOnFile'
  <2>1. /\ task[w].event \in Events \cup {None}
        /\ task[w].event # None => caseRows[PaymentOf[task[w].event]] > 0
    BY <1>0, <1>3 DEF TasksFit, TaskFits, TypeOK
  <2> QED
    BY <1>0, <1>1, <1>3, <2>1, Answering
<1>4. ASSUME NEW w \in Workers, Handler(w)
      PROVE  AnsweredIsOnFile'
  <2>1. CASE Seen(w)
    <3>1. AfterSeen(w) /\ task[w].event \in Events
      BY <2>1 DEF Seen, At, TasksFit, TaskFits
    <3>2. \/ /\ task[w].event \in processed
             /\ answered' = answered \cup ({task[w].event} \ {None})
          \/ answered' = answered
      BY <1>0, <3>1, Looking
    <3>3. task[w].event \in processed => caseRows[PaymentOf[task[w].event]] > 0
      BY DEF TablesFit
    <3> QED
      BY <1>1, <1>2, <3>1, <3>2, <3>3
  <2>2. CASE LookUp(w) \/ Insert(w) \/ Mark(w) \/ RecordDiagnosis(w) \/ CancelRows(w)
    BY <1>2, <2>2 DEF LookUp, Insert, Mark, RecordDiagnosis, CancelRows, GoTo
  <2>3. CASE ReadDiagnosis(w) \/ Schedule(w) \/ Hold(w) \/ Close(w)
    <3>1. task[w].step \in AfterInsert
      BY <2>3 DEF ReadDiagnosis, Schedule, Hold, Close, At, AfterInsert
    <3>2. Answer(w) \/ answered' = answered
      BY <2>3 DEF ReadDiagnosis, Schedule, Hold, Close, GoTo
    <3> QED
      BY <1>2, <1>3, <3>1, <3>2
  <2> QED
    BY <1>4, <2>1, <2>2, <2>3 DEF Handler
<1>5. ASSUME NEW w \in Workers,
             (\E e \in Events : Deliver(w, e)) \/ (\E p \in Payments : HandIn(w, p)) \/ Crash(w)
      PROVE  AnsweredIsOnFile'
  BY <1>2, <1>5 DEF Deliver, HandIn, Take, Crash
<1> QED
  BY <1>2, <1>4, <1>5, Elsewhere DEF Next

-----------------------------------------------------------------------------
(* Within a handler a process keeps what it holds, or lets go of it. *)
LEMMA HandsKept ==
  ASSUME TypeOK, NEW w \in Workers, Handler(w) \/ Crash(w)
  PROVE  /\ Others(w) /\ task'[w].payment \in {task[w].payment, None}
         /\ overlapped' = overlapped
<1>0. TypeOK
  OBVIOUS
<1>1. ASSUME NEW step \in Steps, GoTo(w, step)
      PROVE  Others(w) /\ task'[w].payment = task[w].payment
  BY <1>0, <1>1, GoingOn DEF Moved
<1>2. ASSUME Freed(w)
      PROVE  Others(w) /\ task'[w].payment = None
  BY <1>2, IdleFacts DEF Freed
<1>3. ASSUME Answer(w)
      PROVE  Others(w) /\ task'[w].payment = None
  BY <1>0, <1>2, <1>3, Answering
<1>4. {"read", "mark", "insert", "cancel", "hold", "diagnose", "schedule", "close"} \subseteq Steps
  BY DEF Steps
<1>5. CASE Crash(w)
  BY <1>0, <1>2, <1>5, Freeing DEF Crash
<1>6. CASE Seen(w)
  <2>1. Freed(w) \/ Moved(w, "mark") \/ Moved(w, "open")
    BY <1>0, <1>6, Looking DEF Seen
  <2> QED
    BY <1>2, <1>6, <2>1 DEF Seen, Moved
<1>7. CASE LookUp(w) \/ Insert(w) \/ Mark(w) \/ RecordDiagnosis(w) \/ CancelRows(w)
  <2>1. \E step \in Steps : GoTo(w, step)
    BY <1>4, <1>7 DEF LookUp, Insert, Mark, RecordDiagnosis, CancelRows, AfterOpen
  <2> QED
    BY <1>1, <1>7, <2>1 DEF LookUp, Insert, Mark, RecordDiagnosis, CancelRows
<1>8. CASE ReadDiagnosis(w)
  <2>1. Answer(w) \/ \E step \in Steps : GoTo(w, step)
    BY <1>4, <1>8 DEF ReadDiagnosis
  <2> QED
    BY <1>1, <1>3, <1>8, <2>1 DEF ReadDiagnosis
<1>9. CASE Schedule(w)
  <2>1. Answer(w) \/ task' = [task EXCEPT ![w].next = @ + 1]
    BY <1>9 DEF Schedule
  <2> QED
    BY <1>0, <1>3, <1>9, <2>1, NextRow DEF Schedule
<1>10. CASE Hold(w) \/ Close(w)
  BY <1>3, <1>10 DEF Hold, Close
<1> QED
  BY <1>5, <1>6, <1>7, <1>8, <1>9, <1>10 DEF Handler

LEMMA HandsStep ==
  ASSUME TypeOK, OneHand, [Next]_vars
  PROVE  OneHand'
<1>0. TypeOK /\ None \notin Payments
  BY IngestAssumption DEF IngestAssumption
<1>1. ASSUME NEW w \in Workers, NEW e \in Events \cup {None}, NEW p \in Payments,
             NEW step \in Steps, Take(w, e, p, step)
      PROVE  OneHand'
  <2>1. Others(w) /\ task'[w].payment = p
    BY <1>0, <1>1, Taking
  <2>2. overlapped' = IF InHand(p) THEN overlapped \cup {p} ELSE overlapped
    BY <1>1 DEF Take
  <2>3. p \notin overlapped' => \A v \in Workers : task[v].payment # p
    BY <2>2 DEF InHand
  <2>4. Payments \ overlapped' \subseteq Payments \ overlapped
    BY <2>2
  <2> SUFFICES ASSUME NEW q \in Payments \ overlapped', NEW v \in Workers, NEW u \in Workers,
                      task'[v].payment = q, task'[u].payment = q
               PROVE  v = u
    BY DEF OneHand
  <2>5. CASE q = p
    BY <2>1, <2>3, <2>5 DEF Others
  <2>6. CASE q # p
    BY <2>1, <2>4, <2>6 DEF Others, OneHand
  <2> QED
    BY <2>5, <2>6
<1>2. ASSUME NEW w \in Workers, NEW e \in Events, Deliver(w, e)
      PROVE  OneHand'
  <2>1. Take(w, e, PaymentOf[e], "seen") /\ PaymentOf[e] \in Payments /\ "seen" \in Steps
    BY <1>2, IngestAssumption DEF Deliver, IngestAssumption, Steps
  <2> QED
    BY <1>1, <2>1
<1>3. ASSUME NEW w \in Workers, NEW p \in Payments, HandIn(w, p)
      PROVE  OneHand'
  <2>1. Take(w, None, p, "open") /\ "open" \in Steps
    BY <1>3 DEF HandIn, Steps
  <2> QED
    BY <1>1, <2>1
<1>4. ASSUME NEW w \in Workers, Handler(w) \/ Crash(w)
      PROVE  OneHand'
  <2>1. Others(w) /\ task'[w].payment \in {task[w].payment, None} /\ overlapped' = overlapped
    BY <1>0, <1>4, HandsKept
  <2>2. \A v \in Workers, q \in Payments : task'[v].payment = q => task[v].payment = q
    BY <1>0, <2>1 DEF Others
  <2> QED
    BY <2>1, <2>2 DEF OneHand
<1>5. CASE UNCHANGED <<task, overlapped>>
  BY <1>5 DEF OneHand
<1> QED
  BY <1>2, <1>3, <1>4, <1>5, Elsewhere DEF Next

-----------------------------------------------------------------------------
(* A step away from the plan's rows disturbs no plan. *)
LEMMA QuietStep ==
  ASSUME PlanFollowed, NEW w \in Workers, Others(w),
         task'[w].step \notin {"diagnose", "schedule", "hold"},
         UNCHANGED <<diagnoses, armed, presented>>, overlapped \subseteq overlapped'
  PROVE  PlanFollowed'
  BY DEF PlanFollowed, PlanFits, Others

LEMMA PlanStep ==
  ASSUME TypeOK, TasksFit, OneHand, PlanFollowed, [Next]_vars
  PROVE  PlanFollowed'
<1>0. TypeOK /\ PlanFollowed
  OBVIOUS
<1>1. ASSUME NEW w \in Workers, NEW e \in Events \cup {None}, NEW p \in Payments,
             NEW step \in {"seen", "open"}, Take(w, e, p, step)
      PROVE  PlanFollowed'
  <2>1. step \in Steps
    BY DEF Steps
  <2>2. Others(w) /\ task'[w].step = step
    BY <1>0, <1>1, <2>1, Taking
  <2>3. UNCHANGED <<diagnoses, armed, presented>> /\ overlapped \subseteq overlapped'
    BY <1>1 DEF Take, tables
  <2> QED
    BY <1>0, <2>2, <2>3, QuietStep
<1>2. ASSUME NEW w \in Workers, NEW e \in Events, Deliver(w, e)
      PROVE  PlanFollowed'
  <2>1. Take(w, e, PaymentOf[e], "seen") /\ PaymentOf[e] \in Payments
    BY <1>2, IngestAssumption DEF Deliver, IngestAssumption
  <2> QED
    BY <1>1, <2>1
<1>3. ASSUME NEW w \in Workers, NEW p \in Payments, HandIn(w, p)
      PROVE  PlanFollowed'
  BY <1>1, <1>3 DEF HandIn
<1>4. ASSUME NEW w \in Workers, Freed(w), UNCHANGED <<diagnoses, armed, presented, overlapped>>
      PROVE  PlanFollowed'
  BY <1>0, <1>4, IdleFacts, QuietStep DEF Freed
<1>5. ASSUME NEW w \in Workers, NEW step \in Steps \ {"diagnose", "schedule", "hold"},
             Moved(w, step), UNCHANGED <<diagnoses, armed, presented, overlapped>>
      PROVE  PlanFollowed'
  BY <1>0, <1>5, QuietStep DEF Moved
<1>6. ASSUME NEW w \in Workers, Handler(w)
      PROVE  PlanFollowed'
  <2> DEFINE p == task[w].payment
             Apart == {"open", "read", "mark", "insert", "cancel", "close"}
  <2>0. /\ task[w].step # "idle" => p \in Payments
        /\ Apart \subseteq Steps \ {"diagnose", "schedule", "hold"}
        /\ diagnoses \in [Payments -> Nat] /\ armed \in [Payments -> Nat]
        /\ task[w].next \in Nat
    BY <1>0 DEF TasksFit, TaskFits, TypeOK, Steps
  <2>1. CASE Seen(w)
    <3>1. AfterSeen(w) /\ UNCHANGED <<diagnoses, armed, presented, overlapped>>
      BY <2>1 DEF Seen, tables
    <3>2. Freed(w) \/ Moved(w, "mark") \/ Moved(w, "open")
      BY <1>0, <3>1, Looking
    <3> QED
      BY <1>4, <1>5, <2>0, <3>1, <3>2
  <2>2. CASE LookUp(w) \/ Insert(w) \/ Mark(w) \/ CancelRows(w)
    <3>1. /\ \E step \in Apart : GoTo(w, step)
          /\ UNCHANGED <<diagnoses, armed, presented, overlapped>>
      BY <2>2 DEF LookUp, Insert, Mark, CancelRows, AfterOpen, tables
    <3>2. \E step \in Apart : Moved(w, step)
      BY <1>0, <2>0, <3>1, GoingOn
    <3> QED
      BY <1>5, <2>0, <3>1, <3>2
  <2>3. CASE ReadDiagnosis(w)
    <3>1. /\ UNCHANGED <<diagnoses, armed, presented, overlapped>>
          /\ \/ Answer(w) \/ (p \in Undecided /\ GoTo(w, "hold"))
             \/ (diagnoses[p] = 0 /\ GoTo(w, "diagnose"))
          /\ p \in Payments
      <4>1. p \in Payments
        BY <2>0, <2>3 DEF ReadDiagnosis, At
      <4>2. ~(diagnoses[p] > 0) => diagnoses[p] = 0
        BY <2>0, <4>1
      <4>3. \/ Answer(w) \/ (p \in Undecided /\ GoTo(w, "hold"))
            \/ (~(diagnoses[p] > 0) /\ GoTo(w, "diagnose"))
        BY <2>3 DEF ReadDiagnosis, AlreadyProcessed
      <4>4. UNCHANGED <<diagnoses, armed, presented, overlapped>>
        BY <2>3 DEF ReadDiagnosis, tables
      <4> QED
        BY <4>1, <4>2, <4>3, <4>4
    <3>2. "hold" \in Steps /\ "diagnose" \in Steps
      BY DEF Steps
    <3>3. \/ Freed(w) \/ (p \in Undecided /\ Moved(w, "hold"))
          \/ (diagnoses[p] = 0 /\ Moved(w, "diagnose"))
      BY <1>0, <3>1, <3>2, GoingOn, Answering
    <3>4. ASSUME diagnoses[p] = 0, Moved(w, "diagnose")
          PROVE  PlanFollowed'
      BY <1>0, <3>1, <3>4 DEF PlanFollowed, PlanFits, Moved, Others
    <3>5. ASSUME p \in Undecided, Moved(w, "hold")
          PROVE  PlanFollowed'
      BY <1>0, <3>1, <3>5 DEF PlanFollowed, PlanFits, Moved, Others
    <3> QED
      BY <1>4, <3>1, <3>3, <3>4, <3>5
  <2>4. CASE RecordDiagnosis(w)
    <3>1. /\ diagnoses' = [diagnoses EXCEPT ![p] = @ + 1]
          /\ UNCHANGED <<armed, presented, overlapped>>
          /\ GoTo(w, "hold") \/ (PlanOf[p] # <<>> /\ GoTo(w, "schedule"))
          /\ task[w].step = "diagnose" /\ p \in Payments /\ task[w].next = 1
      <4>1. task[w].step = "diagnose"
        BY <2>4 DEF RecordDiagnosis, At
      <4>2. p \in Payments /\ task[w].next = 1
        BY <2>0, <4>1 DEF TasksFit, TaskFits
      <4>3. GoTo(w, "hold") \/ (PlanOf[p] # <<>> /\ GoTo(w, "schedule"))
        BY <2>4 DEF RecordDiagnosis
      <4>4. /\ diagnoses' = [diagnoses EXCEPT ![p] = @ + 1]
            /\ UNCHANGED <<armed, presented, overlapped>>
        BY <2>4 DEF RecordDiagnosis
      <4> QED
        BY <4>1, <4>2, <4>3, <4>4
    <3>2. "hold" \in Steps /\ "schedule" \in Steps
      BY DEF Steps
    <3>3. Moved(w, "hold") \/ (PlanOf[p] # <<>> /\ Moved(w, "schedule"))
      BY <1>0, <3>1, <3>2, GoingOn
    <3>4. /\ diagnoses'[p] = diagnoses[p] + 1
          /\ \A q \in Payments : q # p => diagnoses'[q] = diagnoses[q]
      BY <2>0, <3>1, CountedUp
    <3> SUFFICES ASSUME NEW q \in Payments \ overlapped
                 PROVE  PlanFits(q)'
      BY <3>1 DEF PlanFollowed
    <3>5. PlanFits(q)
      BY <1>0 DEF PlanFollowed
    <3>6. CASE q # p
      BY <3>1, <3>3, <3>4, <3>5, <3>6 DEF PlanFits, Moved, Others
    <3>7. CASE q = p
      <4>1. \A v \in Workers : task'[v].payment = p => v = w
        BY <3>3, <3>7 DEF OneHand, Moved, Others
      <4>2. /\ diagnoses[p] = 0 /\ armed[p] = 0 /\ diagnoses'[p] = 1
            /\ p \in presented => p \in Undecided
        BY <3>1, <3>4, <3>5, <3>7 DEF PlanFits
      <4>3. PlanOf[p] # <<>> => Len(PlanOf[p]) >= 1
        BY <3>1, PlanLengths
      <4> QED
        BY <3>1, <3>3, <3>5, <3>7, <4>1, <4>2, <4>3 DEF PlanFits, Moved
    <3> QED
      BY <3>6, <3>7
  <2>5. CASE Schedule(w)
    <3>1. /\ armed' = [armed EXCEPT ![p] = @ + 1]
          /\ UNCHANGED <<diagnoses, presented, overlapped>>
          /\ \/ task[w].next = Len(PlanOf[p]) /\ Answer(w)
             \/ task[w].next # Len(PlanOf[p]) /\ task' = [task EXCEPT ![w].next = @ + 1]
          /\ task[w].step = "schedule" /\ p \in Payments
      BY <2>0, <2>5 DEF Schedule, At
    <3>2. \/ task[w].next = Len(PlanOf[p]) /\ Freed(w)
          \/ /\ task[w].next # Len(PlanOf[p]) /\ Others(w)
             /\ task'[w].payment = p /\ task'[w].step = "schedule"
             /\ task'[w].next = task[w].next + 1
      BY <1>0, <3>1, Answering, NextRow
    <3>3. armed'[p] = armed[p] + 1 /\ \A q \in Payments : q # p => armed'[q] = armed[q]
      BY <2>0, <3>1, CountedUp
    <3> SUFFICES ASSUME NEW q \in Payments \ overlapped
                 PROVE  PlanFits(q)'
      BY <3>1 DEF PlanFollowed
    <3>4. PlanFits(q)
      BY <1>0 DEF PlanFollowed
    <3>5. None # q /\ task'[w].payment \in {p, None}
      BY <3>2, IdleFacts, IngestAssumption DEF IngestAssumption, Freed
    <3>6. CASE q # p
      BY <3>1, <3>2, <3>3, <3>4, <3>5, <3>6 DEF PlanFits, Others, Freed
    <3>7. CASE q = p
      <4>1. \A v \in Workers : task'[v].payment = p => v = w
        BY <3>2, <3>7 DEF OneHand, Others, Freed
      <4>2. /\ diagnoses[p] > 0 /\ armed[p] = task[w].next - 1
            /\ task[w].next <= Len(PlanOf[p])
        BY <3>1, <3>4, <3>7 DEF PlanFits
      <4>3. Len(PlanOf[p]) \in Nat
        BY <3>1, PlanLengths
      <4>4. armed'[p] = task[w].next
        BY <2>0, <3>3, <4>2
      <4>5. CASE task[w].next = Len(PlanOf[p]) /\ Freed(w)
        <5>1. \A v \in Workers : task'[v].payment # p
          BY <3>5, <3>7, <4>1, <4>5, IdleFacts DEF Freed
        <5> QED
          BY <2>0, <3>1, <3>7, <4>2, <4>4, <4>5, <5>1 DEF PlanFits
      <4>6. CASE task[w].next # Len(PlanOf[p]) /\ task'[w].next = task[w].next + 1
                 /\ task'[w].step = "schedule"
        <5>1. task'[w].next <= Len(PlanOf[p]) /\ armed'[p] = task'[w].next - 1
          BY <2>0, <4>2, <4>3, <4>4, <4>6
        <5> QED
          BY <2>0, <3>1, <3>7, <4>1, <4>2, <4>4, <4>6, <5>1 DEF PlanFits
      <4> QED
        BY <3>2, <4>5, <4>6
    <3> QED
      BY <3>6, <3>7
  <2>6. CASE Hold(w)
    <3>1. /\ Freed(w) /\ task[w].step = "hold" /\ p \in Payments
          /\ presented' = presented \cup {p} /\ UNCHANGED <<diagnoses, armed, overlapped>>
      BY <1>0, <2>0, <2>6, Answering DEF Hold, At
    <3> SUFFICES ASSUME NEW q \in Payments \ overlapped
                 PROVE  PlanFits(q)'
      BY <3>1 DEF PlanFollowed
    <3>2. PlanFits(q) /\ None # q
      BY <1>0, IngestAssumption DEF PlanFollowed, IngestAssumption
    <3>3. CASE q # p
      BY <3>1, <3>2, <3>3, IdleFacts DEF PlanFits, Freed, Others
    <3>4. CASE q = p
      <4>1. p \in Undecided \/ diagnoses[p] > 0
        BY <3>1, <3>2, <3>4 DEF PlanFits
      <4>2. \A v \in Workers : task'[v].payment # p
        BY <3>1, <3>2, <3>4, IdleFacts DEF OneHand, Freed, Others
      <4>3. diagnoses[p] \in Nat
        BY <2>0, <3>1
      <4> QED
        BY <3>1, <3>2, <3>4, <4>1, <4>2, <4>3 DEF PlanFits
    <3> QED
      BY <3>3, <3>4
  <2>7. CASE Close(w)
    <3>1. Answer(w) /\ UNCHANGED <<diagnoses, armed, presented, overlapped>>
      BY <2>7 DEF Close
    <3> QED
      BY <1>0, <1>4, <3>1, Answering
  <2> QED
    BY <1>6, <2>1, <2>2, <2>3, <2>4, <2>5, <2>6, <2>7 DEF Handler
<1>7. ASSUME NEW w \in Workers, Crash(w)
      PROVE  PlanFollowed'
  BY <1>0, <1>4, <1>7, Freeing DEF Crash, tables
<1>8. CASE UNCHANGED <<task, diagnoses, armed, presented, overlapped>>
  BY <1>0, <1>8 DEF PlanFollowed, PlanFits
<1> QED
  BY <1>2, <1>3, <1>6, <1>7, <1>8, Elsewhere DEF Next

-----------------------------------------------------------------------------
LEMMA IngestInvInit == Init => IngestInv
<1> SUFFICES ASSUME Init
             PROVE  IngestInv
  OBVIOUS
<1>1. TypeOK
  BY TypeInit
<1>2. TasksFit
  BY IdleFacts, IngestAssumption DEF Init, TasksFit, TaskFits, IngestAssumption, AfterInsert
<1>3. TablesFit /\ OneCasePerPayment /\ AnsweredIsOnFile
  BY DEF Init, TablesFit, OneCasePerPayment, AnsweredIsOnFile, Free
<1>4. OneHand
  BY IdleFacts, IngestAssumption DEF Init, OneHand, IngestAssumption
<1>5. PlanFollowed
  <2> SUFFICES ASSUME NEW p \in Payments
               PROVE  PlanFits(p)
    BY DEF PlanFollowed
  <2> QED
    BY PlanLengths, IdleFacts DEF Init, PlanFits
<1> QED
  BY <1>1, <1>2, <1>3, <1>4, <1>5 DEF IngestInv

LEMMA IngestInvStep == IngestInv /\ [Next]_vars => IngestInv'
  BY TypeStep, TasksStep, TablesStep, OneCaseStep, AnsweredStep, HandsStep, PlanStep
  DEF IngestInv

THEOREM IngestInvariant == Spec => []IngestInv
  BY IngestInvInit, IngestInvStep, PTL DEF Spec

(* Every table keeps its schema, however handlers interleave and wherever they die. *)
THEOREM IngestTypes == Spec => []TypeOK
  BY IngestInvariant, PTL DEF IngestInv

(* One case per payment (store.py:289), whatever number of processes looks for it
   at once: the lock of a process does not suffice, the index does. *)
THEOREM OneCaseAlways == Spec => []OneCasePerPayment
  BY IngestInvariant, PTL DEF IngestInv

(* An event Razorpay has an answer for is about a payment on file (webhooks.py:105). *)
THEOREM AnsweredAlwaysOnFile == Spec => []AnsweredIsOnFile
  BY IngestInvariant, PTL DEF IngestInv

(* A failure is worked once (agent.py:79), unless two processes had it at one time. *)
THEOREM WorkedAtMostOnce == Spec => []WorkedOnce
<1>1. IngestInv => WorkedOnce
  BY DEF IngestInv, PlanFollowed, PlanFits, WorkedOnce
<1> QED
  BY <1>1, IngestInvariant, PTL
-----------------------------------------------------------------------------
(* That a payment on file is worked, and one that is paid is closed: what  *)
(* the tables owe to the plan, and to whom a case may still be owed.       *)

(* A process that schedules is no further down the plan than the rows there are,
   also when another one schedules beside it; one that holds has nothing to schedule. *)
StepFits(w) ==
  LET p == task[w].payment
  IN /\ task[w].step = "schedule" =>
          /\ PlanOf[p] # <<>> /\ task[w].next <= Len(PlanOf[p])
          /\ armed[p] >= task[w].next - 1
     /\ task[w].step = "hold" => PlanOf[p] = <<>>
     /\ task[w].step \in {"cancel", "close"} => task[w].event \in PaidEvents

(* in the hands of a process that will see to it that the failure is worked *)
Working(w, p) ==
  /\ task[w].payment = p /\ task[w].event \notin PaidEvents
  /\ task[w].step \in {"mark", "read", "diagnose", "schedule", "hold"}
Finishing(w, p) == task[w].payment = p /\ task[w].step \in {"schedule", "hold"}

(* What is on file is worked or somebody's to work, and what is diagnosed is worked or
   behind its diagnosis: who finds the diagnosis may leave. *)
Cared(p) ==
  /\ caseRows[p] > 0 => Worked(p) \/ \E w \in Workers : Working(w, p)
  /\ diagnoses[p] > 0 => Worked(p) \/ \E w \in Workers : Finishing(w, p)

(* Nothing is scheduled, and no pass is past its second look: whatever pass still has a
   row will find it gone. *)
Quiet(p) == rows[p] = {} /\ \A s \in Passes : ~Acting(s, p)

(* While a paid link is in hand, and once it is answered, its failure is worked, so no
   delivery of it does anything more; from the cancellation on all is quiet. *)
PaidFits(e) ==
  LET p == PaymentOf[e]
  IN /\ \A w \in Workers : task[w].event = e =>
          /\ Worked(p)
          /\ task[w].step = "close" => Quiet(p)
          /\ task[w].step \in {"cancel", "close"} => e \in processed
     /\ e \in processed =>
          /\ Worked(p)
          /\ \/ e \in answered
             \/ \E w \in Workers : task[w].event = e /\ task[w].step \in {"cancel", "close"}
     /\ e \in answered => e \in processed /\ caseState[p] = "recovered" /\ Quiet(p)

(* payments the properties leave out by name *)
Excepted == overlapped \cup dropped \cup disturbed \cup Undecided

WorkInv ==
  /\ \A w \in Workers : StepFits(w)
  /\ \A p \in Payments \ dropped : Cared(p)
  /\ \A e \in PaidEvents : PaymentOf[e] \notin Excepted => PaidFits(e)

(* What a step of a handler does, payment by payment. *)
SeenDoes(w) ==
  /\ task[w].step = "seen"
  /\ UNCHANGED <<caseRows, caseState, diagnoses, rows, processed, armed, presented>>
  /\ \/ /\ Freed(w) /\ task[w].event \in processed
        /\ answered' = answered \cup {task[w].event}
     \/ Freed(w) /\ answered' = answered
     \/ task[w].event \in PaidEvents /\ Moved(w, "mark") /\ answered' = answered
     \/ task[w].event \notin PaidEvents /\ Moved(w, "open") /\ answered' = answered

FilingDoes(w) ==
  /\ task[w].step \in {"open", "insert"} /\ task[w].event \notin PaidEvents
  /\ UNCHANGED <<diagnoses, rows, processed, armed, presented, answered>>
  /\ \/ Moved(w, "insert") /\ UNCHANGED <<caseRows, caseState>>
     \/ /\ Moved(w, "mark") \/ Moved(w, "read")
        /\ \A q \in Payments :
             \/ caseRows'[q] = caseRows[q] /\ caseState'[q] = caseState[q]
             \/ /\ q = task[w].payment /\ caseRows[q] = 0 /\ caseRows'[q] = 1
                /\ caseState'[q] = "open"

MarkDoes(w) ==
  /\ task[w].step = "mark" /\ processed' = processed \cup {task[w].event}
  /\ UNCHANGED <<caseRows, caseState, diagnoses, rows, armed, presented, answered>>
  /\ \/ task[w].event \in PaidEvents /\ Moved(w, "cancel")
     \/ task[w].event \notin PaidEvents /\ Moved(w, "read")

ReadDoes(w) ==
  /\ task[w].step = "read" /\ task[w].event \notin PaidEvents
  /\ UNCHANGED <<caseRows, caseState, diagnoses, rows, processed, armed, presented>>
  /\ answered' \subseteq answered \cup {task[w].event}
  /\ \/ diagnoses[task[w].payment] > 0 /\ Freed(w)
     \/ PlanOf[task[w].payment] = <<>> /\ Moved(w, "hold")
     \/ Moved(w, "diagnose")

DiagnosisDoes(w) ==
  /\ task[w].step = "diagnose" /\ task[w].event \notin PaidEvents /\ task[w].next = 1
  /\ UNCHANGED <<caseRows, caseState, rows, processed, armed, presented, answered>>
  /\ \A q \in Payments : q # task[w].payment => diagnoses'[q] = diagnoses[q]
  /\ \/ PlanOf[task[w].payment] = <<>> /\ Moved(w, "hold")
     \/ PlanOf[task[w].payment] # <<>> /\ Moved(w, "schedule")

ScheduleDoes(w) ==
  /\ task[w].step = "schedule" /\ task[w].event \notin PaidEvents
  /\ UNCHANGED <<caseRows, caseState, diagnoses, processed, presented>>
  /\ \A q \in Payments : /\ q # task[w].payment => armed'[q] = armed[q] /\ rows'[q] = rows[q]
                         /\ q = task[w].payment => armed'[q] = armed[q] + 1
  /\ answered' \subseteq answered \cup {task[w].event}
  /\ \/ task[w].next = Len(PlanOf[task[w].payment]) /\ Freed(w)
     \/ /\ task[w].next # Len(PlanOf[task[w].payment]) /\ Others(w)
        /\ task'[w].event = task[w].event /\ task'[w].payment = task[w].payment
        /\ task'[w].step = "schedule" /\ task'[w].next = task[w].next + 1

HoldDoes(w) ==
  /\ task[w].step = "hold" /\ task[w].event \notin PaidEvents /\ Freed(w)
  /\ UNCHANGED <<caseRows, diagnoses, rows, processed, armed>>
  /\ presented' = presented \cup {task[w].payment}
  /\ \A q \in Payments : caseState'[q] = IF q = task[w].payment THEN "held-for-human"
                                         ELSE caseState[q]
  /\ answered' \subseteq answered \cup {task[w].event}

CancelDoes(w) ==
  /\ task[w].step = "cancel" /\ Moved(w, "close")
  /\ UNCHANGED <<caseRows, caseState, diagnoses, processed, armed, presented, answered>>
  /\ \A q \in Payments : rows'[q] = IF q = task[w].payment THEN {} ELSE rows[q]
  /\ disturbed \subseteq disturbed'
  /\ task[w].payment \notin disturbed' => \A s \in Passes : ~Acting(s, task[w].payment)

CloseDoes(w) ==
  /\ task[w].step = "close" /\ Freed(w)
  /\ UNCHANGED <<caseRows, diagnoses, rows, processed, armed, presented>>
  /\ \A q \in Payments : caseState'[q] = IF q = task[w].payment THEN "recovered"
                                         ELSE caseState[q]
  /\ answered' \subseteq answered \cup {task[w].event}

LEMMA Handled ==
  ASSUME TypeOK, TasksFit, NEW w \in Workers, Handler(w)
  PROVE  /\ task[w].payment \in Payments
         /\ UNCHANGED <<hand, finished, sent, overlapped, dropped>>
         /\ disturbed' = disturbed \/ CancelDoes(w)
         /\ \/ SeenDoes(w) \/ FilingDoes(w) \/ MarkDoes(w) \/ ReadDoes(w)
            \/ DiagnosisDoes(w) \/ ScheduleDoes(w) \/ HoldDoes(w) \/ CancelDoes(w)
            \/ CloseDoes(w)
<1> DEFINE p == task[w].payment
<1>1. /\ TypeOK /\ TaskFits(w)
      /\ {"seen", "open", "insert", "mark", "read", "diagnose", "schedule", "hold",
          "cancel", "close"} \subseteq Steps
  BY DEF TasksFit, Steps
<1>2. /\ p \in Payments
      /\ task[w].step \notin {"seen", "mark", "cancel", "close"}
           => task[w].event \notin PaidEvents
      /\ task[w].step = "diagnose" => task[w].next = 1
  <2>1. task[w].step # "idle"
    BY DEF Handler, Seen, LookUp, Insert, Mark, ReadDiagnosis, RecordDiagnosis, Schedule, Hold,
       CancelRows, Close, At
  <2> QED  BY <1>1, <2>1 DEF TaskFits, TypeOK
<1>3. UNCHANGED <<hand, finished, sent, overlapped, dropped>>
  BY DEF Handler, Seen, LookUp, Insert, Mark, ReadDiagnosis, RecordDiagnosis, Schedule, Hold,
     CancelRows, Close
<1>4. ASSUME Answer(w)
      PROVE  Freed(w) /\ answered' \subseteq answered \cup {task[w].event}
  BY <1>1, <1>4, Answering
<1>5. ASSUME NEW step \in Steps, GoTo(w, step)
      PROVE  Moved(w, step) /\ answered' = answered
  BY <1>1, <1>5, GoingOn
<1>5a. ASSUME CancelRows(w)
       PROVE  CancelDoes(w)
  <2>1. /\ task[w].step = "cancel" /\ GoTo(w, "close")
        /\ UNCHANGED <<caseRows, caseState, diagnoses, processed, armed, presented>>
        /\ rows' = [rows EXCEPT ![p] = {}] /\ DOMAIN rows = Payments
        /\ disturbed \subseteq disturbed'
        /\ p \notin disturbed' => \A s \in Passes : ~Acting(s, p)
    BY <1>5a DEF CancelRows, Disturbs, At, TypeOK
  <2> QED  BY <1>1, <1>2, <1>5, <2>1 DEF CancelDoes
<1>5b. disturbed' = disturbed \/ CancelDoes(w)
  <2>1. CASE CancelRows(w)
    BY <1>5a, <2>1
  <2>2. CASE ~CancelRows(w)
    BY <2>2 DEF Handler, Seen, LookUp, Insert, Mark, ReadDiagnosis, RecordDiagnosis, Schedule,
       Hold, Close
  <2> QED  BY <2>1, <2>2
<1>6. CASE Seen(w)
  <2>1. AfterSeen(w) /\ task[w].step = "seen" /\ task[w].event \in Events
    BY <1>1, <1>6 DEF Seen, At, TaskFits
  <2>2. /\ UNCHANGED <<caseRows, caseState, diagnoses, rows, processed, armed, presented>>
        /\ task[w].event # None
    BY <1>6, <2>1, IngestAssumption DEF Seen, tables, IngestAssumption
  <2>3. SeenDoes(w)
    BY <1>1, <2>1, <2>2, Looking DEF SeenDoes
  <2> QED  BY <1>2, <1>3, <1>5b, <2>3
<1>7. CASE LookUp(w)
  <2>1. /\ task[w].step = "open" /\ UNCHANGED <<tables, armed, presented>>
        /\ GoTo(w, "insert") \/ GoTo(w, "mark") \/ GoTo(w, "read")
    BY <1>7 DEF LookUp, At, AfterOpen
  <2>2. /\ Moved(w, "insert") \/ Moved(w, "mark") \/ Moved(w, "read")
        /\ answered' = answered
    BY <1>1, <1>5, <2>1
  <2>3. FilingDoes(w)
    BY <1>2, <2>1, <2>2 DEF FilingDoes, tables
  <2> QED  BY <1>2, <1>3, <1>5b, <2>3
<1>8. CASE Insert(w)
  <2>1. /\ task[w].step = "insert" /\ UNCHANGED <<diagnoses, rows, processed, armed, presented>>
        /\ GoTo(w, "mark") \/ GoTo(w, "read")
    BY <1>8 DEF Insert, At, AfterOpen
  <2>2. (Moved(w, "mark") \/ Moved(w, "read")) /\ answered' = answered
    BY <1>1, <1>5, <2>1
  <2>3. \A q \in Payments :
          \/ caseRows'[q] = caseRows[q] /\ caseState'[q] = caseState[q]
          \/ q = p /\ caseRows[q] = 0 /\ caseRows'[q] = 1 /\ caseState'[q] = "open"
    <3>1. CASE caseRows[p] > 0
      BY <1>8, <3>1 DEF Insert, RowsAfterInsert
    <3>2. CASE ~(caseRows[p] > 0)
      <4>1. /\ caseRows[p] = 0 /\ caseRows' = [caseRows EXCEPT ![p] = 1]
            /\ caseState' = [caseState EXCEPT ![p] = "open"]
        BY <1>2, <1>8, <3>2 DEF Insert, RowsAfterInsert, TypeOK
      <4>2. DOMAIN caseRows = Payments /\ DOMAIN caseState = Payments
        BY DEF TypeOK
      <4> QED  BY <1>2, <4>1, <4>2
    <3> QED  BY <3>1, <3>2
  <2>4. FilingDoes(w)
    BY <1>2, <2>1, <2>2, <2>3 DEF FilingDoes
  <2> QED  BY <1>2, <1>3, <1>5b, <2>4
<1>9. CASE Mark(w)
  <2>1. /\ task[w].step = "mark" /\ processed' = processed \cup {task[w].event}
        /\ UNCHANGED <<caseRows, caseState, diagnoses, rows, armed, presented>>
        /\ \/ task[w].event \in PaidEvents /\ GoTo(w, "cancel")
           \/ task[w].event \notin PaidEvents /\ GoTo(w, "read")
    BY <1>9 DEF Mark, At
  <2>2. MarkDoes(w)
    BY <1>1, <1>5, <2>1 DEF MarkDoes
  <2> QED  BY <1>2, <1>3, <1>5b, <2>2
<1>10. CASE ReadDiagnosis(w)
  <2>1. /\ task[w].step = "read" /\ UNCHANGED <<tables, armed, presented>>
        /\ \/ diagnoses[p] > 0 /\ Answer(w)
           \/ PlanOf[p] = <<>> /\ GoTo(w, "hold")
           \/ GoTo(w, "diagnose")
    BY <1>10, IngestAssumption DEF ReadDiagnosis, At, AlreadyProcessed, IngestAssumption
  <2>2. ReadDoes(w)
    BY <1>1, <1>2, <1>4, <1>5, <2>1 DEF ReadDoes, tables
  <2> QED  BY <1>2, <1>3, <1>5b, <2>2
<1>11. CASE RecordDiagnosis(w)
  <2>1. /\ task[w].step = "diagnose"
        /\ diagnoses' = [diagnoses EXCEPT ![p] = @ + 1]
        /\ UNCHANGED <<caseRows, caseState, rows, processed, armed, presented>>
        /\ \/ PlanOf[p] = <<>> /\ GoTo(w, "hold")
           \/ PlanOf[p] # <<>> /\ GoTo(w, "schedule")
    BY <1>11 DEF RecordDiagnosis, At
  <2>2. \A q \in Payments : q # p => diagnoses'[q] = diagnoses[q]
    BY <2>1 DEF TypeOK
  <2>3. DiagnosisDoes(w)
    BY <1>1, <1>2, <1>5, <2>1, <2>2 DEF DiagnosisDoes
  <2> QED  BY <1>2, <1>3, <1>5b, <2>3
<1>12. CASE Schedule(w)
  <2>1. /\ task[w].step = "schedule" /\ UNCHANGED <<caseRows, caseState, diagnoses, processed, presented>>
        /\ rows' = [rows EXCEPT ![p] = @ \cup {NewRow(p, PlanOf[p][task[w].next])}]
        /\ armed' = [armed EXCEPT ![p] = @ + 1]
        /\ \/ task[w].next = Len(PlanOf[p]) /\ Answer(w)
           \/ /\ task[w].next # Len(PlanOf[p])
              /\ task' = [task EXCEPT ![w].next = @ + 1] /\ answered' = answered
    BY <1>12 DEF Schedule, At
  <2>2. rows \in [Payments -> SUBSET Rows] /\ armed \in [Payments -> Nat]
    BY DEF TypeOK
  <2>3. \A q \in Payments : /\ q # p => armed'[q] = armed[q] /\ rows'[q] = rows[q]
                            /\ q = p => armed'[q] = armed[q] + 1
    BY <1>2, <2>1, <2>2, CountedUp
  <2>4. \/ /\ task[w].next = Len(PlanOf[p]) /\ Freed(w)
           /\ answered' \subseteq answered \cup {task[w].event}
        \/ /\ task[w].next # Len(PlanOf[p]) /\ Others(w) /\ answered' = answered
           /\ task'[w].event = task[w].event /\ task'[w].payment = p
           /\ task'[w].step = "schedule" /\ task'[w].next = task[w].next + 1
    BY <1>1, <1>4, <2>1, NextRow
  <2>5. ScheduleDoes(w)
    BY <1>2, <2>1, <2>3, <2>4 DEF ScheduleDoes
  <2> QED  BY <1>2, <1>3, <1>5b, <2>5
<1>13. CASE Hold(w)
  <2>1. /\ task[w].step = "hold" /\ Answer(w)
        /\ UNCHANGED <<caseRows, diagnoses, rows, processed, armed>>
        /\ presented' = presented \cup {p}
        /\ caseState' = [caseState EXCEPT ![p] = "held-for-human"]
        /\ DOMAIN caseState = Payments
    BY <1>13 DEF Hold, At, TypeOK
  <2>2. HoldDoes(w)
    BY <1>2, <1>4, <2>1 DEF HoldDoes
  <2> QED  BY <1>2, <1>3, <1>5b, <2>2
<1>14. CASE CancelRows(w)
  BY <1>2, <1>3, <1>5a, <1>5b, <1>14
<1>15. CASE Close(w)
  <2>1. /\ task[w].step = "close" /\ Answer(w)
        /\ UNCHANGED <<caseRows, diagnoses, rows, processed, armed, presented>>
        /\ caseState' = [caseState EXCEPT ![p] = "recovered"]
        /\ DOMAIN caseState = Payments
    BY <1>15 DEF Close, At, TypeOK
  <2>2. CloseDoes(w)
    BY <1>2, <1>4, <2>1 DEF CloseDoes
  <2> QED  BY <1>2, <1>3, <1>5b, <2>2
<1> QED
  BY <1>6, <1>7, <1>8, <1>9, <1>10, <1>11, <1>12, <1>13, <1>14, <1>15 DEF Handler

(* a process that is idle takes something up *)
TakesUp(w) ==
  \E e \in Events \cup {None}, p \in Payments, step \in {"seen", "open"} :
    /\ Others(w) /\ task[w].step = "idle"
    /\ task'[w].event = e /\ task'[w].payment = p
    /\ task'[w].step = step /\ task'[w].next = 1
    /\ e \in PaidEvents => p \in sent /\ e \in Events /\ p = PaymentOf[e]
    /\ p \notin overlapped' => \A v \in Workers : task[v].payment # p

(* a process dies *)
Dies(w) == Freed(w) /\ dropped' = dropped \cup {task[w].payment}

LEMMA StepKinds ==
  ASSUME TypeOK, [Next]_vars
  PROVE  \/ \E w \in Workers : Handler(w)
         \/ \E w \in Workers :
              /\ TakesUp(w) /\ overlapped \subseteq overlapped'
              /\ UNCHANGED <<tables, hand, finished, armed, presented, sent, answered,
                             dropped, disturbed>>
         \/ \E w \in Workers :
              /\ Dies(w)
              /\ UNCHANGED <<tables, hand, finished, armed, presented, sent, answered,
                             overlapped, disturbed>>
         \/ \E s \in Passes : Pass(s)
         \/ \E p \in WrittenTo : WriteElsewhere(p)
         \/ UNCHANGED vars
<1>1. ASSUME NEW w \in Workers, NEW e \in Events \cup {None}, NEW p \in Payments,
             NEW step \in {"seen", "open"}, Take(w, e, p, step),
             e \in PaidEvents => p \in sent /\ e \in Events /\ p = PaymentOf[e]
      PROVE  /\ TakesUp(w) /\ overlapped \subseteq overlapped'
             /\ UNCHANGED <<tables, hand, finished, armed, presented, sent, answered,
                            dropped, disturbed>>
  <2>1. step \in Steps /\ TypeOK
    BY DEF Steps
  <2>2. /\ Others(w) /\ task'[w].event = e /\ task'[w].payment = p
        /\ task'[w].step = step /\ task'[w].next = 1
    BY <1>1, <2>1, Taking
  <2>3. /\ task[w].step = "idle" /\ overlapped \subseteq overlapped'
        /\ p \notin overlapped' => \A v \in Workers : task[v].payment # p
        /\ UNCHANGED <<tables, hand, finished, armed, presented, sent, answered,
                       dropped, disturbed>>
    BY <1>1 DEF Take, At, InHand
  <2> QED  BY <1>1, <2>2, <2>3 DEF TakesUp
<1>2. ASSUME NEW w \in Workers, NEW e \in Events, Deliver(w, e)
      PROVE  /\ TakesUp(w) /\ overlapped \subseteq overlapped'
             /\ UNCHANGED <<tables, hand, finished, armed, presented, sent, answered,
                            dropped, disturbed>>
  <2>1. /\ Take(w, e, PaymentOf[e], "seen") /\ PaymentOf[e] \in Payments
        /\ e \in PaidEvents => PaymentOf[e] \in sent
    BY <1>2, IngestAssumption DEF Deliver, IngestAssumption
  <2> QED  BY <1>1, <2>1
<1>3. ASSUME NEW w \in Workers, NEW p \in Payments, HandIn(w, p)
      PROVE  /\ TakesUp(w) /\ overlapped \subseteq overlapped'
             /\ UNCHANGED <<tables, hand, finished, armed, presented, sent, answered,
                            dropped, disturbed>>
  <2>1. Take(w, None, p, "open") /\ None \notin PaidEvents
    BY <1>3, IngestAssumption DEF HandIn, IngestAssumption
  <2> QED  BY <1>1, <2>1
<1>4. ASSUME NEW w \in Workers, Crash(w)
      PROVE  /\ Dies(w)
             /\ UNCHANGED <<tables, hand, finished, armed, presented, sent, answered,
                            overlapped, disturbed>>
  BY <1>4, Freeing DEF Crash, Dies
<1> QED
  BY <1>2, <1>3, <1>4 DEF Next

(* Rows are not taken off the record of a plan, nor a case off a person's. *)
LEMMA WorkGrows ==
  ASSUME TypeOK, TasksFit, [Next]_vars
  PROVE  presented \subseteq presented' /\ \A p \in Payments : armed'[p] >= armed[p]
<1>0. \A p \in Payments : armed[p] \in Nat
  BY DEF TypeOK
<1>1. ASSUME NEW w \in Workers, Handler(w)
      PROVE  presented \subseteq presented' /\ \A p \in Payments : armed'[p] >= armed[p]
  <2>1. CASE ScheduleDoes(w)
    BY <1>0, <2>1 DEF ScheduleDoes
  <2>2. CASE ~ScheduleDoes(w)
    BY <1>0, <1>1, <2>2, Handled DEF SeenDoes, FilingDoes, MarkDoes, ReadDoes, DiagnosisDoes,
       HoldDoes, CancelDoes, CloseDoes
  <2> QED  BY <2>1, <2>2
<1>2. CASE UNCHANGED <<armed, presented>>
  BY <1>0, <1>2
<1> QED
  BY <1>1, <1>2, Elsewhere, StepKinds

LEMMA StepFitsStep ==
  ASSUME TypeOK, TasksFit, [Next]_vars, \A w \in Workers : StepFits(w),
         \A p \in Payments : armed'[p] >= armed[p], NEW v \in Workers
  PROVE  StepFits(v)'
<1>1. /\ TaskFits(v) /\ StepFits(v)
      /\ \A p \in Payments : armed[p] \in Nat /\ armed'[p] \in Nat /\ Len(PlanOf[p]) \in Nat
      /\ task[v].next \in Nat
      /\ task[v].step # "idle" => task[v].payment \in Payments
  BY TypeStep, PlanLengths DEF TasksFit, TaskFits, TypeOK
<1>2. ASSUME task'[v] = task[v]
      PROVE  StepFits(v)'
  BY <1>1, <1>2 DEF StepFits
<1>3. ASSUME Freed(v)
      PROVE  StepFits(v)'
  BY <1>3, IdleFacts DEF StepFits, Freed
<1>4. ASSUME NEW step \in Steps, Moved(v, step),
             step \notin {"schedule", "hold", "cancel", "close"}
      PROVE  StepFits(v)'
  BY <1>4 DEF StepFits, Moved
<1>5. ASSUME NEW w \in Workers, Handler(w)
      PROVE  StepFits(v)'
  <2>1. CASE v # w
    BY <1>2, <1>5, <2>1, HandsKept DEF Others
  <2>2. CASE v = w
    <3> DEFINE p == task[v].payment
    <3>1. p \in Payments /\ {"mark", "open", "insert", "read", "diagnose"} \subseteq Steps
      BY <1>5, <2>2, Handled DEF Steps
    <3>2. CASE SeenDoes(v) \/ FilingDoes(v)
      BY <1>3, <1>4, <3>1, <3>2 DEF SeenDoes, FilingDoes
    <3>3. CASE MarkDoes(v)
      <4>1. ASSUME task[v].event \in PaidEvents, Moved(v, "cancel")
            PROVE  StepFits(v)'
        BY <4>1 DEF StepFits, Moved
      <4> QED  BY <1>4, <3>1, <3>3, <4>1 DEF MarkDoes
    <3>4. CASE ReadDoes(v)
      <4>1. ASSUME PlanOf[p] = <<>>, Moved(v, "hold")
            PROVE  StepFits(v)'
        BY <4>1 DEF StepFits, Moved
      <4> QED  BY <1>3, <1>4, <3>1, <3>4, <4>1 DEF ReadDoes
    <3>5. CASE DiagnosisDoes(v)
      <4>1. ASSUME PlanOf[p] = <<>>, Moved(v, "hold")
            PROVE  StepFits(v)'
        BY <4>1 DEF StepFits, Moved
      <4>2. ASSUME PlanOf[p] # <<>>, Moved(v, "schedule"), task[v].next = 1
            PROVE  StepFits(v)'
        <5>1. Len(PlanOf[p]) >= 1 /\ armed'[p] >= 1 - 1
          BY <1>1, <3>1, <4>2, PlanLengths
        <5> QED  BY <4>2, <5>1 DEF StepFits, Moved
      <4> QED  BY <3>5, <4>1, <4>2 DEF DiagnosisDoes
    <3>6. CASE ScheduleDoes(v)
      <4>1. /\ PlanOf[p] # <<>> /\ task[v].next <= Len(PlanOf[p])
            /\ armed[p] >= task[v].next - 1 /\ armed'[p] = armed[p] + 1
        BY <1>1, <3>1, <3>6 DEF ScheduleDoes, StepFits
      <4>2. ASSUME task[v].next # Len(PlanOf[p]),
                   task'[v].payment = p, task'[v].step = "schedule",
                   task'[v].next = task[v].next + 1
            PROVE  StepFits(v)'
        <5>1. /\ task'[v].next <= Len(PlanOf[p]) /\ armed'[p] >= task'[v].next - 1
          BY <1>1, <3>1, <4>1, <4>2
        <5> QED  BY <4>1, <4>2, <5>1 DEF StepFits
      <4> QED  BY <1>3, <3>6, <4>2 DEF ScheduleDoes
    <3>7. CASE HoldDoes(v) \/ CloseDoes(v)
      BY <1>3, <3>7 DEF HoldDoes, CloseDoes
    <3>8. CASE CancelDoes(v)
      BY <1>1, <3>8 DEF CancelDoes, StepFits, Moved
    <3> QED  BY <1>5, <2>2, <3>2, <3>3, <3>4, <3>5, <3>6, <3>7, <3>8, Handled
  <2> QED  BY <2>1, <2>2
<1>6. ASSUME NEW w \in Workers, TakesUp(w)
      PROVE  StepFits(v)'
  <2>1. CASE v # w
    BY <1>2, <1>6, <2>1 DEF TakesUp, Others
  <2>2. CASE v = w
    BY <1>6, <2>2 DEF TakesUp, StepFits
  <2> QED  BY <2>1, <2>2
<1>7. ASSUME NEW w \in Workers, Dies(w)
      PROVE  StepFits(v)'
  BY <1>2, <1>3, <1>7 DEF Dies, Freed, Others
<1>8. CASE task' = task
  BY <1>2, <1>8
<1> QED
  BY <1>5, <1>6, <1>7, <1>8, Elsewhere, StepKinds

(* What was worked stays so. *)
LEMMA WorkedStays ==
  ASSUME TypeOK, TasksFit, [Next]_vars, NEW q \in Payments, Worked(q)
  PROVE  Worked(q)'
<1>1. /\ presented \subseteq presented' /\ armed'[q] >= armed[q]
      /\ armed[q] \in Nat /\ armed'[q] \in Nat /\ Len(PlanOf[q]) \in Nat
  BY TypeStep, WorkGrows, PlanLengths DEF TypeOK
<1> QED
  BY <1>1 DEF Worked

LEMMA CaredStep ==
  ASSUME TypeOK, TasksFit, [Next]_vars, WorkInv, NEW p \in Payments, p \notin dropped'
  PROVE  Cared(p)'
<1>1. Worked(p) => Worked(p)'
  BY WorkedStays
<1>2. /\ armed'[p] >= armed[p] /\ armed[p] \in Nat
      /\ armed'[p] \in Nat /\ Len(PlanOf[p]) \in Nat
      /\ \A w \in Workers : StepFits(w) /\ StepFits(w)' /\ TaskFits(w)
  <2>1. \A q \in Payments : armed'[q] >= armed[q]
    BY WorkGrows
  <2>2. \A w \in Workers : StepFits(w)'
    BY <2>1, StepFitsStep DEF WorkInv
  <2> QED
    BY <2>1, <2>2, TypeStep, PlanLengths DEF WorkInv, TypeOK, TasksFit
<1>3. p \notin dropped
  BY StepKinds, Handled, Elsewhere DEF Dies
<1>4. Cared(p)
  BY <1>3 DEF WorkInv
<1>5. ASSUME caseRows'[p] = caseRows[p], diagnoses'[p] = diagnoses[p],
             \A v \in Workers : task[v].payment = p => task'[v] = task[v]
      PROVE  Cared(p)'
  BY <1>1, <1>4, <1>5 DEF Cared, Working, Finishing
<1>6. \A v \in Workers : Finishing(v, p) => Working(v, p)
  BY <1>2 DEF Finishing, Working, TaskFits
<1>7. ASSUME NEW w \in Workers, Handler(w)
      PROVE  Cared(p)'
  <2> DEFINE q == task[w].payment
  <2>1. /\ q \in Payments /\ sent' = sent
        /\ SeenDoes(w) \/ FilingDoes(w) \/ MarkDoes(w) \/ ReadDoes(w) \/ DiagnosisDoes(w)
           \/ ScheduleDoes(w) \/ HoldDoes(w) \/ CancelDoes(w) \/ CloseDoes(w)
    BY <1>7, Handled
  <2>2. Others(w)
    BY <1>7, <2>1 DEF SeenDoes, FilingDoes, MarkDoes, ReadDoes, DiagnosisDoes, ScheduleDoes,
       HoldDoes, CancelDoes, CloseDoes, Freed, Moved
  <2>3. \A v \in Workers : v # w => /\ Working(v, p) => Working(v, p)'
                                    /\ Finishing(v, p) => Finishing(v, p)'
    BY <2>2 DEF Others, Working, Finishing
  <2>4. CASE q # p
    <3>1. caseRows'[p] = caseRows[p] /\ diagnoses'[p] = diagnoses[p]
      BY <2>1, <2>4 DEF SeenDoes, FilingDoes, MarkDoes, ReadDoes, DiagnosisDoes, ScheduleDoes,
         HoldDoes, CancelDoes, CloseDoes
    <3> QED  BY <1>5, <2>2, <2>4, <3>1 DEF Others
  <2>5. ASSUME Finishing(w, p)', task'[w].event \notin PaidEvents
        PROVE  Cared(p)'
    BY <2>5 DEF Cared, Finishing, Working
  <2>6. ASSUME Worked(p)'
        PROVE  Cared(p)'
    BY <2>6 DEF Cared
  <2>7. ASSUME UNCHANGED <<caseRows, diagnoses>>, ~Working(w, p)
        PROVE  Cared(p)'
    BY <1>1, <1>4, <1>6, <2>3, <2>7 DEF Cared, Working, Finishing
  <2>8. CASE q = p
    <3>1. CASE SeenDoes(w) \/ CancelDoes(w) \/ CloseDoes(w)
      BY <2>7, <3>1 DEF SeenDoes, CancelDoes, CloseDoes, Working
    <3>2. CASE FilingDoes(w)
      <4>1. ~Working(w, p) /\ diagnoses' = diagnoses
        BY <3>2 DEF FilingDoes, Working
      <4>2. diagnoses'[p] > 0 => Worked(p)' \/ \E v \in Workers : Finishing(v, p)'
        BY <1>1, <1>4, <1>6, <2>3, <4>1 DEF Cared, Working, Finishing
      <4>3. CASE caseRows'[p] = caseRows[p]
        <5>1. caseRows'[p] > 0 => Worked(p)' \/ \E v \in Workers : Working(v, p)'
          BY <1>1, <1>4, <2>3, <4>1, <4>3 DEF Cared, Working
        <5> QED  BY <4>2, <5>1 DEF Cared
      <4>4. CASE caseRows'[p] # caseRows[p]
        <5>1. Working(w, p)'
          BY <2>8, <3>2, <4>4 DEF FilingDoes, Working, Moved
        <5> QED  BY <4>2, <5>1 DEF Cared
      <4> QED  BY <4>3, <4>4
    <3>3. CASE MarkDoes(w)
      <4>1. /\ UNCHANGED <<caseRows, diagnoses>> /\ ~Finishing(w, p)
            /\ Working(w, p) => Working(w, p)'
        BY <3>3 DEF MarkDoes, Finishing, Working, Moved
      <4>2. diagnoses'[p] > 0 => Worked(p)' \/ \E v \in Workers : Finishing(v, p)'
        BY <1>1, <1>4, <2>3, <4>1 DEF Cared, Working, Finishing
      <4>3. caseRows'[p] > 0 => Worked(p)' \/ \E v \in Workers : Working(v, p)'
        BY <1>1, <1>4, <2>3, <4>1 DEF Cared, Working, Finishing
      <4> QED  BY <4>2, <4>3 DEF Cared
    <3>4. CASE ReadDoes(w)
      <4>1. UNCHANGED <<caseRows, diagnoses>> /\ ~Finishing(w, p)
        BY <3>4 DEF ReadDoes, Finishing
      <4>2. diagnoses'[p] > 0 => Worked(p)' \/ \E v \in Workers : v # w /\ Finishing(v, p)
        BY <1>1, <1>4, <4>1 DEF Cared
      <4>3. diagnoses'[p] > 0 => Worked(p)' \/ \E v \in Workers : Finishing(v, p)'
        BY <2>3, <4>2 DEF Finishing
      <4>4. CASE diagnoses[p] > 0 /\ Freed(w)
        <5>1. Worked(p)' \/ \E v \in Workers : Working(v, p)'
          BY <1>6, <2>3, <4>1, <4>2, <4>4 DEF Working, Finishing
        <5> QED  BY <4>3, <5>1 DEF Cared
      <4>5. CASE Moved(w, "hold") \/ Moved(w, "diagnose")
        <5>1. Working(w, p)'
          BY <2>8, <3>4, <4>5 DEF ReadDoes, Moved, Working
        <5> QED  BY <4>3, <5>1 DEF Cared
      <4> QED  BY <2>8, <3>4, <4>4, <4>5 DEF ReadDoes
    <3>5. CASE DiagnosisDoes(w)
      BY <2>5, <2>8, <3>5 DEF DiagnosisDoes, Moved, Finishing
    <3>6. CASE ScheduleDoes(w)
      <4>1. CASE task[w].next = Len(PlanOf[p])
        <5>1. /\ PlanOf[p] # <<>> /\ armed[p] >= task[w].next - 1
              /\ armed'[p] = armed[p] + 1
          BY <1>2, <2>8, <3>6 DEF ScheduleDoes, StepFits
        <5>2. armed'[p] >= Len(PlanOf[p])
          BY <1>2, <4>1, <5>1
        <5> QED  BY <2>6, <5>1, <5>2 DEF Worked
      <4>2. CASE task[w].next # Len(PlanOf[p])
        BY <2>5, <2>8, <3>6, <4>2 DEF ScheduleDoes, Finishing
      <4> QED  BY <4>1, <4>2
    <3>7. CASE HoldDoes(w)
      <4>1. PlanOf[p] = <<>> /\ p \in presented'
        BY <1>2, <2>8, <3>7 DEF HoldDoes, StepFits
      <4>2. armed'[p] >= Len(PlanOf[p])
        BY <1>2, <4>1
      <4> QED  BY <2>6, <4>1, <4>2 DEF Worked
    <3> QED  BY <2>1, <3>1, <3>2, <3>3, <3>4, <3>5, <3>6, <3>7
  <2> QED  BY <2>4, <2>8
<1>8. ASSUME NEW w \in Workers, TakesUp(w), UNCHANGED tables
      PROVE  Cared(p)'
  <2>1. task[w].payment = None /\ p # None
    BY <1>2, <1>8, IngestAssumption DEF TakesUp, TaskFits, IngestAssumption
  <2> QED  BY <1>5, <1>8, <2>1 DEF TakesUp, Others, tables
<1>9. ASSUME NEW w \in Workers, Dies(w), UNCHANGED tables
      PROVE  Cared(p)'
  <2>1. task[w].payment # p
    BY <1>9 DEF Dies
  <2> QED  BY <1>5, <1>9, <2>1 DEF Dies, Freed, Others, tables
<1>10. CASE UNCHANGED <<caseRows, diagnoses, task>>
  BY <1>5, <1>10
<1> QED
  BY <1>7, <1>8, <1>9, <1>10, Elsewhere, StepKinds

(* A pass finds nothing to do on a case that is quiet: it may only look, and let go of a
   row that was cancelled. *)
LEMMA QuietStays ==
  ASSUME TypeOK, NEW s \in Passes, Pass(s), NEW p \in Payments, Quiet(p)
  PROVE  Quiet(p)' /\ caseState'[p] = caseState[p]
<1>1. /\ OtherHands(s) /\ rows \in [Payments -> SUBSET Rows] /\ rows[p] = {}
      /\ finished \in [Payments -> SUBSET Rows] /\ caseState \in [Payments -> States]
      /\ \A t \in Passes : ~Acting(t, p)
      /\ Free.payment = None /\ None # p
  BY Passing, HandFacts, IngestAssumption DEF TypeOK, Quiet, IngestAssumption
<1>2. ASSUME hand'[s].payment # p, rows'[p] = {}, finished'[p] = finished[p],
             caseState'[p] = caseState[p]
      PROVE  Quiet(p)' /\ caseState'[p] = caseState[p]
  BY <1>1, <1>2 DEF Quiet, Acting, OtherHands
<1>3. CASE LeaseDoes(s) \/ LeaveDoes(s)
  BY <1>1, <1>2, <1>3 DEF LeaseDoes, LeaveDoes
<1>4. ASSUME RowIn(s), hand[s].payment = p
      PROVE  hand[s].step = "taken" /\ hand[s].row \notin rows[p] \cup finished[p]
  BY <1>1, <1>4 DEF Acting
<1>5. CASE RowIn(s) /\ (ReadDoesAgain(s) \/ SendDoes(s))
  BY <1>1, <1>2, <1>4, <1>5 DEF ReadDoesAgain, SendDoes
<1>6. CASE RowIn(s) /\ (ReturnDoes(s) \/ RefuseDoes(s) \/ HeldDoes(s))
  BY <1>1, <1>2, <1>4, <1>6 DEF RowIn, ReturnDoes, RefuseDoes, HeldDoes, Unspent
<1>7. CASE RowIn(s) /\ FinishDoes(s)
  BY <1>1, <1>2, <1>4, <1>7 DEF RowIn, FinishDoes, Spend
<1> QED
  BY <1>3, <1>5, <1>6, <1>7, Passing

(* No answer is taken back, and the endpoint answers for a link it has closed the case of. *)
LEMMA AnswersGrow ==
  ASSUME TypeOK, NEW w \in Workers, Handler(w)
  PROVE  answered \subseteq answered'
  BY DEF Handler, Seen, AfterSeen, Reject, LookUp, Insert, Mark, ReadDiagnosis, RecordDiagnosis,
     Schedule, Hold, CancelRows, Close, GoTo, Answer

LEMMA Closing ==
  ASSUME NEW w \in Workers, Handler(w), task[w].step = "close", task[w].event # None
  PROVE  task[w].event \in answered'
<1>1. Close(w)
  BY DEF Handler, Seen, LookUp, Insert, Mark, ReadDiagnosis, RecordDiagnosis, Schedule, Hold,
     CancelRows, At
<1> QED
  BY <1>1 DEF Close, Answer

(* Whatever a step is, it takes no payment off the exceptions. *)
LEMMA StillExcepted ==
  ASSUME TypeOK, TasksFit, [Next]_vars
  PROVE  Excepted \subseteq Excepted'
<1>1. ASSUME NEW w \in Workers, Handler(w)
      PROVE  Excepted \subseteq Excepted'
  BY <1>1, Handled DEF Excepted, CancelDoes
<1>2. ASSUME (\E s \in Passes : Pass(s)) \/ (\E p \in WrittenTo : WriteElsewhere(p))
      PROVE  Excepted \subseteq Excepted'
  <2>1. disturbed \subseteq disturbed'
    <3>1. ASSUME NEW s \in Passes, Pass(s)
          PROVE  disturbed' = disturbed
      BY <3>1 DEF Pass, Lease, ReadAgain, Refuse, Send, Return, Finish, HoldRetried, PassDies
    <3>2. ASSUME NEW p \in WrittenTo, WriteElsewhere(p)
          PROVE  disturbed \subseteq disturbed'
      BY <3>2 DEF WriteElsewhere, ArmRow, CancelElsewhere, SetState, Disturbs
    <3> QED  BY <1>2, <3>1, <3>2
  <2> QED  BY <1>2, <2>1, Elsewhere DEF Excepted
<1> QED
  BY <1>1, <1>2, StepKinds DEF Excepted, Dies

(* The link was in a message, so its failure is on file, and worked or in two hands. *)
LEMMA PaidFitsStep ==
  ASSUME IngestInv, [Next]_vars, WorkInv, NEW e \in PaidEvents,
         PaymentOf[e] \notin Excepted'
  PROVE  PaidFits(e)'
<1> DEFINE p == PaymentOf[e]
           Atop == \E w \in Workers : task[w].event = e /\ task[w].step \in {"cancel", "close"}
<1>1. /\ p \in Payments /\ e \in Events /\ e # None /\ p # None
      /\ TypeOK /\ TasksFit /\ TablesFit
      /\ p \notin Excepted
  BY StillExcepted, IngestAssumption DEF IngestInv, IngestAssumption
<1>2. /\ PaidFits(e) /\ Cared(p) /\ PlanFits(p)
      /\ Worked(p) => Worked(p)'
      /\ armed[p] \in Nat /\ Len(PlanOf[p]) \in Nat
      /\ \A w \in Workers : TaskFits(w) /\ StepFits(w)
      /\ \A v, w \in Workers : task[v].payment = p /\ task[w].payment = p => v = w
  <2>1. armed[p] \in Nat /\ Len(PlanOf[p]) \in Nat
    BY <1>1, PlanLengths DEF TypeOK
  <2>2. Worked(p) => Worked(p)'
    BY <1>1, WorkedStays
  <2> QED
    BY <1>1, <2>1, <2>2 DEF IngestInv, WorkInv, TasksFit, PlanFollowed, OneHand, Excepted
<1>3. \A v \in Workers : task[v].event = e =>
        task[v].payment = p /\ task[v].step \in {"seen", "mark", "cancel", "close"}
  BY <1>1, <1>2 DEF TaskFits
(* a step that takes the event no further, and leaves what is quiet so *)
<1>4. ASSUME \A v \in Workers : task[v].event = e => task'[v] = task[v],
             \A v \in Workers : task'[v].event = e => task'[v] = task[v],
             Quiet(p) /\ (e \in answered \/ Atop) => Quiet(p)',
             Quiet(p) /\ e \in answered /\ caseState[p] = "recovered"
               => caseState'[p] = "recovered",
             e \in processed' <=> e \in processed,
             e \in answered' <=> e \in answered
      PROVE  PaidFits(e)'
  <2>1. \A v \in Workers : task'[v].event = e =>
          /\ Worked(p)'
          /\ task'[v].step = "close" => Quiet(p)'
          /\ task'[v].step \in {"cancel", "close"} => e \in processed'
    BY <1>2, <1>4 DEF PaidFits
  <2>2. e \in processed' =>
          /\ Worked(p)'
          /\ \/ e \in answered'
             \/ \E v \in Workers : task'[v].event = e /\ task'[v].step \in {"cancel", "close"}
    BY <1>2, <1>4 DEF PaidFits
  <2>3. e \in answered' => e \in processed' /\ caseState'[p] = "recovered" /\ Quiet(p)'
    BY <1>2, <1>4 DEF PaidFits
  <2> QED  BY <2>1, <2>2, <2>3 DEF PaidFits
<1>5. ASSUME NEW w \in Workers, Handler(w)
      PROVE  PaidFits(e)'
  <2> DEFINE q == task[w].payment
             f == task[w].event
  <2>1. /\ q \in Payments /\ UNCHANGED <<hand, finished, sent, overlapped, dropped>>
        /\ SeenDoes(w) \/ FilingDoes(w) \/ MarkDoes(w) \/ ReadDoes(w) \/ DiagnosisDoes(w)
           \/ ScheduleDoes(w) \/ HoldDoes(w) \/ CancelDoes(w) \/ CloseDoes(w)
    BY <1>1, <1>5, Handled
  <2>2. /\ Others(w)
        /\ task'[w].event \in {f, None}
    BY <2>1, IdleFacts DEF SeenDoes, FilingDoes, MarkDoes, ReadDoes, DiagnosisDoes, ScheduleDoes,
       HoldDoes, CancelDoes, CloseDoes, Freed, Moved
  <2>3. rows'[p] \in {rows[p], {}} => (Quiet(p) => Quiet(p)')
    BY <2>1 DEF Quiet, Acting
  <2>4. CASE f # e
    <3>1. /\ \A v \in Workers : task[v].event = e => task'[v] = task[v]
          /\ \A v \in Workers : task'[v].event = e => task'[v] = task[v]
      BY <1>1, <2>2, <2>4 DEF Others
    <3>2. /\ e \in processed' <=> e \in processed
          /\ e \in answered' => e \in answered
          /\ e \in answered => e \in answered'
      BY <1>1, <1>5, <2>1, <2>4, AnswersGrow DEF SeenDoes, FilingDoes, MarkDoes, ReadDoes, DiagnosisDoes,
         ScheduleDoes, HoldDoes, CancelDoes, CloseDoes
    <3>3. CASE q # p
      <4>1. caseState'[p] = caseState[p] /\ rows'[p] = rows[p]
        BY <1>1, <2>1, <3>3 DEF SeenDoes, FilingDoes, MarkDoes, ReadDoes, DiagnosisDoes,
           ScheduleDoes, HoldDoes, CancelDoes, CloseDoes
      <4> QED  BY <1>4, <2>3, <3>1, <3>2, <4>1
    <3>4. CASE q = p
      <4>1. ~Atop
        BY <1>2, <1>3, <2>4, <3>4
      <4>2. CASE e \notin answered
        BY <1>4, <3>1, <3>2, <4>1, <4>2
      <4>3. CASE e \in answered
        <5>1. Worked(p) /\ caseRows[p] > 0
          <6>1. Worked(p) /\ e \in processed
            BY <1>2, <4>3 DEF PaidFits
          <6> QED  BY <1>1, <6>1 DEF TablesFit
        <5>2. ~ScheduleDoes(w)
          <6> SUFFICES ASSUME ScheduleDoes(w)  PROVE FALSE
            OBVIOUS
          <6>1. armed[p] = task[w].next - 1 /\ task[w].next <= Len(PlanOf[p])
                /\ task[w].next \in Nat
            BY <1>1, <1>2, <3>4 DEF ScheduleDoes, PlanFits, TypeOK
          <6> QED  BY <1>2, <5>1, <6>1 DEF Worked
        <5>3. ~HoldDoes(w)
          BY <1>1, <1>2, <3>4, <5>1 DEF HoldDoes, StepFits, PlanFits, Worked, Excepted
        <5>4. /\ caseState[p] = "recovered" => caseState'[p] = "recovered"
              /\ rows'[p] \in {rows[p], {}}
          <6>1. CASE FilingDoes(w)
            BY <1>1, <5>1, <6>1 DEF FilingDoes
          <6>2. CASE CloseDoes(w) \/ CancelDoes(w)
            BY <1>1, <6>2 DEF CloseDoes, CancelDoes
          <6>3. CASE SeenDoes(w) \/ MarkDoes(w) \/ ReadDoes(w) \/ DiagnosisDoes(w)
            BY <6>3 DEF SeenDoes, MarkDoes, ReadDoes, DiagnosisDoes
          <6> QED  BY <2>1, <5>2, <5>3, <6>1, <6>2, <6>3
        <5> QED  BY <1>4, <2>3, <3>1, <3>2, <5>4
      <4> QED  BY <4>2, <4>3
    <3> QED  BY <3>3, <3>4
  <2>5. CASE f = e
    <3>1. /\ q = p /\ Worked(p)'
          /\ \A v \in Workers : v # w => task[v].event # e /\ task'[v].event # e
      <4>1. \A v \in Workers : v # w => task[v].event # e
        BY <1>2, <1>3, <2>5
      <4> QED  BY <1>2, <1>3, <2>2, <2>5, <4>1 DEF PaidFits, Others
    <3>2. SeenDoes(w) \/ MarkDoes(w) \/ CancelDoes(w) \/ CloseDoes(w)
      BY <2>1, <2>5 DEF FilingDoes, ReadDoes, DiagnosisDoes, ScheduleDoes, HoldDoes
    <3>3. CASE SeenDoes(w)
      <4>1. UNCHANGED <<caseState, rows, processed>> /\ (Quiet(p) => Quiet(p)')
        BY <2>3, <3>3 DEF SeenDoes
      <4>2. /\ e \in processed => e \in answered
            /\ e \in answered => e \in processed /\ caseState[p] = "recovered" /\ Quiet(p)
        BY <1>2, <2>5, <3>1, <3>3 DEF PaidFits, SeenDoes
      <4>3. /\ e \in answered' => e \in processed
            /\ e \in answered => e \in answered'
            /\ task'[w].event = e => task'[w].step \notin {"cancel", "close"}
        BY <1>1, <2>5, <3>3, <4>2, IdleFacts DEF SeenDoes, Freed, Moved
      <4> QED  BY <3>1, <4>1, <4>2, <4>3 DEF PaidFits
    <3>4. CASE MarkDoes(w)
      <4>1. /\ task'[w].event = e /\ task'[w].step = "cancel" /\ e \in processed'
            /\ answered' = answered /\ UNCHANGED <<caseState, rows>>
            /\ (Quiet(p) => Quiet(p)')
        BY <2>3, <2>5, <3>4 DEF MarkDoes, Moved
      <4>2. e \in answered => caseState[p] = "recovered" /\ Quiet(p)
        BY <1>2 DEF PaidFits
      <4> QED  BY <3>1, <4>1, <4>2 DEF PaidFits
    <3>5. CASE CancelDoes(w)
      <4>1. /\ task'[w].event = e /\ task'[w].step = "close" /\ e \in processed'
            /\ answered' = answered /\ caseState' = caseState
        BY <1>2, <2>5, <3>5 DEF CancelDoes, Moved, PaidFits
      <4>2. Quiet(p)'
        <5>1. p \notin disturbed' /\ rows'[p] = {}
          BY <1>1, <3>1, <3>5 DEF CancelDoes, Excepted
        <5> QED  BY <2>1, <3>1, <3>5, <5>1 DEF CancelDoes, Quiet, Acting
      <4>3. e \in answered => caseState[p] = "recovered"
        BY <1>2 DEF PaidFits
      <4> QED  BY <3>1, <4>1, <4>2, <4>3 DEF PaidFits
    <3>6. CASE CloseDoes(w)
      <4>1. /\ caseState'[p] = "recovered" /\ Quiet(p)' /\ e \in processed'
            /\ e \in answered'
        <5>1. Quiet(p) /\ e \in processed
          BY <1>2, <2>5, <3>6 DEF CloseDoes, PaidFits
        <5>2. caseState'[p] = "recovered" /\ rows' = rows /\ processed' = processed
          BY <1>1, <3>1, <3>6 DEF CloseDoes
        <5>3. e \in answered'
          BY <1>1, <1>5, <2>5, <3>6, Closing DEF CloseDoes
        <5> QED  BY <2>3, <5>1, <5>2, <5>3
      <4>2. \A v \in Workers : task'[v].event # e
        BY <1>1, <3>1, <3>6, IdleFacts DEF CloseDoes, Freed
      <4> QED  BY <3>1, <4>1, <4>2 DEF PaidFits
    <3> QED  BY <3>2, <3>3, <3>4, <3>5, <3>6
  <2> QED  BY <2>4, <2>5
<1>6. ASSUME NEW w \in Workers, TakesUp(w), UNCHANGED <<tables, hand, finished, sent, answered>>
      PROVE  PaidFits(e)'
  <2>1. task[w].step = "idle" /\ task[w].event # e /\ Others(w)
    BY <1>1, <1>2, <1>6 DEF TakesUp, TaskFits
  <2>2. UNCHANGED <<caseState, processed>> /\ (Quiet(p) => Quiet(p)')
    BY <1>6 DEF Quiet, Acting
  <2>3. CASE task'[w].event # e
    BY <1>4, <1>6, <2>1, <2>2, <2>3 DEF Others
  <2>4. CASE task'[w].event = e
    <3>1. /\ p \in sent /\ task'[w].step \in {"seen", "open"}
          /\ \A v \in Workers : task[v].payment # p
      BY <1>1, <1>6, <2>4 DEF TakesUp, Excepted
    <3>2. \A v \in Workers : task[v].event # e
      BY <1>3, <3>1
    <3>3. Worked(p)'
      <4>1. caseRows[p] > 0
        BY <1>1, <3>1 DEF TablesFit
      <4> QED
        BY <1>2, <3>1, <4>1 DEF Cared, Working
    <3>4. \A v \in Workers : task'[v].event = e => task'[v].step \in {"seen", "open"}
      BY <2>1, <3>1, <3>2 DEF Others
    <3>5. /\ e \in processed => e \in answered
          /\ e \in answered => e \in processed /\ caseState[p] = "recovered" /\ Quiet(p)
      BY <1>2, <3>2 DEF PaidFits
    <3> QED  BY <1>6, <2>2, <3>3, <3>4, <3>5 DEF PaidFits
  <2> QED  BY <2>3, <2>4
<1>7. ASSUME NEW w \in Workers, Dies(w), UNCHANGED <<tables, hand, finished, sent, answered>>
      PROVE  PaidFits(e)'
  <2>1. task[w].payment # p
    BY <1>1, <1>7 DEF Dies, Excepted
  <2>2. task[w].event # e /\ task'[w].event # e /\ Others(w)
    BY <1>1, <1>3, <1>7, <2>1, IdleFacts DEF Dies, Freed
  <2>3. Quiet(p) => Quiet(p)'
    BY <1>7 DEF Quiet, Acting
  <2> QED  BY <1>4, <1>7, <2>2, <2>3 DEF Others
<1>8. ASSUME NEW s \in Passes, Pass(s)
      PROVE  PaidFits(e)'
  <2>1. UNCHANGED <<task, processed, answered>>
    BY <1>1, <1>8, Elsewhere
  <2>2. Quiet(p) => Quiet(p)' /\ caseState'[p] = caseState[p]
    BY <1>1, <1>8, QuietStays
  <2> QED  BY <1>4, <2>1, <2>2
<1>9. ASSUME NEW q \in WrittenTo, WriteElsewhere(q)
      PROVE  PaidFits(e)'
  <2>1. UNCHANGED <<task, processed, answered, hand, finished>> /\ q \in Payments
    BY <1>9, IngestAssumption DEF WriteElsewhere, ArmRow, CancelElsewhere, SetState, Write,
       IngestAssumption
  <2>2. CASE q # p
    <3>1. rows'[p] = rows[p] /\ caseState'[p] = caseState[p]
      BY <1>1, <1>9, <2>2 DEF WriteElsewhere, ArmRow, CancelElsewhere, SetState, TypeOK
    <3>2. Quiet(p) => Quiet(p)'
      BY <2>1, <3>1 DEF Quiet, Acting
    <3> QED  BY <1>4, <2>1, <3>1, <3>2
  <2>3. CASE q = p /\ CancelElsewhere(p)
    <3>1. rows'[p] = {} /\ caseState' = caseState
      BY <1>1, <2>3 DEF CancelElsewhere, TypeOK
    <3>2. Quiet(p) => Quiet(p)'
      BY <2>1, <3>1 DEF Quiet, Acting
    <3> QED  BY <1>4, <2>1, <3>1, <3>2
  <2>4. CASE q = p /\ ~CancelElsewhere(p)
    <3>1. disturbed' = IF Settled(p) THEN disturbed \cup {p} ELSE disturbed
      BY <1>9, <2>4 DEF WriteElsewhere, ArmRow, SetState, Disturbs
    <3>2. ~Settled(p)
      BY <1>1, <3>1 DEF Excepted
    <3>3. e \notin answered /\ \A w \in Workers : task[w].event = e => task[w].step # "close"
      BY <1>1, <3>2 DEF Settled, At
    <3> QED  BY <1>2, <2>1, <3>3 DEF PaidFits
  <2> QED  BY <1>9, <2>2, <2>3, <2>4
<1>10. CASE UNCHANGED vars
  <2>1. Quiet(p) => Quiet(p)'
    BY <1>10 DEF Quiet, Acting
  <2> QED  BY <1>4, <1>10, <2>1
<1> QED
  BY <1>1, <1>5, <1>6, <1>7, <1>8, <1>9, <1>10, StepKinds

LEMMA WorkInvInit == Init => WorkInv
<1> SUFFICES ASSUME Init
             PROVE  WorkInv
  OBVIOUS
<1>1. \A w \in Workers : task[w].step = "idle" /\ task[w].event = None /\ StepFits(w)
  BY IdleFacts DEF Init, StepFits
<1>2. ASSUME NEW p \in Payments
      PROVE  Cared(p)
  <2>1. caseRows[p] = 0 /\ diagnoses[p] = 0
    BY DEF Init
  <2> QED  BY <2>1 DEF Cared
<1>3. \A e \in PaidEvents : PaidFits(e)
  BY <1>1, IngestAssumption DEF Init, PaidFits, IngestAssumption
<1> QED
  BY <1>1, <1>2, <1>3 DEF WorkInv

LEMMA WorkInvStep == IngestInv /\ WorkInv /\ [Next]_vars => WorkInv'
<1> SUFFICES ASSUME IngestInv, WorkInv, [Next]_vars
             PROVE  WorkInv'
  OBVIOUS
<1>1. TypeOK /\ TasksFit
  BY DEF IngestInv
<1>2. \A p \in Payments : armed'[p] >= armed[p]
  BY <1>1, WorkGrows
<1>3. \A w \in Workers : StepFits(w)'
  BY <1>1, <1>2, StepFitsStep DEF WorkInv
<1>4. \A p \in Payments : p \notin dropped' => Cared(p)'
  BY <1>1, CaredStep
<1>5. \A e \in PaidEvents : PaymentOf[e] \notin Excepted' => PaidFits(e)'
  BY PaidFitsStep
<1> QED
  BY <1>3, <1>4, <1>5 DEF WorkInv

THEOREM WorkInvariant == Spec => []WorkInv
  BY WorkInvInit, WorkInvStep, IngestInvariant, PTL DEF Spec

(* A payment on file is worked, or in some process's hands (agent.py:50): whoever finds
   the case diagnosed and leaves it (agent.py:60) leaves it worked, or to the process
   that diagnosed it. *)
THEOREM OnFileAlwaysWorked == Spec => []OnFileIsWorked
<1>1. WorkInv => OnFileIsWorked
  BY DEF WorkInv, OnFileIsWorked, Cared, Working, InHand
<1> QED
  BY <1>1, WorkInvariant, PTL

(* A paid link closes its case (webhooks.py:119): once Razorpay has its answer the case
   stays recovered with nothing scheduled.  A pass that holds a row of it finds the row
   cancelled at its second look (runner.py:288), and whatever is delivered or handed in
   of the failure finds it diagnosed (agent.py:60).  Excepted are the cases two processes
   had at once or one died on, those a pass was acting on or a reply or a reviewer wrote
   to behind the cancellation, and failures held undiagnosed. *)
THEOREM PaidAlwaysClosed == Spec => []PaidIsClosed
<1>1. WorkInv => PaidIsClosed
  BY IngestAssumption DEF WorkInv, PaidIsClosed, PaidFits, Quiet, Excepted, IngestAssumption
<1> QED
  BY <1>1, WorkInvariant, PTL
===============================================================================
