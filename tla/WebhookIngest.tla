----------------------------- MODULE WebhookIngest -----------------------------
(***************************************************************************)
(* How a failed payment, or one paid through a recovery link, enters the   *)
(* system (ingest/webhooks.py): Razorpay delivers an event, more than once *)
(* if it likes, to any of several server processes; a script may hand the  *)
(* same payment in without an event.  Each transaction of a handler is a   *)
(* step, so handlers interleave between any two of them, and a handler may *)
(* die between any two.  Within a process requests follow one another: the *)
(* endpoint awaits nothing but the body.                                   *)
(*                                                                         *)
(* What handle_failure decides is CaseAgent's business; here it is a plan, *)
(* the rows it schedules one after the other.  Beside the handlers, passes *)
(* of the runner (ActionQueue has them whole) work the rows, and replies,  *)
(* sessions and reviewers write to the cases: what becomes of a case after *)
(* its payment depends on both.                                            *)
(***************************************************************************)
EXTENDS Integers, Sequences

CONSTANTS
  Payments, Events,
  PaymentOf,      \* the payment each event is about
  PaidEvents,     \* the events that are payment_link.paid; the rest payment.failed
  PayloadOf,      \* what each event says of its payment
  Workers,        \* processes
  Passes,         \* passes of the runner
  PlanOf,         \* kinds of the rows a diagnosis schedules; none: the case is held
  Undecided,      \* payments held before a diagnosis: under a stop, or in doubt
  MaxDeliveries,  \* bound on deliveries and on payments handed in by scripts
  MaxCrashes,     \* bound on processes that die
  MaxWrites,      \* bound on what replies, sessions and reviewers write
  WrittenTo,      \* the payments they write to
  WrittenStates,  \* the states they put a case in
  None            \* no event, no payment, no row

Absent == "absent"       \* a field the payload does not have

Payloads == [entity : BOOLEAN, id : BOOLEAN, integral : BOOLEAN,
             currency : {"INR", "USD", Absent}]

States == {"absent", "open", "held-for-human", "recovered", "unrecovered"}
Kinds == {"nudge", "retry"}

ASSUME IngestAssumption ==
  /\ PaymentOf \in [Events -> Payments]
  /\ PayloadOf \in [Events -> Payloads]
  /\ PaidEvents \subseteq Events
  /\ PlanOf \in [Payments -> Seq(Kinds)]
  /\ Undecided \subseteq {p \in Payments : PlanOf[p] = <<>>}
  /\ MaxDeliveries \in Nat /\ MaxCrashes \in Nat /\ MaxWrites \in Nat
  /\ WrittenTo \subseteq Payments /\ WrittenStates \subseteq States \ {"absent"}
  /\ None \notin Events \cup Payments

VARIABLES
  caseRows,       \* rows of cases (and of signals) for each payment
  caseState,
  diagnoses,      \* rows of diagnoses for each payment's case
  rows,           \* rows of its case yet to be settled, leased or not
  processed,      \* table processed_events
  task,           \* what each process is doing
  hand,           \* the row each pass holds, and how far it is with it
  finished,       \* rows that were settled though another pass still holds them
  deliveries, crashes, writes,
  (* what happened, kept for the properties *)
  answered,       \* events Razorpay has a 2xx for
  armed,          \* rows of plans scheduled so far, by payment
  presented,      \* payments a handler put before a person
  sent,           \* payments whose customer has a message with a link
  overlapped,     \* payments two processes worked on at once
  dropped,        \* payments a process died on
  disturbed       \* payments written to behind the cancellation of a paid link

tables == <<caseRows, caseState, diagnoses, rows, processed>>
bounded == <<deliveries, crashes, writes>>
deeds == <<answered, armed, presented, sent>>
marks == <<overlapped, dropped, disturbed>>
vars == <<tables, task, hand, finished, bounded, deeds, marks>>

Idle == [event |-> None, payment |-> None, step |-> "idle", next |-> 0]
Free == [payment |-> None, row |-> None, step |-> "free"]

Init ==
  /\ caseRows = [p \in Payments |-> 0]
  /\ caseState = [p \in Payments |-> "absent"]
  /\ diagnoses = [p \in Payments |-> 0]
  /\ rows = [p \in Payments |-> {}]
  /\ processed = {}
  /\ task = [w \in Workers |-> Idle]
  /\ hand = [s \in Passes |-> Free]
  /\ finished = [p \in Payments |-> {}]
  /\ deliveries = 0 /\ crashes = 0 /\ writes = 0
  /\ answered = {}
  /\ armed = [p \in Payments |-> 0]
  /\ presented = {} /\ sent = {}
  /\ overlapped = {} /\ dropped = {} /\ disturbed = {}

-----------------------------------------------------------------------------
InHand(p) == \E w \in Workers : task[w].payment = p

(* the endpoint returns, or the script's call does *)
Answer(w) ==
  /\ task' = [task EXCEPT ![w] = Idle]
  /\ answered' = answered \cup ({task[w].event} \ {None})

GoTo(w, step) ==
  /\ task' = [task EXCEPT ![w].step = step]
  /\ UNCHANGED answered

At(w, step) == task[w].step = step

Take(w, e, p, step) ==
  /\ At(w, "idle") /\ deliveries < MaxDeliveries
  /\ deliveries' = deliveries + 1
  /\ task' = [task EXCEPT ![w] = [event |-> e, payment |-> p, step |-> step, next |-> 1]]
  /\ overlapped' = IF InHand(p) THEN overlapped \cup {p} ELSE overlapped
  /\ UNCHANGED <<tables, hand, finished, crashes, writes, deeds, dropped, disturbed>>

(* a signed request; a link is paid only once a message carried it *)
Deliver(w, e) ==
  /\ e \in PaidEvents => PaymentOf[e] \in sent
  /\ Take(w, e, PaymentOf[e], "seen")

(* scripts/session.py and inject.py call handle_failure themselves *)
HandIn(w, p) == Take(w, None, p, "open")

(* from_payment_failed: no payment, no id, no amount in paise, or money that is not
   Indian; a currency left out is taken for rupees *)
Unsupported(e) ==
  LET payload == PayloadOf[e]
  IN \/ ~payload.entity \/ ~payload.id \/ ~payload.integral
     \/ payload.currency \notin {"INR", Absent}

(* HTTP 400: the process is free, and Razorpay will send the event again *)
Reject(w) == task' = [task EXCEPT ![w] = Idle] /\ UNCHANGED answered

AfterSeen(w) ==
  LET e == task[w].event
  IN IF e \in processed THEN Answer(w)
     ELSE IF e \in PaidEvents THEN GoTo(w, "mark")
     ELSE IF Unsupported(e) THEN Reject(w)
     ELSE GoTo(w, "open")

(* what no handler writes, and what a handler leaves alone that only reads *)
Aside == <<hand, finished, bounded, sent, marks>>
Untouched == <<tables, armed, presented, Aside>>

(* mutation: an event is claimed as soon as it is looked up *)
ClaimOnSight(w) ==
  /\ At(w, "seen")
  /\ AfterSeen(w)
  /\ processed' = processed \cup {task[w].event}
  /\ UNCHANGED <<caseRows, caseState, diagnoses, rows, armed, presented, Aside>>

(* event_seen: a repeat is answered and goes no further; what cannot be normalised
   is refused before anything is written about it *)
Seen(w) ==
  /\ At(w, "seen")
  /\ AfterSeen(w)
  /\ UNCHANGED Untouched

(* mutation: an event is marked whether or not there was one *)
AlwaysMark(w) == "mark"

AfterOpen(w) == IF task[w].event = None THEN "read" ELSE "mark"

(* open_case_or_get: the lock is the process's own, so another process may insert
   between the look and the insert *)
LookUp(w) ==
  /\ At(w, "open")
  /\ GoTo(w, IF caseRows[task[w].payment] > 0 THEN AfterOpen(w) ELSE "insert")
  /\ UNCHANGED Untouched

(* mutation: no unique index on signals.payment_id *)
RowsAfterBlindInsert(p) == [caseRows EXCEPT ![p] = @ + 1]

(* the unique index turns the loser of the race to the winner's case *)
RowsAfterInsert(p) == IF caseRows[p] > 0 THEN caseRows ELSE [caseRows EXCEPT ![p] = 1]

Insert(w) ==
  /\ At(w, "insert")
  /\ caseRows' = RowsAfterInsert(task[w].payment)
  /\ caseState' = IF caseRows[task[w].payment] > 0 THEN caseState
                  ELSE [caseState EXCEPT ![task[w].payment] = "open"]
  /\ GoTo(w, AfterOpen(w))
  /\ UNCHANGED <<diagnoses, rows, processed, armed, presented, Aside>>

(* mark_event, before the work *)
Mark(w) ==
  /\ At(w, "mark")
  /\ processed' = processed \cup {task[w].event}
  /\ GoTo(w, IF task[w].event \in PaidEvents THEN "cancel" ELSE "read")
  /\ UNCHANGED <<caseRows, caseState, diagnoses, rows, armed, presented, Aside>>

-----------------------------------------------------------------------------
(* handle_failure *)

(* mutation: a case that exists counts as a case that was worked *)
AlreadyOpened(p) == caseRows[p] > 0

(* mutation: every delivery is worked *)
NeverProcessed(p) == FALSE

AlreadyProcessed(p) == diagnoses[p] > 0

ReadDiagnosis(w) ==
  /\ At(w, "read")
  /\ IF AlreadyProcessed(task[w].payment) THEN Answer(w)
     ELSE GoTo(w, IF task[w].payment \in Undecided THEN "hold" ELSE "diagnose")
  /\ UNCHANGED Untouched

RecordDiagnosis(w) ==
  /\ At(w, "diagnose")
  /\ diagnoses' = [diagnoses EXCEPT ![task[w].payment] = @ + 1]
  /\ GoTo(w, IF PlanOf[task[w].payment] = <<>> THEN "hold" ELSE "schedule")
  /\ UNCHANGED <<caseRows, caseState, rows, processed, armed, presented, Aside>>

(* rows are numbered as they are written *)
NewRow(p, kind) == [kind |-> kind, id |-> armed[p] + writes]

(* schedule_action, once for each row of the plan *)
Schedule(w) ==
  LET p == task[w].payment
  IN /\ At(w, "schedule")
     /\ rows' = [rows EXCEPT ![p] = @ \cup {NewRow(p, PlanOf[p][task[w].next])}]
     /\ armed' = [armed EXCEPT ![p] = @ + 1]
     /\ IF task[w].next = Len(PlanOf[p]) THEN Answer(w)
        ELSE task' = [task EXCEPT ![w].next = @ + 1] /\ UNCHANGED answered
     /\ UNCHANGED <<caseRows, caseState, diagnoses, processed, presented, Aside>>

Hold(w) ==
  /\ At(w, "hold")
  /\ caseState' = [caseState EXCEPT ![task[w].payment] = "held-for-human"]
  /\ presented' = presented \cup {task[w].payment}
  /\ Answer(w)
  /\ UNCHANGED <<caseRows, diagnoses, rows, processed, armed, Aside>>

-----------------------------------------------------------------------------
(* mark_recovered: the rows first, then the state *)

(* a pass past its second look at a row of p, or one that will find its row settled and
   not cancelled: it acts whatever becomes of the row meanwhile *)
Acting(s, p) ==
  hand[s].payment = p /\ (hand[s].step # "taken" \/ hand[s].row \in finished[p])

Disturbs(p, when) == disturbed' = IF when THEN disturbed \cup {p} ELSE disturbed

CancelRows(w) ==
  LET p == task[w].payment
  IN /\ At(w, "cancel")
     /\ rows' = [rows EXCEPT ![p] = {}]
     /\ Disturbs(p, \E s \in Passes : Acting(s, p))
     /\ GoTo(w, "close")
     /\ UNCHANGED <<caseRows, caseState, diagnoses, processed, armed, presented, hand,
                    finished, bounded, sent, overlapped, dropped>>

Close(w) ==
  /\ At(w, "close")
  /\ caseState' = [caseState EXCEPT ![task[w].payment] = "recovered"]
  /\ Answer(w)
  /\ UNCHANGED <<caseRows, diagnoses, rows, processed, armed, presented, Aside>>

Crash(w) ==
  /\ ~At(w, "idle") /\ crashes < MaxCrashes
  /\ crashes' = crashes + 1
  /\ task' = [task EXCEPT ![w] = Idle]
  /\ dropped' = dropped \cup {task[w].payment}
  /\ UNCHANGED <<tables, hand, finished, deliveries, writes, deeds, overlapped,
                 disturbed>>

-----------------------------------------------------------------------------
(* The runner, row by row.  Leases are left out: one that has run out lets another pass
   have the row, so any pass may have any row. *)
NoHandler == <<caseRows, diagnoses, processed, task, bounded, answered, armed, presented,
               marks>>

Step(s, step) == hand' = [hand EXCEPT ![s].step = step]
LetGo(s) == hand' = [hand EXCEPT ![s] = Free]

(* a settled row that nobody holds is never looked at again *)
Spend(s) ==
  LET p == hand[s].payment
      row == hand[s].row
  IN /\ rows' = [rows EXCEPT ![p] = @ \ {row}]
     /\ finished' = IF \E t \in Passes \ {s} : hand[t].payment = p /\ hand[t].row = row
                    THEN [finished EXCEPT ![p] = @ \cup {row}] ELSE finished

Unspent(s) ==
  finished' = [finished EXCEPT ![hand[s].payment] = @ \ {hand[s].row}]

Lease(s, p, row) ==
  /\ hand[s].step = "free" /\ row \in rows[p]
  /\ hand' = [hand EXCEPT ![s] = [payment |-> p, row |-> row, step |-> "taken"]]
  /\ UNCHANGED <<NoHandler, finished, caseState, rows, sent>>

(* mutation: the row is not read again *)
NotReadAgain(s) == TRUE

(* not cancelled: pending, leased, or settled by another pass *)
StillOpen(s) ==
  LET p == hand[s].payment IN hand[s].row \in rows[p] \cup finished[p]

ReadAgain(s) ==
  /\ hand[s].step = "taken"
  /\ IF StillOpen(s) THEN Step(s, "running") ELSE LetGo(s)
  /\ UNCHANGED <<NoHandler, finished, caseState, rows, sent>>

(* contact_suppression: a row of someone under a stop is settled as cancelled *)
Refuse(s) ==
  LET p == hand[s].payment
  IN /\ hand[s].step = "running"
     /\ rows' = [rows EXCEPT ![p] = @ \ {hand[s].row}]
     /\ Unspent(s) /\ LetGo(s)
     /\ UNCHANGED <<NoHandler, caseState, sent>>

(* the executor of a nudge delivers its message *)
Send(s) ==
  /\ hand[s].step = "running" /\ hand[s].row.kind = "nudge"
  /\ sent' = sent \cup {hand[s].payment}
  /\ Step(s, "told")
  /\ UNCHANGED <<NoHandler, finished, caseState, rows>>

(* a nudge outside contact hours or the budget goes back, found by its id alone *)
Return(s) ==
  LET p == hand[s].payment
  IN /\ hand[s].step = "running" /\ hand[s].row.kind = "nudge"
     /\ rows' = [rows EXCEPT ![p] = @ \cup {hand[s].row}]
     /\ Unspent(s) /\ LetGo(s)
     /\ UNCHANGED <<NoHandler, caseState, sent>>

(* finish_action: a message was sent, a row has no executor or its executor raised, or
   a retry met no adapter, which holds its case *)
Finish(s) ==
  /\ hand[s].step \in {"running", "told"}
  /\ Spend(s)
  /\ \/ LetGo(s)
     \/ hand[s].step = "running" /\ hand[s].row.kind = "retry" /\ Step(s, "hold")
  /\ UNCHANGED <<NoHandler, caseState, sent>>

(* whatever the state is by now *)
HoldRetried(s) ==
  /\ hand[s].step = "hold"
  /\ caseState' = [caseState EXCEPT ![hand[s].payment] = "held-for-human"]
  /\ LetGo(s)
  /\ UNCHANGED <<NoHandler, finished, rows, sent>>

(* a pass dies, and its lease runs out *)
PassDies(s) ==
  /\ hand[s].step # "free"
  /\ LetGo(s)
  /\ UNCHANGED <<NoHandler, finished, caseState, rows, sent>>

Pass(s) ==
  \/ \E p \in Payments : \E row \in rows[p] : Lease(s, p, row)
  \/ ReadAgain(s) \/ Refuse(s) \/ Send(s) \/ Return(s) \/ Finish(s)
  \/ HoldRetried(s) \/ PassDies(s)

-----------------------------------------------------------------------------
(* Replies, sessions and reviewers, one transaction at a time: the decisions behind
   them are CaseAgent's. *)
(* the rows of p are cancelled for a paid link *)
Settled(p) ==
  \E e \in PaidEvents : PaymentOf[e] = p /\
    (e \in answered \/ \E w \in Workers : task[w].event = e /\ At(w, "close"))

Write(p) ==
  /\ caseRows[p] > 0 /\ writes < MaxWrites
  /\ writes' = writes + 1
  /\ UNCHANGED <<caseRows, diagnoses, processed, task, hand, finished, deliveries, crashes,
                 deeds, overlapped, dropped>>

(* a promise, an approval, or the link at the end of the retries *)
ArmRow(p, kind) ==
  /\ Write(p)
  /\ rows' = [rows EXCEPT ![p] = @ \cup {NewRow(p, kind)}]
  /\ Disturbs(p, Settled(p))
  /\ UNCHANGED caseState

(* a stop, a reply that needs a person, or a debit found paid after all *)
CancelElsewhere(p) ==
  /\ Write(p)
  /\ rows' = [rows EXCEPT ![p] = {}]
  /\ UNCHANGED <<caseState, disturbed>>

SetState(p, state) ==
  /\ Write(p)
  /\ caseState' = [caseState EXCEPT ![p] = state]
  /\ Disturbs(p, Settled(p))
  /\ UNCHANGED rows

WriteElsewhere(p) ==
  \/ \E kind \in Kinds : ArmRow(p, kind)
  \/ \E state \in WrittenStates : SetState(p, state)
  \/ CancelElsewhere(p)

-----------------------------------------------------------------------------
Handler(w) ==
  \/ Seen(w) \/ LookUp(w) \/ Insert(w) \/ Mark(w)
  \/ ReadDiagnosis(w) \/ RecordDiagnosis(w) \/ Schedule(w) \/ Hold(w)
  \/ CancelRows(w) \/ Close(w)

Next ==
  \/ \E w \in Workers, e \in Events : Deliver(w, e)
  \/ \E w \in Workers, p \in Payments : HandIn(w, p)
  \/ \E w \in Workers : Handler(w) \/ Crash(w)
  \/ \E s \in Passes : Pass(s)
  \/ \E p \in WrittenTo : WriteElsewhere(p)

Spec == Init /\ [][Next]_vars

-----------------------------------------------------------------------------
Steps == {"idle", "seen", "open", "insert", "mark", "read", "diagnose", "schedule",
          "hold", "cancel", "close"}

Rows == [kind : Kinds, id : Nat]

(* Every table holds what its schema gives it, a process is busy with an event, a
   payment, or nothing, and a pass with a row. *)
TypeOK ==
  /\ caseRows \in [Payments -> Nat]
  /\ caseState \in [Payments -> States]
  /\ diagnoses \in [Payments -> Nat]
  /\ rows \in [Payments -> SUBSET Rows]
  /\ processed \subseteq Events
  /\ task \in [Workers -> [event : Events \cup {None}, payment : Payments \cup {None},
                           step : Steps, next : Nat]]
  /\ hand \in [Passes -> [payment : Payments, row : Rows,
                          step : {"taken", "running", "told", "hold"}] \cup {Free}]
  /\ finished \in [Payments -> SUBSET Rows]
  /\ deliveries \in 0 .. MaxDeliveries /\ crashes \in 0 .. MaxCrashes
  /\ writes \in 0 .. MaxWrites
  /\ answered \subseteq Events
  /\ armed \in [Payments -> Nat]
  /\ presented \subseteq Payments /\ sent \subseteq Payments
  /\ overlapped \subseteq Payments /\ dropped \subseteq Payments
  /\ disturbed \subseteq Payments

(* "A duplicate must not open a second case or it would be counted twice in
   recovery figures" (store.py:289), whichever processes it reaches. *)
OneCasePerPayment == \A p \in Payments : caseRows[p] <= 1

(* What Razorpay has a 2xx for is on disk (webhooks.py:105), wherever processes
   died: it need not be sent again. *)
AnsweredIsOnFile == \A e \in answered : caseRows[PaymentOf[e]] > 0

Worked(p) ==
  /\ armed[p] >= Len(PlanOf[p])
  /\ PlanOf[p] = <<>> => p \in presented

(* A failure that happened once is worked once (agent.py:79): redelivered,
   delivered under another id or handed in again, it schedules nothing twice,
   unless two processes have it in hand at the same time. *)
WorkedOnce == \A p \in Payments \ overlapped : armed[p] <= Len(PlanOf[p])

(* A payment on file is worked, or in some process's hands (agent.py:50): no order
   of deliveries leaves a case that everyone takes for processed.  Cases a process
   died on are left out, and are LostWork's concern. *)
OnFileIsWorked ==
  \A p \in Payments \ dropped : caseRows[p] > 0 => Worked(p) \/ InHand(p)

(* A paid link closes its case (webhooks.py:119): when Razorpay is answered, and ever
   after, the case is recovered and nothing is left scheduled, whichever rows are
   leased at the time and whatever is delivered again.  Left out by name: cases two
   processes had at once or one died on; cases a pass was acting on, past its second
   look, when the rows were cancelled (or was to act on, its row settled by another
   pass); cases a reply or a reviewer wrote to behind it;
   and failures held undiagnosed, which every delivery holds again. *)
PaidIsClosed ==
  \A e \in PaidEvents \cap answered :
    LET p == PaymentOf[e]
    IN p \notin overlapped \cup dropped \cup disturbed \cup Undecided =>
         caseState[p] = "recovered" /\ rows[p] = {}

-----------------------------------------------------------------------------
(* webhooks.py:105: the signal is durable before any work so that, "if this process
   dies mid-diagnosis, the event should already be on disk rather than depending on
   that retry arriving".  An answered failure is worked, or in hand. *)
AnsweredIsWorked ==
  \A e \in answered \ PaidEvents : Worked(PaymentOf[e]) \/ InHand(PaymentOf[e])
=============================================================================
