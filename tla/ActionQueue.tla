----------------------------- MODULE ActionQueue -----------------------------
(***************************************************************************)
(* The durable queue of scheduled actions (store.py, pending_actions) and  *)
(* the runner that executes it (runner.py, run_due), with every other      *)
(* writer of the same rows and of the states of their cases: the agent     *)
(* that schedules and cancels actions and takes cases out of automation,   *)
(* stops that suppress contact, a person who lifts them or decides about a *)
(* case that was held, and the payment that closes a case.                 *)
(*                                                                         *)
(* Each method of Store is one transaction, hence one step.  A pass of the *)
(* runner is a sequence of such steps, so several passes ("workers") and   *)
(* the agent interleave between any two of them; a pass may die anywhere.  *)
(* The clock moves while a pass is under way, but a pass reads it once, at *)
(* its start, and keeps that instant as passNow.                           *)
(***************************************************************************)
EXTENDS ExecutionBands

CONSTANTS
  Actions,        \* row ids of pending_actions
  Workers,        \* passes of run_due that may overlap
  Cases, Customers,
  CaseOf,         \* the case_id of each row
  CustomerOf,     \* the customer_ref of each case
  KindOf,         \* the kind of each row
  MethodOf,       \* the payment method of each case's signal
  Executors,      \* kinds the runner has an executor for
  Lease,          \* LEASE, in slots
  Batch,          \* BATCH
  Delays,         \* how far ahead of now the agent schedules an action
  Cancellable,    \* cases and customers whose rows the agent cancels
  Scopes,         \* those among them that stops land on
  Payable,        \* cases whose recovery link may be paid
  Diversions,     \* states the agent takes a case to when it goes no further with it
  Promises,       \* dates a customer may name in a reply
  MaxTime,        \* bound on the clock
  MaxCrashes,     \* bound on the passes that die
  None            \* NULL

Kinds == {"nudge", "retry", "reauthorisation"}

ASSUME QueueAssumption ==
  /\ CaseOf \in [Actions -> Cases]
  /\ CustomerOf \in [Cases -> Customers]
  /\ KindOf \in [Actions -> Kinds]
  /\ MethodOf \in [Cases -> STRING]
  /\ Executors \subseteq {"nudge", "retry"}
  /\ Lease \in Nat \ {0} /\ Batch \in Nat \ {0}
  /\ Delays \subseteq Nat
  /\ Scopes \subseteq Cancellable /\ Cancellable \subseteq Cases \cup Customers
  /\ Payable \subseteq Cases
  /\ Diversions \subseteq {"held-for-human", "unrecovered"}
  /\ Promises \subseteq Nat
  /\ MaxTime \in Nat /\ MaxCrashes \in Nat
  /\ None \notin Nat /\ None \notin Actions /\ None \notin Workers

VARIABLES
  (* table pending_actions, one function per column *)
  state, scheduled_for, leased_until, worker, attempts,
  (* the columns of cases, and the other tables, that the runner touches *)
  retry_count, caseState, nudges_suspended_until,
  shown,          \* cases a reviewer's screen lists: held now, or when it was drawn
  suppressed,     \* scopes with a standing contact suppression
  audit,          \* execution records of the audit trail
  (* the local state of each pass of run_due *)
  pc, passNow, todo, cur, claimNo, outcome,
  (* the world outside *)
  now,            \* the clock
  paying,         \* cases between the two writes of mark_recovered
  crashes,        \* passes that died so far
  cleared,        \* records of a case when a person last reopened it, for the properties
  sent            \* messages that left, kept for the properties

table == <<state, scheduled_for, leased_until, worker, attempts>>
local == <<pc, passNow, todo, cur, claimNo, outcome>>
caseVars == <<retry_count, caseState, nudges_suspended_until, shown, cleared>>
vars == <<state, scheduled_for, leased_until, worker, attempts, retry_count,
          caseState, nudges_suspended_until, shown, suppressed, audit, pc, passNow,
          todo, cur, claimNo, outcome, now, paying, crashes, cleared, sent>>

NoOutcome == [state |-> "none", retry_at |-> 0, hold |-> FALSE]
Closed(s, hold) == [state |-> s, retry_at |-> 0, hold |-> hold]
Deferred(t) == [state |-> "pending", retry_at |-> t, hold |-> FALSE]

InScope(a, s) == CaseOf[a] = s \/ CustomerOf[CaseOf[a]] = s

(* contact_suppression(case_id, customer_ref) found a standing row *)
Suppressed(a) == \E s \in suppressed : InScope(a, s)

(* mutation: the window is compared the wrong way round *)
ContactsBefore(customer, since) ==
  {r \in audit : /\ CustomerOf[CaseOf[r.action]] = customer
                 /\ KindOf[r.action] = "nudge" /\ r.state = "done"
                 /\ r.at < since}

(* contacts_since: delivered nudges on record, over all the customer's cases *)
ContactsSince(customer, since) ==
  {r \in audit : /\ CustomerOf[CaseOf[r.action]] = customer
                 /\ KindOf[r.action] = "nudge" /\ r.state = "done"
                 /\ r.at >= since}

Init ==
  /\ state = [a \in Actions |-> "absent"]
  /\ scheduled_for = [a \in Actions |-> 0]
  /\ leased_until = [a \in Actions |-> None]
  /\ worker = [a \in Actions |-> None]
  /\ attempts = [a \in Actions |-> 0]
  /\ retry_count = [c \in Cases |-> 0]
  /\ caseState = [c \in Cases |-> "open"]
  /\ nudges_suspended_until = [c \in Cases |-> 0]
  /\ shown = {} /\ cleared = {}
  /\ suppressed = {}
  /\ audit = {}
  /\ pc = [w \in Workers |-> "idle"]
  /\ passNow = [w \in Workers |-> 0]
  /\ todo = [w \in Workers |-> {}]
  /\ cur = [w \in Workers |-> None]
  /\ claimNo = [w \in Workers |-> [a \in Actions |-> 0]]
  /\ outcome = [w \in Workers |-> NoOutcome]
  /\ now = 0
  /\ paying = {}
  /\ crashes = 0
  /\ sent = {}

-----------------------------------------------------------------------------
(* The other writers of the queue. *)

(* when the agent asks for a row to run: a retry goes through schedule_retry *)
DueTime(a, t) ==
  IF KindOf[a] = "retry" THEN RetryTime(t, now, MethodOf[CaseOf[a]]) ELSE t

(* schedule_action: the agent arms a row *)
Schedule(a, t) ==
  /\ state[a] = "absent"
  /\ state' = [state EXCEPT ![a] = "pending"]
  /\ scheduled_for' = [scheduled_for EXCEPT ![a] = DueTime(a, t)]
  /\ UNCHANGED <<leased_until, worker, attempts, caseVars, suppressed, audit,
                 local, now, paying, crashes, sent>>

(* the one UPDATE of cancel_pending: lease and worker columns stay as they are *)
CancelRows(scope) ==
  state' = [a \in Actions |->
              IF InScope(a, scope) /\ state[a] \in {"pending", "leased"}
              THEN "cancelled" ELSE state[a]]

(* a stop, first half, or a decision of the agent (a reply for a person, a promise, a
   refusal of the ladder): everything in scope is cancelled *)
Cancel(scope) ==
  /\ CancelRows(scope)
  /\ UNCHANGED <<scheduled_for, leased_until, worker, attempts, caseVars,
                 suppressed, audit, local, now, paying, crashes, sent>>

(* a stop, second half: suppress_contact, unless one stands at this scope *)
Suppress(scope) ==
  /\ scope \notin suppressed
  /\ suppressed' = suppressed \cup {scope}
  /\ UNCHANGED <<table, caseVars, audit, local, now, paying, crashes, sent>>

(* lift_suppression, by a named person *)
Lift(scope) ==
  /\ scope \in suppressed
  /\ suppressed' = suppressed \ {scope}
  /\ UNCHANGED <<table, caseVars, audit, local, now, paying, crashes, sent>>

(* suspend_nudges_until, from a promise the customer made *)
Promise(c, date) ==
  /\ date > DateOf(now)
  /\ nudges_suspended_until' = [nudges_suspended_until EXCEPT ![c] = date]
  /\ UNCHANGED <<table, retry_count, caseState, shown, cleared, suppressed, audit,
                 local, now, paying, crashes, sent>>

(* mark_recovered, first half: cancel_pending("RECOVERED", case_id) *)
RecoverCancel(c) ==
  /\ c \notin paying
  /\ paying' = paying \cup {c}
  /\ CancelRows(c)
  /\ UNCHANGED <<scheduled_for, leased_until, worker, attempts, caseVars,
                 suppressed, audit, local, now, crashes, sent>>

(* mark_recovered, second half: set_state(RECOVERED) *)
RecoverClose(c) ==
  /\ c \in paying
  /\ paying' = paying \ {c}
  /\ caseState' = [caseState EXCEPT ![c] = "recovered"]
  /\ UNCHANGED <<table, retry_count, nudges_suspended_until, shown, cleared,
                 suppressed, audit, local, now, crashes, sent>>

(* what the agent does with a case it will not go on with: a person is to look at it,
   or there is nothing to recover (uneconomic, exhausted, closed by a stop or as paid) *)
Divert(c, st) ==
  /\ caseState' = [caseState EXCEPT ![c] = st]
  /\ shown' = IF st = "held-for-human" THEN shown \cup {c} ELSE shown
  /\ UNCHANGED <<table, retry_count, nudges_suspended_until, cleared, suppressed,
                 audit, local, now, paying, crashes, sent>>

RecordsOf(c) == {r \in audit : CaseOf[r.action] = c}

(* record_decision, "approved" or reclassified: set_state(OPEN), whatever the state is by
   now; the screen may be old.  What resume_after_review then arms is a Schedule. *)
Approve(c) ==
  /\ c \in shown
  /\ caseState' = [caseState EXCEPT ![c] = "open"]
  /\ cleared' = cleared \cup RecordsOf(c)
  /\ UNCHANGED <<table, retry_count, nudges_suspended_until, shown, suppressed,
                 audit, local, now, paying, crashes, sent>>

(* record_decision, "rejected" *)
Reject(c) == c \in shown /\ Divert(c, "unrecovered")

Tick ==
  /\ now < MaxTime
  /\ now' = now + 1
  /\ UNCHANGED <<table, caseVars, suppressed, audit, local, paying, crashes, sent>>

-----------------------------------------------------------------------------
(* One pass of run_due. *)

(* mutation: WHERE leased_until <= ? alone, which cancelled rows match too *)
ExpiredInAnyState(t) ==
  {a \in Actions : leased_until[a] # None /\ leased_until[a] <= t}

(* mutation: nothing is ever released *)
ExpiredNever(t) == {}

(* the WHERE of release_expired_leases *)
Expired(t) ==
  {a \in Actions : state[a] = "leased" /\ leased_until[a] <= t}

(* read the clock once; release_expired_leases *)
Reclaim(w) ==
  /\ pc[w] = "idle"
  /\ pc' = [pc EXCEPT ![w] = "claim"]
  /\ passNow' = [passNow EXCEPT ![w] = now]
  /\ state' = [a \in Actions |-> IF a \in Expired(now) THEN "pending" ELSE state[a]]
  /\ leased_until' =
       [a \in Actions |-> IF a \in Expired(now) THEN None ELSE leased_until[a]]
  /\ worker' = [a \in Actions |-> IF a \in Expired(now) THEN None ELSE worker[a]]
  /\ UNCHANGED <<scheduled_for, attempts, caseVars, suppressed, audit, todo,
                 cur, claimNo, outcome, now, paying, crashes, sent>>

Due(t) == {a \in Actions : state[a] = "pending" /\ scheduled_for[a] <= t}

(* ORDER BY scheduled_for LIMIT Batch, over the due rows *)
IsBatch(rows, due) ==
  /\ rows \subseteq due
  /\ \A a \in rows, b \in due \ rows : scheduled_for[a] <= scheduled_for[b]
  /\ \/ rows = due /\ Cardinality(rows) <= Batch
     \/ Cardinality(rows) = Batch

(* mutation: the expiry is left unset *)
NoExpiry(w) == None

(* leased_until of a claim, from the clock of the pass *)
Expiry(w) == passNow[w] + Lease

(* lease_due_actions: one UPDATE ... RETURNING *)
Claim(w, rows) ==
  /\ pc[w] = "claim"
  /\ IsBatch(rows, Due(passNow[w]))
  /\ state' = [a \in Actions |-> IF a \in rows THEN "leased" ELSE state[a]]
  /\ leased_until' = [a \in Actions |->
                        IF a \in rows THEN Expiry(w) ELSE leased_until[a]]
  /\ worker' = [a \in Actions |-> IF a \in rows THEN w ELSE worker[a]]
  /\ attempts' = [a \in Actions |->
                    IF a \in rows THEN attempts[a] + 1 ELSE attempts[a]]
  /\ todo' = [todo EXCEPT ![w] = rows]
  /\ claimNo' = [claimNo EXCEPT ![w] =
                   [a \in Actions |-> IF a \in rows THEN attempts[a] + 1 ELSE 0]]
  /\ pc' = [pc EXCEPT ![w] = "next"]
  /\ UNCHANGED <<scheduled_for, caseVars, suppressed, audit, passNow, cur,
                 outcome, now, paying, crashes, sent>>

(* store.action(id), re-read before acting: a cancelled row is skipped *)
Recheck(w, a) ==
  /\ pc[w] = "next" /\ a \in todo[w]
  /\ todo' = [todo EXCEPT ![w] = @ \ {a}]
  /\ IF state[a] = "cancelled"
     THEN UNCHANGED <<pc, cur>>
     ELSE pc' = [pc EXCEPT ![w] = "gate"] /\ cur' = [cur EXCEPT ![w] = a]
  /\ UNCHANGED <<table, caseVars, suppressed, audit, passNow, claimNo, outcome,
                 now, paying, crashes, sent>>

(* contact_suppression, then the executor table; a refusal is settled unrecorded *)
Gate(w) ==
  /\ pc[w] = "gate"
  /\ \/ /\ Suppressed(cur[w])
        /\ outcome' = [outcome EXCEPT ![w] = Closed("cancelled", FALSE)]
        /\ pc' = [pc EXCEPT ![w] = "settle"]
     \/ /\ ~Suppressed(cur[w]) /\ KindOf[cur[w]] \notin Executors
        /\ outcome' = [outcome EXCEPT ![w] = Closed("no-adapter", FALSE)]
        /\ pc' = [pc EXCEPT ![w] = "settle"]
     \/ /\ ~Suppressed(cur[w]) /\ KindOf[cur[w]] \in Executors
        /\ pc' = [pc EXCEPT ![w] = "execute"]
        /\ UNCHANGED outcome
  /\ UNCHANGED <<table, caseVars, suppressed, audit, passNow, todo, cur, claimNo,
                 now, paying, crashes, sent>>

(* mutation: the refusal is recorded and the case stays where it is *)
RefuseRetry == Closed("no-adapter", FALSE)

(* what execute_retry answers: no adapter on this deployment, a person takes the case *)
RetryOutcome == Closed("no-adapter", TRUE)

ExecuteRetry(w) ==
  /\ pc[w] = "execute" /\ KindOf[cur[w]] = "retry"
  /\ outcome' = [outcome EXCEPT ![w] = RetryOutcome]
  /\ pc' = [pc EXCEPT ![w] = "record"]
  /\ UNCHANGED <<table, caseVars, suppressed, audit, passNow, todo, cur, claimNo,
                 now, paying, crashes, sent>>

(* Why execute_nudge defers, in the order it asks, and until when. *)
NudgeDeferral(w) ==
  LET t == passNow[w]
      c == CaseOf[cur[w]]
      recent == ContactsSince(CustomerOf[c], t - ContactWindow)
  IN IF DateOf(t) < nudges_suspended_until[c]
       THEN Deferred(Combine(nudges_suspended_until[c], ContactOpen))
     ELSE IF ~BudgetAllowed(recent, t) THEN Deferred(BudgetFreeAt(recent, t))
     ELSE IF ~IsContactAllowed(t) THEN Deferred(NextAllowedContact(t))
     ELSE NoOutcome

(* execute_nudge up to the payment link *)
ExecuteNudge(w) ==
  /\ pc[w] = "execute" /\ KindOf[cur[w]] = "nudge"
  /\ outcome' = [outcome EXCEPT ![w] = NudgeDeferral(w)]
  /\ pc' = [pc EXCEPT ![w] = IF NudgeDeferral(w) = NoOutcome THEN "send" ELSE "record"]
  /\ UNCHANGED <<table, caseVars, suppressed, audit, passNow, todo, cur, claimNo,
                 now, paying, crashes, sent>>

(* create_payment_link has answered or timed out; deliver sends *)
Send(w) ==
  /\ pc[w] = "send"
  /\ sent' = sent \cup {[action |-> cur[w], attempt |-> claimNo[w][cur[w]],
                         worker |-> w, clock |-> passNow[w], at |-> now]}
  /\ outcome' = [outcome EXCEPT ![w] = Closed("done", FALSE)]
  /\ pc' = [pc EXCEPT ![w] = "record"]
  /\ UNCHANGED <<table, caseVars, suppressed, audit, passNow, todo, cur, claimNo,
                 now, paying, crashes>>

(* the executor raises: the row fails, unrecorded, and the pass goes on *)
Raise(w) ==
  /\ pc[w] \in {"execute", "send"} /\ KindOf[cur[w]] = "nudge"
  /\ outcome' = [outcome EXCEPT ![w] = Closed("failed", FALSE)]
  /\ pc' = [pc EXCEPT ![w] = "settle"]
  /\ UNCHANGED <<table, caseVars, suppressed, audit, passNow, todo, cur, claimNo,
                 now, paying, crashes, sent>>

(* mutation: the attempt is taken from the row as it is now, not as claimed *)
RecordOfRow(w) ==
  [action |-> cur[w], attempt |-> attempts[cur[w]], worker |-> w,
   at |-> passNow[w], state |-> outcome[w].state]

(* _record: stamped with the clock of the pass and the attempt it claimed *)
ExecutionRecord(w) ==
  [action |-> cur[w], attempt |-> claimNo[w][cur[w]], worker |-> w,
   at |-> passNow[w], state |-> outcome[w].state]

(* mutation: debit attempts are not counted *)
NeverCounts(a) == FALSE

(* a retry that was not deferred is one debit attempt; execute_retry never defers *)
IsDebitAttempt(a) == KindOf[a] = "retry"

Record(w) ==
  /\ pc[w] = "record"
  /\ audit' = audit \cup {ExecutionRecord(w)}
  /\ pc' = [pc EXCEPT ![w] = IF IsDebitAttempt(cur[w]) THEN "count" ELSE "settle"]
  /\ UNCHANGED <<table, caseVars, suppressed, passNow, todo, cur, claimNo,
                 outcome, now, paying, crashes, sent>>

(* mutation: what is left of the allowance, never initialised to the cap *)
ChargedDown(c) == retry_count[c] - 1

Charged(c) == retry_count[c] + 1

(* increment_retry_count: one debit attempt, whatever came back *)
Count(w) ==
  /\ pc[w] = "count"
  /\ retry_count' = [retry_count EXCEPT ![CaseOf[cur[w]]] = Charged(CaseOf[cur[w]])]
  /\ pc' = [pc EXCEPT ![w] = "settle"]
  /\ UNCHANGED <<table, caseState, nudges_suspended_until, shown, cleared, suppressed,
                 audit, passNow, todo, cur, claimNo, outcome, now, paying, crashes, sent>>

(* return_action for a deferral, finish_action for the rest: both by id alone *)
Settle(w) ==
  /\ pc[w] = "settle"
  /\ state' = [state EXCEPT ![cur[w]] = outcome[w].state]
  /\ leased_until' = [leased_until EXCEPT ![cur[w]] = None]
  /\ IF outcome[w].state = "pending"
     THEN /\ worker' = [worker EXCEPT ![cur[w]] = None]
          /\ scheduled_for' = [scheduled_for EXCEPT ![cur[w]] = outcome[w].retry_at]
     ELSE UNCHANGED <<worker, scheduled_for>>
  /\ IF outcome[w].hold
     THEN pc' = [pc EXCEPT ![w] = "hold"] /\ UNCHANGED cur
     ELSE pc' = [pc EXCEPT ![w] = "next"] /\ cur' = [cur EXCEPT ![w] = None]
  /\ outcome' = [outcome EXCEPT ![w] = NoOutcome]
  /\ UNCHANGED <<attempts, caseVars, suppressed, audit, passNow, todo, claimNo,
                 now, paying, crashes, sent>>

(* set_state(HELD_FOR_HUMAN), whatever the state of the case is by now *)
Hold(w) ==
  /\ pc[w] = "hold"
  /\ caseState' = [caseState EXCEPT ![CaseOf[cur[w]]] = "held-for-human"]
  /\ shown' = shown \cup {CaseOf[cur[w]]}
  /\ pc' = [pc EXCEPT ![w] = "next"]
  /\ cur' = [cur EXCEPT ![w] = None]
  /\ UNCHANGED <<table, retry_count, nudges_suspended_until, cleared, suppressed, audit,
                 passNow, todo, claimNo, outcome, now, paying, crashes, sent>>

(* a pass forgets everything it knew: local variables of run_due *)
Forget(w) ==
  /\ pc' = [pc EXCEPT ![w] = "idle"]
  /\ passNow' = [passNow EXCEPT ![w] = 0]
  /\ todo' = [todo EXCEPT ![w] = {}]
  /\ cur' = [cur EXCEPT ![w] = None]
  /\ claimNo' = [claimNo EXCEPT ![w] = [a \in Actions |-> 0]]
  /\ outcome' = [outcome EXCEPT ![w] = NoOutcome]
  /\ UNCHANGED <<table, caseVars, suppressed, audit, now, paying, sent>>

EndPass(w) ==
  /\ pc[w] = "next" /\ todo[w] = {}
  /\ Forget(w)
  /\ UNCHANGED crashes

(* the process dies; MaxCrashes bounds how often, and the clock keeps room
   for the lease it leaves behind to expire *)
Crash(w) ==
  /\ pc[w] # "idle"
  /\ crashes < MaxCrashes /\ now + Lease <= MaxTime
  /\ crashes' = crashes + 1
  /\ Forget(w)

Pass(w) ==
  \/ Reclaim(w)
  \/ \E rows \in SUBSET Due(passNow[w]) : Claim(w, rows)
  \/ \E a \in todo[w] : Recheck(w, a)
  \/ Gate(w) \/ ExecuteRetry(w) \/ ExecuteNudge(w) \/ Send(w)
  \/ Record(w) \/ Count(w) \/ Settle(w) \/ Hold(w) \/ EndPass(w)

Next ==
  \/ \E a \in Actions, d \in Delays : Schedule(a, now + d)
  \/ \E s \in Cancellable : Cancel(s)
  \/ \E s \in Scopes : Suppress(s) \/ Lift(s)
  \/ \E c \in Cases, d \in Promises : Promise(c, d)
  \/ \E c \in Cases, st \in Diversions : Divert(c, st)
  \/ \E c \in Cases : Approve(c) \/ Reject(c)
  \/ \E c \in Payable : RecoverCancel(c) \/ RecoverClose(c)
  \/ Tick
  \/ \E w \in Workers : Pass(w) \/ Raise(w) \/ Crash(w)

(* The scheduler that posts to /internal/run-due keeps starting passes, a pass
   that is alive keeps going, and time passes.  Nothing obliges the agent, the
   customer or the reviewer to act, an executor to raise, or a pass to die. *)
Fairness == WF_vars(Tick) /\ \A w \in Workers : WF_vars(Pass(w))

Spec == Init /\ [][Next]_vars
LiveSpec == Spec /\ Fairness

-----------------------------------------------------------------------------
(* Types *)

States == {"absent", "pending", "leased", "cancelled", "done", "failed", "no-adapter"}
CaseStates == {"open", "held-for-human", "recovered", "unrecovered"}
Points == {"idle", "claim", "next", "gate", "execute", "send", "record",
           "count", "settle", "hold"}
Outcomes == [state : {"none", "pending", "cancelled", "done", "failed", "no-adapter"},
             retry_at : Nat, hold : BOOLEAN]
Executions == [action : Actions, attempt : Nat, worker : Workers, at : Nat,
               state : {"pending", "done", "no-adapter"}]
Messages == [action : Actions, attempt : Nat, worker : Workers, clock : Nat, at : Nat]

(* Every column and local variable holds a value its schema or code gives it. *)
TypeOK ==
  /\ state \in [Actions -> States]
  /\ scheduled_for \in [Actions -> Nat]
  /\ leased_until \in [Actions -> Nat \cup {None}]
  /\ worker \in [Actions -> Workers \cup {None}]
  /\ attempts \in [Actions -> Nat]
  /\ retry_count \in [Cases -> Nat]
  /\ caseState \in [Cases -> CaseStates]
  /\ nudges_suspended_until \in [Cases -> Nat]
  /\ shown \subseteq Cases
  /\ suppressed \subseteq Scopes
  /\ audit \subseteq Executions /\ cleared \subseteq audit
  /\ pc \in [Workers -> Points]
  /\ passNow \in [Workers -> Nat]
  /\ todo \in [Workers -> SUBSET Actions]
  /\ cur \in [Workers -> Actions \cup {None}]
  /\ claimNo \in [Workers -> [Actions -> Nat]]
  /\ outcome \in [Workers -> Outcomes]
  /\ now \in Nat /\ crashes \in Nat
  /\ paying \subseteq Cases
  /\ sent \subseteq Messages

-----------------------------------------------------------------------------
(* Safety *)

(* w holds row a: it is the row in hand, or still ahead in the batch *)
Holds(w, a) == cur[w] = a \/ a \in todo[w]

(* w holds row a and has not written its execution record *)
Unrecorded(w, a) ==
  a \in todo[w] \/ (cur[w] = a /\ pc[w] \in {"gate", "execute", "send", "record"})

(* w holds row a and has not sent its message *)
Unsent(w, a) ==
  a \in todo[w] \/ (cur[w] = a /\ pc[w] \in {"gate", "execute", "send"})

(* Only a row that is leased carries a lease that matters, and it carries a
   whole one: a holder and an expiry at most Lease ahead of the clock.  A row
   leased without an expiry would be invisible both to lease_due_actions and
   to release_expired_leases: stranded for good. *)
LeasesExpire ==
  \A a \in Actions :
    /\ state[a] = "leased" => /\ worker[a] \in Workers
                              /\ leased_until[a] \in Nat
                              /\ leased_until[a] <= now + Lease
    /\ state[a] \in {"absent", "pending"} => worker[a] = None /\ leased_until[a] = None

(* Delivery is at-least-once, so a row may be executed twice; but each
   execution spends an attempt of its own, issued by one claim to one pass.
   However leases expire, passes die and rows are returned, the trail never
   shows two executions, nor the customer two messages, of one attempt. *)
AttemptsAreSpentOnce ==
  /\ \A r, q \in audit : r.action = q.action /\ r.attempt = q.attempt => r = q
  /\ \A r, q \in sent : r.action = q.action /\ r.attempt = q.attempt => r = q
  /\ \A r \in audit \cup sent : 1 <= r.attempt /\ r.attempt <= attempts[r.action]

RetriesOnRecord(c) ==
  {r \in audit : KindOf[r.action] = "retry" /\ CaseOf[r.action] = c}
Counting(c) == {w \in Workers : pc[w] = "count" /\ CaseOf[cur[w]] = c}

(* The NPCI allowance of a case is charged for executions on record and for
   nothing else; and while no pass has died, for every one of them. *)
RetryCountIsBacked ==
  \A c \in Cases :
    LET charged == retry_count[c] + Cardinality(Counting(c))
        onRecord == Cardinality(RetriesOnRecord(c))
    IN charged <= onRecord /\ (crashes = 0 => charged = onRecord)

(* "Records why, and routes the case to a person" (runner.py:39): between an execution
   of a retry and the first decision of a person about its case, the case is out of
   automation, or the pass that executed it is about to take it out.  The row is
   finished before the case is held (runner.py:363): a pass that dies in between leaves
   an execution nobody was told of, and each death no more than one. *)
Routing(w, r) ==
  /\ cur[w] = r.action /\ claimNo[w][r.action] = r.attempt
  /\ pc[w] = "hold" \/ (pc[w] \in {"count", "settle"} /\ outcome[w].hold)
Unrouted ==
  {r \in audit \ cleared :
     /\ KindOf[r.action] = "retry" /\ caseState[CaseOf[r.action]] = "open"
     /\ ~\E w \in Workers : Routing(w, r)}
AttemptedIsRouted == Cardinality(Unrouted) <= crashes

(* A message that left is in the trail, under the attempt that sent it and the clock
   the budget goes by, or its sender is about to write it: the contact ceiling reads
   the trail.  A pass that dies between execute_nudge and _record leaves a message the
   budget never counts, and each death no more than one. *)
OnRecord(m) ==
  \E r \in audit : /\ r.action = m.action /\ r.attempt = m.attempt
                   /\ r.state = "done" /\ r.at = m.clock
BeingRecorded(w, m) ==
  /\ pc[w] = "record" /\ cur[w] = m.action /\ claimNo[w][m.action] = m.attempt
  /\ outcome[w].state = "done" /\ passNow[w] = m.clock
Untraced == {m \in sent : ~OnRecord(m) /\ ~\E w \in Workers : BeingRecorded(w, m)}
SentIsOnRecord == Cardinality(Untraced) <= crashes

(* A row no pass has in hand and that is cancelled is cancelled for good: no
   reclaim, claim, re-read or settlement of a later pass brings it back. *)
DeadRow(a) == state[a] = "cancelled" /\ \A w \in Workers : cur[w] # a
CancellationSticks == [][\A a \in Actions : DeadRow(a) => DeadRow(a)']_vars

(* "Retry lands only in permitted windows" (retry_orchestration.feature:10): however
   often a retry is claimed, lost and reclaimed, it is due outside the bands. *)
RetriesLandOutsideBands ==
  \A a \in Actions :
    KindOf[a] = "retry" /\ state[a] \in {"pending", "leased"}
      => IsExecutionAllowed(scheduled_for[a], MethodOf[CaseOf[a]])

(* The contact ceiling, on messages that left rather than on the trail. *)
ContactCeiling ==
  \A m \in sent :
    Cardinality({q \in sent : /\ CustomerOf[CaseOf[q.action]] = CustomerOf[CaseOf[m.action]]
                              /\ q.clock <= m.clock
                              /\ q.clock > m.clock - ContactWindow}) <= ContactMax

-----------------------------------------------------------------------------
(* The inductive invariant behind the safety properties. *)

(* the row in hand, the batch and the outcome fit the point a pass has reached *)
PassesConsistent ==
  \A w \in Workers :
    /\ passNow[w] <= now
    /\ cur[w] = None <=> pc[w] \in {"idle", "claim", "next"}
    /\ pc[w] \in {"idle", "claim"} => todo[w] = {}
    /\ cur[w] \notin todo[w]
    /\ pc[w] \in {"record", "count"} =>
         outcome[w].state \in {"pending", "done", "no-adapter"}
    /\ pc[w] = "settle" => outcome[w].state # "none"

(* a pass holds a row under an attempt issued for it, and under its own *)
ClaimsDistinct ==
  \A w \in Workers, a \in Actions :
    Holds(w, a) =>
      /\ state[a] # "absent"
      /\ 1 <= claimNo[w][a] /\ claimNo[w][a] <= attempts[a]
      /\ \A v \in Workers \ {w} : Holds(v, a) => claimNo[v][a] # claimNo[w][a]

(* what a pass still has to write or to send is not in the trail, or out, yet *)
ClaimsUnspent ==
  \A w \in Workers :
    /\ \A r \in audit : Unrecorded(w, r.action) => claimNo[w][r.action] # r.attempt
    /\ \A m \in sent : Unsent(w, m.action) => claimNo[w][m.action] # m.attempt

(* only a nudge is ever returned to the queue, so only a nudge gets a new time *)
DeferralsAreNudges ==
  \A w \in Workers :
    outcome[w].state = "pending" =>
      pc[w] \in {"record", "settle"} /\ KindOf[cur[w]] = "nudge"

(* one pass at a time: the budget was asked of the trail as it still is *)
SendsAreBudgeted ==
  \A w \in Workers :
    pc[w] = "send" =>
      BudgetAllowed(ContactsSince(CustomerOf[CaseOf[cur[w]]],
                                  passNow[w] - ContactWindow), passNow[w])

(* an executed retry goes to a person: until it does, or dies, a pass knows *)
RetriesAreHeld ==
  \A w \in Workers :
    /\ pc[w] = "send" => KindOf[cur[w]] = "nudge"
    /\ pc[w] \in {"record", "count"} /\ KindOf[cur[w]] = "retry" => outcome[w].hold

QueueInv ==
  /\ TypeOK
  /\ PassesConsistent
  /\ LeasesExpire
  /\ ClaimsDistinct
  /\ ClaimsUnspent
  /\ AttemptsAreSpentOnce

-----------------------------------------------------------------------------
(* Refinement: the rows of pending_actions and the execution records of the
   audit trail implement the ledger of attempts. *)
Ledger == INSTANCE AttemptLedger WITH
  armed <- {a \in Actions : state[a] # "absent"},
  issued <- attempts,
  executed <- {<<r.action, r.attempt, r.worker>> : r \in audit}

(* Every step of the queue issues attempts to armed rows, executes one attempt
   that was issued and not executed before, or changes neither. *)
ImplementsLedger == Ledger!Spec

-----------------------------------------------------------------------------
(* Liveness *)

(* A row that is due, leased by a live or a dead pass or by none, is eventually
   closed or moved to a later time: a pass that dies strands nothing. *)
DueRowsSettle ==
  \A a \in Actions :
    (state[a] \in {"pending", "leased"} /\ scheduled_for[a] <= now)
      ~> (state[a] \notin {"pending", "leased"} \/ scheduled_for[a] > now)

-----------------------------------------------------------------------------
(* What the documents say and the code does not do. *)

(* runner.py:28, "Cancellation wins": a cancelled row never becomes due again. *)
CancellationWins ==
  [][\A a \in Actions : state[a] = "cancelled" => state'[a] # "pending"]_vars

(* runner.py:39 and README.md:115: an action without an adapter puts its case in
   front of a person. *)
AbsenceReachesAPerson ==
  \A a \in Actions :
    state[a] = "no-adapter" /\ (\A w \in Workers : cur[w] # a)
      => caseState[CaseOf[a]] # "open"
=============================================================================
