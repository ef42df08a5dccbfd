# A TLA+ model of unhalted

`unhalted` recovers failed recurring payments. A provider's webhook reports a
failed debit; the agent opens a case, diagnoses it, and schedules an action
against it (a silent retry, a message with a payment link, a hand-over). A runner
executes what is due. Customers reply, reviewers decide, stops suppress contact,
and a paid link closes the case. The program is small, but several processes
share one SQLite file, each handler is several transactions, and an error is a
customer debited twice, messaged after an opt-out, or forgotten.

This directory holds the specifications, the TLC configurations that check them on
small instances, and theorems checked by TLAPS. Paths of the form `store.py:654`
are below `src/src/unhalted/`.

## The system: components, state, interactions

| component | code | state | operations | hard because |
|---|---|---|---|---|
| action queue and runner | `store.py`, `runner.py` | `pending_actions`, execution records, a pass's batch | schedule, cancel, lease, reclaim, return, finish, `run_due` | passes overlap, die, outlive their lease; stops land between any two transactions |
| contact hours and budget | `shell/windows.py`, `shell/notify.py` | none | `is_contact_allowed`, `next_allowed_contact`, `contact_budget` | boundaries; the budget is read before and counted after the message |
| agent | `agent.py`, `shell/stops.py`, `shell/ladder.py` | `cases`, `diagnoses`, suppressions | `handle_failure`, `apply_stop`, `handle_reply`, `resume_after_review`, `mark_recovered` | many orders of calls nobody wrote down; callers hold stale cases |
| reply parsing | `core/reply.py`, `core/evidence.py` | none | `parse` | calls that fail, answers cut off, words nobody wrote |
| reply policy | `shell/replies.py` | none | `decide` | precedence between intents that meet in one reply |
| amount limits | `shell/limits.py` | none | `check` | must be asked on every path |
| webhook ingest | `ingest/webhooks.py`, `ingest/normalize.py`, `store.py` | `signals`, `processed_events` | two webhooks and the scripts that bypass them | redelivery, refusal, several ids for one payment, several processes, crashes |
| retry scheduler, NPCI bands | `shell/scheduler.py`, `shell/windows.py` | none | `schedule_retry`, `next_allowed_execution` | asked when scheduling, not when executing |
| diagnosis, taxonomy, verification | `core/diagnose.py`, `core/taxonomy.py`, `shell/verify.py` | taxonomy file | `diagnose`, `verify` | an answer that never comes is not a "no" |
| proposals | `core/policy_change.py`, `core/taxonomy_proposal.py` and their scripts | none | two `propose` | a table amended by hand must not reclassify other failures |
| drafting and lint | `core/draft.py`, `shell/lint.py`, `shell/notify.py` | none | `draft_nudge`, `lint.check`, `body_for` | a deny-list meets a merchant's name; what is sent is not what is linted |
| measurement | `measure/`, three commands of `cli.py` | none: the audit trail is read | `compare`, `classify`, `envelope`, `measure` | the trail is read by the first words of its records |
| the rest | `cli.py`, `tui.py`, `core/summarise.py`, scripts | none of their own | wording, screens | see "What is not modelled" |

How they interact: the webhook and the scripts call the agent; the agent calls the
pure policies (ladder, stops, limits, replies, scheduler) and writes rows; the
runner, a separate process or an HTTP call to `/internal/run-due`, leases the
rows and executes them. They meet only in the store: nothing is sent from the
agent to the runner. `Store` commits each method on its own, so a method is atomic
and a handler is not. A reply session (`scripts/session.py`) and a reviewer
(`scripts/review.py`) read a case, wait for a human being, and act on what they read.

What makes each correct:

- queue: a cancelled action stays cancelled; one attempt is executed once; the
  retry count matches the trail; a row is never stranded; the contact ceiling holds.
- agent: a stop holds until a person lifts it, whatever is armed meanwhile; an
  unverified failure, or an amount nobody consented to, is not debited; a refusal
  leaves something pending or someone told.
- replies: what protects the customer outranks what recovers the money, and only
  words the customer wrote have consequences.
- bands: a retry is never scheduled inside one.
- diagnosis: the less a payment says, the less is done on its own.
- ingest: one payment, one case; one failure worked once; nothing answered is lost.
- lifecycle: automation opens a case once and only takes it further out of its own hands.
- drafting: what is sent passes the lint.
- measurement: a report counts every debit and every contact, and what it says of a
  class of failures holds of the cases in it.

`PROJECT.json` lists each hazard at its line, with the properties that watch it.

## The modules

| module | models |
|---|---|
| `ContactPolicy` | contact hours and the contact budget over a day of slots |
| `ActionQueue` | the queue, the runner's passes, and the other writers of its rows |
| `AttemptLedger` | abstract: what the queue promises about attempts |
| `ExecutionBands` | the NPCI bands and `schedule_retry`, over the day of `ContactPolicy` |
| `Taxonomy` | `lookup`, `documented_causes`, authority, `needs_verification` |
| `Ladder`, `ReplyPolicy`, `AmountLimits` | the pure policies the agent consults |
| `ModelCalls`, `ReplyParsing` | asking the model, and what of its answer is a reply |
| `Proposals` | policy and taxonomy proposals, and the table with a rule added |
| `CaseAgent` | the agent's handlers, stops, replies, review, recovery |
| `CaseLifecycle` | abstract: what the agent promises about the state of a case |
| `Drafting` | `draft_nudge`, the lint, and the runner's fixed messages |
| `Measures` | the replayed baseline, and what is counted, summed and calibrated |
| `Reports` | `CaseAgent` with its audit trail, and what the reports say of it |
| `WebhookIngest` | how payments enter, transaction by transaction |
| `MCActionQueue`, `MCCaseAgent`, `MCReports`, `MCWebhookIngest` | instances for TLC |
| `*Proofs` | theorems |

Two views of the same store are kept apart on purpose. `ActionQueue` and
`WebhookIngest` cut the code at every transaction, over few cases; `CaseAgent`
takes a handler as one step and follows many kinds of cases through many handlers.
A reply session and a reviewer's screen hold their own copies in `CaseAgent`, since
these copies live for minutes; `ActionQueue` and `WebhookIngest` have what they write, one
transaction at a time, and leave their reasons open.

### ActionQueue

`state`, `scheduled_for`, `leased_until`, `worker`, `attempts` are the columns of
`pending_actions`. `audit` holds the execution records (the trail is read back by
`contacts_since`). `pc`, `passNow`, `todo`, `cur`, `claimNo`, `outcome` are the local
state of a pass of `run_due`: where it is, the instant it read at its start, the
claimed rows still ahead, the row in hand, the attempt under which it claimed each
row, the executor's answer. `Schedule` asks `ExecutionBands` for the time of a retry.

| action | code |
|---|---|
| `Schedule`, `Cancel`, `Suppress`, `Lift`, `Promise` | `schedule_action`, the two halves of `apply_stop` (other decisions of the agent use the first alone), `lift_suppression`, `suspend_nudges_until` |
| `RecoverCancel`, `RecoverClose` | the two writes of `mark_recovered` |
| `Divert` | the agent's other writes of a case's state: held, or given up |
| `Approve`, `Reject` | `record_decision` of `scripts/review.py`; the retry that `resume_after_review` then arms is a `Schedule` |
| `Reclaim`, `Claim`, `Recheck`, `Gate` | `release_expired_leases`, `lease_due_actions`, the re-read and the gates of the loop |
| `ExecuteRetry`, `ExecuteNudge`, `Send` | the executors; a nudge decides first and sends later |
| `Record`, `Count`, `Settle`, `Hold` | the four transactions after an executor |
| `Raise`, `Crash`, `Tick` | an executor that raises, a process that dies, the clock |

`claimNo` is not a column. It names the attempt a pass is working under, as the
trail shows it, and no guard reads it. `shown` holds the cases that stand on a reviewer's
screen, which may be old. `cleared` and `sent` are kept for the properties: the records a
case had when a person last reopened it, and the messages that left. A case that the runner
held is reopened by every approval, with its old row still closed and recorded; so
`AttemptedIsRouted` asks only about records no decision has answered (`audit \ cleared`).

Three constants say which of the other writers an instance has. `Cancellable` are the scopes at
which the agent cancels, with or without a stop; `Scopes`, those among them where stops stand;
`Diversions`, the states `Divert` may choose. In `queue` there are cancellations and no
suppressions, and the runner's own hold is what puts a case on the screen; `queue_ceiling` has stops;
`queue_live` diverts to `unrecovered`.

### CaseAgent

`caseState`, `retry_count`, `diagnosed`, `escalated`, `barred` are tables; `pending`
counts the pending rows of a case by kind; `answerable` is what the session script
asks the trail before it opens a conversation. `session` holds the retry count of the
case a session read, `desk` the case on a reviewer's screen. `messages`, `stopped`,
`approved`, `verified`, `paid`, `excused` record what happened, for the properties.
`MarkRecovered` may repeat: a second event about the payment, or a session that polls the
link, cancels and closes again.
When a row falls due is `ActionQueue`'s business: here a pending row may run at any
time, which includes every time it could.

A case is a failed payment with its signal; `Taxonomy` says what it is taken for, with
which confidence, and whether it has to be verified first. A reply is what the model
answers call by call: `ReplyParsing` reads it and `ReplyPolicy` decides, and the two
properties about replies compare what happened with the answer itself.

### Reports and Measures

Reports are written from the trail, and the trail is text: a debit on the calendar is a
record that begins with "retry at", and two others. `Reports` runs the agent of
`CaseAgent`, adds `trail` (how many records of each kind a case has; a kind is named for the first words of its records)
and takes each handler together with the records it writes: `Failed`, `Replied`, `Cleared`,
and `Unreported` for what writes none of these kinds. `AgentCounts`, `Money` and
`RecoveredIn` are `unhalted compare`, `breakeven` and `calibration` on that store. The
properties compare the books with the deeds: rows pending and executed with the debits
counted, messages sent with the contacts counted, the classes with what happened.

`Measures` holds the arithmetic as operators of `Taxonomy`, `Ladder` and `ExecutionBands`. The
baseline is a function of the method and the moment of a failure, as in the code.

### Drafting

A text is the set of things its patterns find in it: an offer, a threat, the amount, the
merchant's name. A name may itself contain what the deny-list looks for, so `NameSays` is a
constant. The model's answers are those of `ModelCalls`.

### WebhookIngest

`task[w]` is the program counter of process `w` with the event and the payment in its
hands. Steps follow the code: `Seen` (`event_seen`, and the refusal of what
`from_payment_failed` cannot normalise), `LookUp` and `Insert`
(`open_case_or_get`, whose lock is per process), `Mark` (`mark_event`),
`ReadDiagnosis`, `RecordDiagnosis`, `Schedule`, `Hold` (`handle_failure`),
`CancelRows`, `Close` (`mark_recovered`). `Crash` may hit between any two. `PlanOf` says
how many rows `handle_failure` schedules, one of which may be the fallback retry.

What becomes of a case after its payment is not up to the handlers alone, so two more actors
are here, reduced to what they write to `rows` and `caseState`:

| action | code |
|---|---|
| `Lease`, `ReadAgain`, `Refuse` | a pass takes a row, reads it again (`runner.py:294`), settles it as suppressed |
| `Send`, `Return`, `Finish`, `HoldRetried`, `PassDies` | it delivers a message, defers, settles, holds the case of a retry, dies |
| `ArmRow`, `CancelElsewhere`, `SetState` | replies, sessions, stops and reviewers, in any order, with no guard but the bound |

`hand[s]` is the row in the hands of pass `s`. A lease that has run out lets another pass have
the row, so leases are left out and any pass may take any row. `rows` are those neither settled
nor cancelled. A row that one pass settles while another still holds it goes to `finished`: the
second look of the other stops at a cancelled row and not at a finished one, so it acts on it
(`StillOpen`). Leaving this out would make `PaidIsClosed` look truer than it is.

`PaidIsClosed` names what it leaves out, each by a variable of its own: `overlapped`, payments
two processes had at once; `dropped`, those a process died on; `disturbed`, those a pass was
acting on when the link cancelled their rows (`return_action` and the hold write whatever the
state is by then, `runner.py:356`, `367`), or a reply or a reviewer wrote to afterwards (finding
6 below); and `Undecided`, failures held undiagnosed, which each delivery holds again. What is
left is the claim that matters in operation: rows in the batch of a pass that has not come to
them, redeliveries, and everything anybody did before the payment do not keep a case from closing.

## The runs

| run | instance | what it shows |
|---|---|---|
| `queue` | two passes, one crash, a retry and a nudge of one case, cancellations, the runner's hold, a reviewer, one clock step | leases, attempts, debit count and trail agree in every interleaving; cancelled rows stay cancelled; retries fall outside the bands; an attempted debit reaches a person unless the pass died at it, and again after a reviewer reopened its case; no more messages are missing from the trail than passes died; refinement of `AttemptLedger` |
| `queue_ceiling` | one pass at a time, two cases of one customer, promises, a payment, a stop and its lift, four instants | the contact ceiling on messages that really left; cancelled rows stay cancelled beside stops and payments |
| `queue_live` | two passes, one crash, a nudge, and an action without an executor | every due row settles |
| `agent` | `MCReports`: eight cases, one per way a case can go; five inputs | the ten safety and action properties of `CaseAgent`, `OneOfEachUntilCleared`, the five of `Reports`, the refinement of `CaseLifecycle` |
| `ingest` | two processes, one crash, three deliveries of three events, one pass of the runner, one write from elsewhere | the six properties of `WebhookIngest` |
| `cancellation_loses`, `second_debit`, `absence_unseen`, `ceiling_race`, `cap_overridden`, `paid_then_debited`, `lost_work` | the smallest instance each | one documented claim each, violated: see "Where the code and its documents disagree" |

### Bounds, and why they suffice

- Queue: the hazards are races between two passes, or a pass and another writer, on
  one row, and a pass that dies; two passes, one crash and two rows contain each of
  them. `Lease = 1` slot makes a lease expire within the run while its holder is alive.
  `MaxTime` is small because a slot is a whole phase (before and after an expiry, inside
  and outside contact hours). Every property of this run is proved for every value of the constants.
- Contact ceiling: `ContactMax = 1`, a window of two slots and a day of two put the
  window's end on both sides of opening time.
- Agent: `MaxInputs = 5` is the shortest at which a stop under a standing stop, its
  lift, and the re-arming of the case meet. `RetryCap = 1` makes the cap reachable
  with the same code path as 3. The cases cover each entry of the ladder, both
  verdicts of the cost rule, each refusal, a merchant's fault, a payment that says next to
  nothing, and two cases that share a customer. `Attempts = 2` calls (3 in the code)
  already separate the first answer from a later one; the replies hold an answer cut
  off, one that comes at the second call, one that invents a quote, two intents of
  one type, and confidences on either side of each bar. Some amounts
  are small enough for the cost rule to refuse a rung, and they differ, so that sums tell
  the classes apart; one band at noon is enough for `ExecutionBands` (the times of `CaseAgent` are left open).
- Ingest: three deliveries are the least that bring a first delivery, a payment through the
  link, and a repeat of either or the same payment from a script before or after it (a second
  event about it takes the script's way, but for its mark); one crash separates any two
  transactions. One event is in dollars, and refused. One pass is enough for a row in hand
  across a payment, one write for a reply or a reviewer on either side of it. Two passes on one
  row, which `finished` is about, are left to the theorems, which are for any number of passes.
- Amounts are rupees instead of paise; no computation overflows (Python integers).
  Slots stand for minutes in `ContactPolicy`, whose operators only compare times.

Deadlock is not checked: every bounded instance stops when its inputs are used up.

### Fairness

Only `queue_live` uses it: `WF(Tick)`, and `WF(Pass(w))` for each pass, that is, the
scheduler that posts to `/internal/run-due` keeps starting passes and a live pass goes
on. Neither an executor that raises nor a crash is fair, and nothing obliges an agent,
a customer or a reviewer to act. The crash bound requires that the clock can still pass
the lease after the last crash; otherwise the end of the bounded clock would be the
reason a row stays leased.

## What is proved

All by TLAPS, for any number of rows, passes, cases, customers, any clock and any
number of crashes; assumptions are `QueueAssumption`, `ContactAssumption` and their like
in the modules (types of the constants; bands do not overlap, touch or cross midnight).
Every property that a passing run checks is the property of a theorem, but for the liveness
of `queue_live`. Three theorems ask for more than the assumptions, and say so: one pass at a
time (`LonePassKeepsCeiling`), a table whose rules name no method
(`IgnoranceNeverBuysAnything`), a message that costs something
(`ContactsAlwaysOnTheReport`; `nudge: 1` in `policy.yaml:95`).

`ActionQueueProofs`: the safety properties are not inductive. That one attempt is never
recorded twice depends on which pass may still write which record, so `QueueInv` adds
three things: `PassesConsistent` (the row in hand, the batch and the outcome fit the
pass's point), `ClaimsDistinct` (a pass holds a row under an attempt that was issued,
and two passes hold one row only under different attempts: the claim raises `attempts`
and takes the new number), and `ClaimsUnspent` (the attempt a pass holds is neither on
record nor sent until it says so). `QueueInvStep` has a lemma per conjunct with a step
per action. From it: `QueueTypes`, `LeasesAlwaysExpire`, `AttemptsAlwaysSpentOnce`,
`CancellationAlwaysSticks`, `RetriesAlwaysLandOutsideBands`, and `QueueImplementsLedger`, the refinement under which a
recorded execution is a ledger execution, a claim issues attempts, and everything else
arms a row or stutters.

`RetriesLandOutsideBands` needs one more part, `DeferralsAreNudges`: a row goes back to the
queue with a new time only when an executor deferred it, and only the nudge's does, so
the time of a retry is the one `schedule_retry` gave it.

More invariants tie the local state of a pass to the trail, and one lemma serves them all: a step
either touches neither the trail nor the counts, or is a pass's own late step, `Send`, `Record`,
`Count`, `Settle`, `Hold` or `Crash` (`QuietOrLate`). `RetriesAreCounted`: what a case was
charged, with the passes about to charge it, is at most its executions on record, and exactly
that while none has died; both sides are cardinalities, so `OneMore` and `OneLess` say what a
step adds to or takes from them.

Two properties bound what crashes can lose, by their number. `Untraced` are the messages that
left and are neither on record nor in the hand of a pass about to write them, also of one whose
row was reclaimed meanwhile. `Unrouted` are the retries on record whose case is still open, that
no person has decided about since, and that no pass is routing; `RetriesAreHeld` says that between
executing a retry and counting it a pass's outcome is to hold the case. Each set grows by at most one
element in a step, and only when a pass dies (`UntracedStep`, `UnroutedStep`, `AtMostOneMore`); a
reviewer who reopens a case takes its records out of `Unrouted` in the same step. Hence `FewUntraced`
and `FewUnrouted`. From them: `SentAlwaysOnRecord`, `RetryCountAlwaysBacked`, `AttemptedAlwaysRouted`.

`LonePassKeepsCeiling` is `ContactCeiling` where passes do not overlap and none has died. The messages of a
window map one to one to records of the same window (`TrailCoversSent`: two messages of one
record would be two sends of one attempt), the budget counts the records, and the pass that
sends is the one that asked (`LoneSender`). With two passes it is false: run `ceiling_race`.

`ContactPolicyProofs`: a deferral is never before the time asked for, never outside
contact hours, skips no permitted slot, and a spent budget always names a later time
(so a deferred nudge is not due again at once).

`ExecutionBandsProofs`: `next_allowed_execution` moves a time to the first permitted one
and never back, and what `schedule_retry` accepts is not in the past, not before the
request and in no band. The argument is that the end of a band lies in no other, which
is where the assumption about bands is used.

`ReplyProofs`, over any answers and any bars: each reply gets one outcome and a stop or a
person leaves no promise standing; a cancellation always puts a person in front of it;
what is read was quoted; a promise follows only from a quote, a stop only from a quote or
the mood the model read.

`WebhookIngestProofs`, for any number of processes, passes, deliveries, crashes and writes from
elsewhere: `IngestInv` adds that what a process holds fits the step it is at (`TasksFit`: past the
insert the payment is on file, a paid link's customer had a message), that nothing is scheduled, sent
or marked for a payment without a case, and no pass holds a row of one (`TablesFit`), and, for a
payment never in two hands, that one process holds it (`OneHand`) and its plan is followed row by row
behind the diagnosis (`PlanFollowed`). From it: `IngestTypes`, `OneCaseAlways`,
`AnsweredAlwaysOnFile`, `WorkedAtMostOnce`.

That a payment is worked at all, and a paid one closed, needs `WorkInv` besides. Its parts:
`StepFits` (a process that schedules is no further down the plan than the rows there are, also when
another schedules beside it), `Cared` and `PaidFits`. `Cared` has two halves, and the first is not
inductive without the second: a case on file is worked or in the hands of a process that will work
it; a case that is *diagnosed* is worked or in the hands of a process behind its diagnosis. A process
that finds a diagnosis leaves (`agent.py:60`), so the first half survives only because somebody else
is still at it. `PaidFits`: while a paid link is in hand its failure is worked already, because a
message carried the link, a message is a row, and whoever scheduled the row is done; and from the
cancellation on the case is `Quiet`, that is, nothing is scheduled and no pass will act on it: none is past its second
look, and none holds a row that another pass settled. `QuietStays` is why the case then stays closed: a pass that
has a cancelled row stops at its second look, so only the writers that `disturbed` names can bring a
row or a state back. From them: `OnFileAlwaysWorked`, `PaidAlwaysClosed`.

`ProposalProofs`, over any table: a policy proposal is quoted, within the permitted fields
and beside the values in force; a taxonomy rule added under the key the script shows
diagnoses the cluster it was proposed for, and changes no diagnosis of another method,
reason or source.

`CaseAgentProofs`, for any cases, customers, replies, bars and caps: `AgentInv` is a conjunction
case by case. `InTheDark` cases (not known well enough, as the merchant's own faults are not,
or not known unpaid, and never cleared) are quiet: nothing pending, sent or executed; amounts
that may not be debited have no retry; an open case has a row or its link; what was stopped
is barred. The invariant
talks of rows as well as of deeds because a row armed today is the debit of tomorrow. From it:
`AgentTypes`, `ConsentAlwaysBounds`, `AlwaysVerifiedBeforeDebit`, `MerchantFaultsAlwaysStayInHouse`,
`OpenCasesAlwaysWorked`, `StopsAlwaysHonoured`, three theorems on replies, which rest on the
lemmas of `ReplyProofs`, and `AgentFollowsLifecycle`: each action is an `Open`, `Leave`, `Clear` or
`Pay` of `CaseLifecycle`, or changes nothing in it.

`OneOfEachAlways`: a handler cancels before it arms, or arms a case that was not diagnosed; the
invariant adds that nothing is pending on such a case (`OneEach`). `IgnoranceNeverBuysAnything` is about
arithmetic: confidence is directness over the number of documented causes, rounded, and without a
method the number is the greatest over the methods (`WorstCount`); a quotient that reaches the bar
reaches it with fewer causes. The same rule must be found either way (`SameRule`), which is what the
assumption on the table is for. That a finite set of numbers has a greatest is
an induction over its subsets, done by taking a smallest counterexample (`WFMin`), as the sums below.

`ProposalProofs` also holds the theorems about `Drafting`: what `draft_nudge` returns passes the
lint exactly as far as the merchant's name does; every blocked draft leaves its verdict; the
fixed messages would pass, but for the name they lack.

`MeasureProofs`: the baseline debits at the hour of the failure, so all of its attempts are in
a band or none is; the marks of a comparison are the attempts its total counts on each rail
that either module names.

It also holds the five properties of `Reports`, over every step of the agent beside its trail.
`DebitsAlwaysOnTheReport` and `ContactsAlwaysOnTheReport` compare two sums, before and after: a step that
adds a debit (a row, or an execution for a row) adds a record of it or the execution takes its row
(`DebitIsWritten`, `ContactIsWritten`), what happens without a record costs nothing more
(`UnreportedIsFree`), and no record is struck out, also where a diagnosis changes the class they are
counted under (`NothingIsStruckOut`, `NoDiagnosisIsTakenBack`). `FutileAlwaysNeedsAPerson` rests on
`Spared`: a case of a class no retry can fix, never cleared, has no message sent or under way, no
answer to one, and no debit in its trail. `RecoveriesAlwaysEarned` rests on `Earned`:
a case is recovered only by a payment, and paid only through a link that left. The two give
`PaymentsAreWithinReach`: what is paid without a person is diagnosed, and contested.

`CeilingAlwaysHolds` adds the money up. The sum is `MapThenSumSet`, a fold that takes the members in
an order of its own, so the proof first shows that there is such a function (`SumExists`) and but one
(`SumsAgree`), that any member may be taken first (`AnyOrder`), and that a larger set sums to no less
(`TotalGrows`); each by a smallest counterexample among the subsets. Diagnosed cases are finitely many
(`FewDiagnosed`), as each failure adds one.

Model-checked only: `DueRowsSettle`, the liveness of the queue, and fairness with it, which this
prover does not reach. No module uses a recursive operator.

## Where the code and its documents disagree

Each is a `violation` run with a finding in `PROJECT.json`:

1. `cancellation_loses`: a nudge cancelled while the executor runs is re-armed by
   `return_action` (`runner.py:356`).
2. `second_debit`: a failure held before it was diagnosed (unverified, or under a stop) is
   delivered again and armed while it waits for a reviewer; approved, it is armed a
   second time (`agent.py:58`, `agent.py:894`).
3. `absence_unseen`: an action without an executor is closed and nobody told
   (`runner.py:322`).
4. `ceiling_race`: two overlapping passes break the contact ceiling (`runner.py:173`).
5. `cap_overridden`: a session's stale retry count passes the cap (`agent.py:741`).
6. `paid_then_debited`: a promise or an approval handled after a payment re-arms a
   retry (`agent.py:715`). The runner may also undo a payment's close without any reply: see below.
7. `lost_work`: a crash after `mark_event` loses the work of an answered webhook
   (`webhooks.py:112`).

Seen while modelling and not made into a run: a service complaint is said to pause
recovery, and nothing scheduled is cancelled (`replies.py:184`); a cancellation in a
reply under a standing stop reaches nobody (`agent.py:592`); a retry refused on its
amount leaves the case open with nothing pending (`agent.py:244`); a row scheduled
outside an NPCI band may be executed inside one (`runner.py:341`); two processes may
both diagnose one case (`agent.py:60`); an event in another currency is rejected, which
`webhooks.py:39` says leads to a redelivery loop (`webhooks.py:103`); a taxonomy rule asked
for without a source, as the script's usage does, diagnoses no failure that names one
(`propose_taxonomy_rule.py:13`, theorem `RuleKeepsToItsCluster`); the block `ALERT_UNCONFIRMED` of `docs/spec.md:125` is not in the source; a link's
`reference_id`, unique per link (`paylink.py:53`), is the case id, so a second message of
one case may get no link. `OpenCasesAreWorked`, `WorkedOnce` and
`CancellationReachesAPerson` name these cases in their comments and leave them out.

Of the queue: a pass that has a retry in hand when the payment arrives holds the recovered case for
a person, whatever its state is by then (`runner.py:367`, after `agent.py:939`); a pass slower than its five-minute lease, and the one that reclaims its row,
both execute one retry, each under its own attempt (`runner.py:71`; the executor of this
deployment debits nobody, `runner.py:240`); and the message that "we tried a few times"
(`notify.py:110`) goes out all the same.

Of the agent: an approval re-arms a retry whatever class the reviewer chose, and records no
diagnosis (`agent.py:889`); a payment of a case under a stop is confirmed to its customer
(`agent.py:950`); a case whose fallback retry ran is held with its question pending, and an
approval may add a second message; `normalize.py:70` falls back from one reference of a customer to
another, so one person may be two to the ceiling and to stops; `policy.py` does not check that
bands are apart, which `BandAssumption` of `ExecutionBands` asks of them.

Of the drafts: `draft.py:10` says that after two blocked drafts nothing is sent and a person gets
the case, while `draft_nudge` returns a fixed text (`draft.py:131`); nothing but its tests calls it,
so the runner's messages are not linted; the lint takes the amount for named when its digits
occur anywhere (`lint.py:108`); a draft cut off at the token ceiling is taken as whole
(`draft.py:70`).

Of the reports: `report.py:98` counts records that begin with "retry at", so the debits behind a
question ("fallback retry at") are missing from the batch, which `compare.py:33` calls the direction
of error the project can least afford; `compare.py:40` itself leaves out "retry re-armed after
review to", and the contact of "retries spent" carries no cost and is not counted, which
`DebitsAreOnTheReport` and `ContactsAreOnTheReport` add back by name; a retry cancelled for a promise
stays counted beside the one that replaced it; the agent's attempts in a band are never
counted at all; on a rail nobody named the comparison may mark attempts that the count
leaves out (`baseline.py:119`, theorem `MarksAreTheCount`); `report.py:139` takes unknown failures for futile
and `baseline.py:65` takes revoked ones; a hold or a rejection after a payment takes the case out of
calibration's recoveries.

Of the log: `schedule.py` knows a row by case, time and kind, so two rows of one case and kind
in one pass are shown once.

## What is not modelled

- Summaries, and the wording of messages beyond what the lint looks for.
- What a model answers, and what the provider answers: chosen by the environment.
- Whether a payment link could be made: the message goes out either way.
- `report.py`'s figures over a generated batch and `generate.py`; the break-even rate; rendering.
- `schedule.py` and the other scripts that only look.
- Command line and terminal screens; the two commands that change state are modelled.
- HTTP, signatures, SQLite: a request is delivered or not, a transaction is atomic.

## Plan

Order of the whole: the queue and the runner first, as that is where money and messages
leave; then the agent, whose handlers arm them; then ingest; then the pure policies as
modules of their own; then what composes them.

Done: `ContactPolicy`, `ExecutionBands`, `ActionQueue` with its ledger; `Taxonomy`, `Ladder`,
`AmountLimits`, `ReplyParsing`, `ReplyPolicy`, `CaseAgent` over them with `CaseLifecycle` above it;
`Reports` and `Measures`; `WebhookIngest`; `Proposals`, `Drafting`; the proofs above.

Next, in order:

1. `ActionQueue` as what `CaseAgent`'s `RunRetry` and `RunNudge` stand for.
2. The safety half of `DueRowsSettle`: that no row leaves the queue but by a settlement, and that a
   due row nobody holds can always be claimed, as invariants.
3. How far the ceiling can be exceeded with several passes, as a bound in their number.
4. The log of `schedule.py`, as an observer of the queue.
