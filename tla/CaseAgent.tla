------------------------------ MODULE CaseAgent ------------------------------
(***************************************************************************)
(* The agent (agent.py): what a failure, a customer's reply, a reviewer's  *)
(* decision and a payment do to a case, to what is scheduled against it,   *)
(* and to the stops that stand over it.                                    *)
(*                                                                         *)
(* Each handler is one step here; ActionQueue models what happens between  *)
(* the transactions of a handler and of the runner.  When a row falls due  *)
(* is ActionQueue's business as well: here a pending row may run at any    *)
(* time.  What does not happen at once is kept apart: a reply session      *)
(* holds the case it read when it began, and a reviewer decides on a case  *)
(* picked from a list drawn earlier.                                       *)
(***************************************************************************)
EXTENDS Ladder, ReplyParsing, AmountLimits, Taxonomy

CONSTANTS
  Cases, Customers,
  CustomerOf,     \* the customer of each case
  SignalOf,       \* the failure signal of each case
  AmountOf,       \* amount of each case, in rupees
  MandateMaxOf,   \* mandate_max_paise of each case's signal, in rupees
  Executors,      \* kinds the runner has an executor for
  RetryCap,       \* RETRY_CAP
  Codes,          \* stops raised from outside, besides those a reply raises
  Replies,        \* what the model may answer to a reply, call by call
  MaxInputs,      \* bound on failures, replies, decisions and stops taken in
  None            \* no case on the reviewer's screen, no session

Kinds == {"retry"} \cup {Slug(r) : r \in Rungs \ {SilentRetry}}

(* RULES: the reach of a stop, the state it leaves the case in, if any, and
   whether it bars contact from then on; merchant scope acts as customer scope *)
Rule(scope, terminal, suppresses) ==
  [scope |-> scope, terminal |-> terminal, suppresses |-> suppresses]
Rules ==
  [REVOKED        |-> Rule("customer", "closed-revoked", TRUE),
   OPT_OUT        |-> Rule("customer", None, TRUE),
   DISPUTE        |-> Rule("customer", "held-for-human", TRUE),
   DISTRESS       |-> Rule("case", "held-for-human", TRUE),
   RETRY_CAP      |-> Rule("case", None, FALSE),
   LADDER_END     |-> Rule("case", "unrecovered", TRUE),
   CHARGEBACK     |-> Rule("customer", "held-for-human", TRUE),
   MERCHANT_PAUSE |-> Rule("customer", None, TRUE),
   REG_HOLD       |-> Rule("case", "held-for-human", TRUE)]

ASSUME AgentAssumption ==
  /\ CustomerOf \in [Cases -> Customers]
  /\ Cases \cap Customers = {}
  /\ SignalOf \in [Cases -> [method : STRING, reason : STRING, source : STRING,
                              step : STRING, ordered : BOOLEAN]]
  /\ AmountOf \in [Cases -> Nat]
  /\ MandateMaxOf \in [Cases -> Nat \cup {NoCeiling}]
  /\ Executors \subseteq {"retry", "nudge"}
  /\ RetryCap \in Nat /\ MaxInputs \in Nat
  /\ Codes \subseteq DOMAIN Rules
  /\ \A calls \in Replies, i \in 1 .. Attempts : IsAnswer(calls[i])
  /\ None \notin Cases /\ None \notin Nat

(* what diagnose makes of a case, and what is asked before it is believed *)
ClassOf == [c \in Cases |-> Lookup(SignalOf[c]).class]
Confident == {c \in Cases : Acts(Lookup(SignalOf[c]))}
Unsettled == {c \in Cases : NeedsVerification(SignalOf[c])}

(* the rail a limit is looked up under *)
MethodOf ==
  [c \in Cases |-> IF SignalOf[c].method \in Methods THEN SignalOf[c].method ELSE "other"]

(* parse, of every answer the model may give *)
Reading == [calls \in Replies |-> Parse(calls)]

VARIABLES
  caseState, retry_count,   \* columns of cases
  answerable,     \* cases whose last execution on record is a message that left
  diagnosed,      \* cases with a row in diagnoses
  pending,        \* how many rows of each kind are pending, by case
  escalated,      \* cases with ESCALATED_AFTER_CAP in the trail
  barred,         \* cases and customers with a standing suppression
  session,        \* retry_count of the case a reply session holds
  desk,           \* the case on the reviewer's screen
  inputs,         \* inputs taken in so far
  (* what happened, kept for the properties *)
  messages,       \* messages that left, by case
  stopped,        \* scopes stopped and not lifted since
  approved,       \* cases a person cleared
  verified,       \* cases found unpaid by a verification
  paid,           \* cases paid through their link
  excused         \* cases a stop ever covered, or that lost a row unexecuted

books == <<caseState, retry_count, answerable, diagnosed, pending, escalated>>
history == <<messages, stopped, approved, verified, paid, excused>>
vars == <<caseState, retry_count, answerable, diagnosed, pending, escalated, barred,
          session, desk, inputs, messages, stopped, approved, verified, paid, excused>>

Init ==
  /\ caseState = [c \in Cases |-> "absent"]
  /\ retry_count = [c \in Cases |-> 0]
  /\ answerable = {}
  /\ diagnosed = {}
  /\ pending = [c \in Cases |-> [k \in Kinds |-> 0]]
  /\ escalated = {}
  /\ barred = {}
  /\ session = [c \in Cases |-> None]
  /\ desk = None
  /\ inputs = 0
  /\ messages = [c \in Cases |-> 0]
  /\ stopped = {}
  /\ approved = {}
  /\ verified = {}
  /\ paid = {}
  /\ excused = {}

-----------------------------------------------------------------------------
(* Stops, cancellation and the retry request every path goes through. *)

Covers(scope, c) == scope = c \/ scope = CustomerOf[c]

(* contact_suppression(case_id, customer_ref) *)
Standing(c) == \E scope \in barred : Covers(scope, c)

(* mutation: what is scheduled stays, beside what replaces it *)
CancelsNothing(scope) == pending

(* cancel_pending, within a case or a customer *)
Cancelled(scope) ==
  [c \in Cases |-> IF Covers(scope, c) THEN [k \in Kinds |-> 0] ELSE pending[c]]

(* schedule_action *)
Arm(rows, c, kind) == [rows EXCEPT ![c][kind] = @ + 1]

Input == inputs < MaxInputs /\ inputs' = inputs + 1

(* _amount_permitted: asked before every retry, whoever asks for it *)
AmountPermitted(c) == MayAttempt(AmountOf[c], MethodOf[c], MandateMaxOf[c])

(* where the latest diagnosis, if there is one, enters the ladder *)
LatestEntry(c) == IF c \in diagnosed THEN EntryRung(ClassOf[c]) ELSE NoRung

(* mutation: the refusal goes to the trail and nobody else *)
RefuseQuietly(c, entry, rows, states) ==
  pending' = rows /\ caseState' = states /\ UNCHANGED escalated

(* escalate_after_cap: the next rung with an executor; failing that one link,
   once; failing that a person *)
EscalateAfterCap(c, entry, rows, states) ==
  LET above == NextExecutable(entry, Executors)
      rung == IF above = NoRung THEN Nudge ELSE above
      exhausted == above = NoRung /\ c \in escalated
  IN \/ /\ exhausted
        /\ caseState' = [states EXCEPT ![c] = "held-for-human"]
        /\ pending' = rows /\ UNCHANGED escalated
     \/ /\ ~exhausted /\ ~Approved(rung, AmountOf[c])
        /\ caseState' = [states EXCEPT ![c] = "unrecovered"]
        /\ pending' = rows /\ UNCHANGED escalated
     \/ /\ ~exhausted /\ Approved(rung, AmountOf[c])
        /\ pending' = Arm(rows, c, Slug(rung))
        /\ escalated' = escalated \cup {c}
        /\ caseState' = states

(* schedule_retry on the retry count its caller holds, over the rows and states
   the handler has left so far *)
RequestRetry(c, entry, count, rows, states) ==
  \/ /\ count < RetryCap
     /\ pending' = Arm(rows, c, "retry") /\ caseState' = states
     /\ UNCHANGED escalated
  \/ /\ count >= RetryCap
     /\ EscalateAfterCap(c, entry, rows, states)

-----------------------------------------------------------------------------
(* handle_failure *)

(* mutation: whatever comes in again is worked on again *)
Reopened(c) == [caseState EXCEPT ![c] = "open"]

Opened(c) ==
  IF caseState[c] = "absent" THEN [caseState EXCEPT ![c] = "open"] ELSE caseState

(* a signal that is already diagnosed stops here *)
AlreadyProcessed(c) ==
  /\ c \in diagnosed
  /\ UNCHANGED <<books, history>>

(* a failure under a standing stop opens a case and schedules nothing *)
OpenUnderAStop(c) ==
  /\ c \notin diagnosed /\ Standing(c)
  /\ caseState' = [caseState EXCEPT ![c] = "held-for-human"]
  /\ UNCHANGED <<retry_count, answerable, diagnosed, pending, escalated, history>>

ToVerify(c) == c \notin diagnosed /\ ~Standing(c) /\ c \in Unsettled

(* order_settled, asked only of a failure that may not be one *)
Checks(c) == IF c \in Unsettled THEN {"unavailable", "paid", "unpaid"} ELSE {"not-asked"}

(* mutation: what could not be checked counts as not paid *)
NeverInDoubt(check) == FALSE

(* _verify: no verifier, or one that cannot answer, is not a negative answer *)
InDoubt(check) == check = "unavailable"

HoldUnverified(c, check) ==
  /\ ToVerify(c) /\ InDoubt(check)
  /\ caseState' = [caseState EXCEPT ![c] = "held-for-human"]
  /\ UNCHANGED <<retry_count, answerable, diagnosed, pending, escalated, history>>

CloseFalseFailure(c, check) ==
  /\ ToVerify(c) /\ check = "paid"
  /\ caseState' = [caseState EXCEPT ![c] = "closed-false-failure"]
  /\ pending' = Cancelled(c)
  /\ UNCHANGED <<retry_count, answerable, diagnosed, escalated, history>>

(* _schedule_balance_fallback: the blind retry beside the question to an empty
   account, refused without escalation *)
HasFallback(c) ==
  /\ ClassOf[c] = "recoverable-balance"
  /\ AmountPermitted(c) /\ retry_count[c] < RetryCap

(* diagnosis, then the rung it enters at *)
Diagnose(c, check) ==
  LET rung == EntryRung(ClassOf[c])
      asked == Arm(pending, c, Slug(rung))
  IN /\ c \notin diagnosed /\ ~Standing(c)
     /\ c \in Unsettled => ~InDoubt(check) /\ check # "paid"
     /\ diagnosed' = diagnosed \cup {c}
     /\ verified' = IF c \in Unsettled /\ check = "unpaid" THEN verified \cup {c}
                    ELSE verified
     /\ \/ /\ c \notin Confident
           /\ caseState' = [caseState EXCEPT ![c] = "held-for-human"]
           /\ UNCHANGED <<pending, escalated>>
        \/ /\ c \in Confident /\ rung = NoRung
           /\ caseState' = Opened(c)
           /\ UNCHANGED <<pending, escalated>>
        \/ /\ c \in Confident /\ rung # NoRung /\ ~Approved(rung, AmountOf[c])
           /\ caseState' = [caseState EXCEPT ![c] = "unrecovered"]
           /\ pending' = Cancelled(c)
           /\ UNCHANGED escalated
        \/ /\ c \in Confident /\ rung \notin {NoRung, SilentRetry}
           /\ Approved(rung, AmountOf[c])
           /\ caseState' = Opened(c)
           /\ pending' = IF HasFallback(c) THEN Arm(asked, c, "retry") ELSE asked
           /\ UNCHANGED escalated
        \/ /\ c \in Confident /\ rung = SilentRetry /\ Approved(rung, AmountOf[c])
           /\ IF AmountPermitted(c)
              THEN RequestRetry(c, rung, retry_count[c], pending, Opened(c))
              ELSE caseState' = Opened(c) /\ UNCHANGED <<pending, escalated>>
     /\ UNCHANGED <<retry_count, answerable, messages, stopped, approved, paid, excused>>

HandleFailure(c, check) ==
  /\ Input
  /\ \/ AlreadyProcessed(c)
     \/ OpenUnderAStop(c)
     \/ HoldUnverified(c, check)
     \/ CloseFalseFailure(c, check)
     \/ Diagnose(c, check)
  /\ UNCHANGED <<barred, session, desk>>

-----------------------------------------------------------------------------
(* apply_stop *)

KeyOf(c, code) == IF Rules[code].scope = "case" THEN c ELSE CustomerOf[c]

(* mutation: any stop over the case counts, at whichever scope *)
StandsSomewhere(c, code) == Standing(c)

(* a stop is not written twice at its own scope *)
StandsAtScope(c, code) == KeyOf(c, code) \in barred

(* everything a stop does but the state it leaves the case in *)
Stop(c, code) ==
  /\ pending' = Cancelled(KeyOf(c, code))
  /\ excused' = excused \cup {d \in Cases : Covers(KeyOf(c, code), d)}
  /\ IF Rules[code].suppresses
     THEN /\ barred' = IF StandsAtScope(c, code) THEN barred
                       ELSE barred \cup {KeyOf(c, code)}
          /\ stopped' = stopped \cup {KeyOf(c, code)}
     ELSE UNCHANGED <<barred, stopped>>

Terminal(c, code) ==
  IF Rules[code].terminal = None THEN caseState
  ELSE [caseState EXCEPT ![c] = Rules[code].terminal]

ApplyStop(c, code) ==
  /\ Input
  /\ caseState[c] # "absent"
  /\ Stop(c, code)
  /\ caseState' = Terminal(c, code)
  /\ UNCHANGED <<retry_count, answerable, diagnosed, escalated, session, desk,
                 messages, approved, verified, paid>>

(* lift_suppression, by a named person *)
Lift(scope) ==
  /\ scope \in barred
  /\ barred' = barred \ {scope}
  /\ stopped' = stopped \ {scope}
  /\ UNCHANGED <<books, session, desk, inputs, messages, approved, verified, paid,
                 excused>>

-----------------------------------------------------------------------------
(* handle_reply, from a session opened on a case whose message was delivered *)

Converse(c) ==
  /\ Input
  /\ c \in answerable /\ caseState[c] # "recovered"
  /\ c \in diagnosed /\ EntryRung(ClassOf[c]) \notin {NoRung, SilentRetry}
  /\ session' = [session EXCEPT ![c] = retry_count[c]]
  /\ UNCHANGED <<books, barred, desk, history>>

(* under a standing stop a reply is recorded and nothing else *)
IgnoreReply(c) ==
  /\ Standing(c)
  /\ UNCHANGED <<books, barred, stopped, approved, excused>>

StopOnReply(c, outcome) ==
  /\ ~Standing(c) /\ outcome.stop # NoStop
  /\ Stop(c, outcome.stop)
  /\ caseState' = IF outcome.human /\ Rules[outcome.stop].terminal = None
                  THEN [caseState EXCEPT ![c] = "held-for-human"]
                  ELSE Terminal(c, outcome.stop)
  /\ UNCHANGED <<retry_count, answerable, diagnosed, escalated, approved>>

HoldOnReply(c, outcome) ==
  /\ ~Standing(c) /\ outcome.stop = NoStop /\ outcome.human
  /\ pending' = Cancelled(c)
  /\ caseState' = [caseState EXCEPT ![c] = "held-for-human"]
  /\ UNCHANGED <<retry_count, answerable, diagnosed, escalated, barred, stopped,
                 approved, excused>>

(* the promise replaces what is scheduled, on the count the session holds *)
Realign(c, outcome) ==
  /\ ~Standing(c) /\ outcome.promise
  /\ IF AmountPermitted(c)
     THEN RequestRetry(c, LatestEntry(c), session[c], Cancelled(c), caseState)
     ELSE pending' = Cancelled(c) /\ UNCHANGED <<caseState, escalated>>
  /\ UNCHANGED <<retry_count, answerable, diagnosed, barred, stopped, approved, excused>>

NoteReply(c, outcome) ==
  /\ ~Standing(c) /\ outcome.stop = NoStop /\ ~outcome.human /\ ~outcome.promise
  /\ UNCHANGED <<books, barred, stopped, approved, excused>>

(* the session looks for a payment before it reads a line, not after *)
HandleReply(c, calls) ==
  /\ Input
  /\ session[c] # None
  /\ \/ IgnoreReply(c)
     \/ LET outcome == Decide(Reading[calls])
        IN \/ StopOnReply(c, outcome)
           \/ HoldOnReply(c, outcome)
           \/ Realign(c, outcome)
           \/ NoteReply(c, outcome)
  /\ session' = IF caseState[c] = "recovered" THEN [session EXCEPT ![c] = None]
                ELSE session
  /\ UNCHANGED <<desk, messages, verified, paid>>

-----------------------------------------------------------------------------
(* scripts/review.py *)

PickUp(c) ==
  /\ desk = None /\ caseState[c] = "held-for-human"
  /\ desk' = c
  /\ UNCHANGED <<books, barred, session, inputs, history>>

PutBack ==
  /\ desk # None
  /\ desk' = None
  /\ UNCHANGED <<books, barred, session, inputs, history>>

(* approved or reclassified: open again, and resume_after_review *)
Approve(c) ==
  /\ Input
  /\ desk = c /\ desk' = None
  /\ approved' = approved \cup {c}
  /\ LET reopened == [caseState EXCEPT ![c] = "open"]
     IN IF AmountPermitted(c)
        THEN RequestRetry(c, LatestEntry(c), retry_count[c], pending, reopened)
        ELSE caseState' = reopened /\ UNCHANGED <<pending, escalated>>
  /\ UNCHANGED <<retry_count, answerable, diagnosed, barred, session, messages,
                 stopped, verified, paid, excused>>

Reject(c) ==
  /\ Input
  /\ desk = c /\ desk' = None
  /\ caseState' = [caseState EXCEPT ![c] = "unrecovered"]
  /\ UNCHANGED <<retry_count, answerable, diagnosed, pending, escalated, barred,
                 session, history>>

-----------------------------------------------------------------------------
(* mark_recovered: paid through a link that a message carried; a second event about it
   cancels and closes again *)
MarkRecovered(c) ==
  /\ messages[c] > 0
  /\ pending' = Cancelled(c)
  /\ caseState' = [caseState EXCEPT ![c] = "recovered"]
  /\ paid' = paid \cup {c}
  /\ UNCHANGED <<retry_count, answerable, diagnosed, escalated, barred, session, desk,
                 inputs, messages, stopped, approved, verified, excused>>

-----------------------------------------------------------------------------
(* run_due, one row of it *)

(* the last gate before anything reaches a customer *)
Gated(c) == Standing(c)

(* mutation: the row is not read again before it is executed *)
TakeUnread(c, kind) == pending' = [pending EXCEPT ![c][kind] = @ - 1]

Take(c, kind) ==
  /\ pending[c][kind] > 0
  /\ pending' = [pending EXCEPT ![c][kind] = @ - 1]

(* stopped at the gate, without an executor, or raising: the row is spent, on no
   record *)
Drop(c, kind) ==
  /\ Take(c, kind)
  /\ Gated(c) \/ kind \notin Executors \/ kind = "nudge"
  /\ excused' = excused \cup {c}
  /\ UNCHANGED <<caseState, retry_count, answerable, diagnosed, escalated, barred,
                 session, desk, inputs, messages, stopped, approved, verified, paid>>

RunNudge(c) ==
  /\ Take(c, "nudge") /\ ~Gated(c) /\ "nudge" \in Executors
  /\ messages' = [messages EXCEPT ![c] = @ + 1]
  /\ answerable' = answerable \cup {c}
  /\ UNCHANGED <<caseState, retry_count, diagnosed, escalated, barred, session,
                 desk, inputs, stopped, approved, verified, paid, excused>>

(* outside contact hours, over budget or before a promised date: on record, and
   the row goes back *)
DeferNudge(c) ==
  /\ pending[c]["nudge"] > 0 /\ ~Gated(c) /\ "nudge" \in Executors
  /\ answerable' = answerable \ {c}
  /\ UNCHANGED <<caseState, retry_count, diagnosed, pending, escalated, barred,
                 session, desk, inputs, history>>

(* counted as a debit attempt and handed to a person, whatever came back *)
RunRetry(c) ==
  /\ Take(c, "retry") /\ ~Gated(c) /\ "retry" \in Executors
  /\ retry_count' = [retry_count EXCEPT ![c] = @ + 1]
  /\ caseState' = [caseState EXCEPT ![c] = "held-for-human"]
  /\ answerable' = answerable \ {c}
  /\ UNCHANGED <<diagnosed, escalated, barred, session, desk, inputs, history>>

Next ==
  \/ \E c \in Cases : \E check \in Checks(c) : HandleFailure(c, check)
  \/ \E c \in Cases, code \in Codes : ApplyStop(c, code)
  \/ \E scope \in Cases \cup Customers : Lift(scope)
  \/ \E c \in Cases : Converse(c) \/ \E calls \in Replies : HandleReply(c, calls)
  \/ \E c \in Cases : PickUp(c) \/ Approve(c) \/ Reject(c) \/ MarkRecovered(c)
  \/ PutBack
  \/ \E c \in Cases : RunNudge(c) \/ DeferNudge(c) \/ RunRetry(c)
  \/ \E c \in Cases, kind \in Kinds : Drop(c, kind)

Spec == Init /\ [][Next]_vars

-----------------------------------------------------------------------------
CaseStates == {"absent", "open", "held-for-human", "recovered", "unrecovered",
               "closed-revoked", "closed-false-failure"}

(* Every table and every local copy holds what its schema or code gives it. *)
TypeOK ==
  /\ caseState \in [Cases -> CaseStates]
  /\ retry_count \in [Cases -> Nat]
  /\ answerable \subseteq Cases /\ diagnosed \subseteq Cases
  /\ pending \in [Cases -> [Kinds -> Nat]]
  /\ escalated \subseteq Cases
  /\ barred \subseteq Cases \cup Customers
  /\ session \in [Cases -> Nat \cup {None}]
  /\ desk \in Cases \cup {None}
  /\ inputs \in 0 .. MaxInputs
  /\ messages \in [Cases -> Nat]
  /\ stopped \subseteq Cases \cup Customers
  /\ approved \subseteq Cases /\ verified \subseteq Cases
  /\ paid \subseteq Cases /\ excused \subseteq Cases

(* A stop stays in force (agent.py:540, runner.py:300): from the stop until a
   person lifts it at its own scope, no message leaves and no debit is attempted
   on any case in its reach, whatever is armed, approved or promised meanwhile. *)
StopIsHonoured ==
  [][\A c \in Cases :
       messages'[c] # messages[c] \/ retry_count'[c] # retry_count[c]
         => ~\E scope \in stopped : Covers(scope, c)]_vars

(* "Could not check" is never "not paid" (agent.py:795): a failure that may not
   be one is neither debited nor chased until a verification found it unpaid or a
   person cleared it, in whatever order redeliveries, replies and stops come. *)
VerifiedBeforeDebit ==
  \A c \in Unsettled :
    retry_count[c] > 0 \/ messages[c] > 0 => c \in verified \cup approved

(* "A case with nothing pending and nobody told is not a decision; it is an
   omission" (agent.py:414): an open case has a row pending or its link sent.
   Left out are the cases the code does leave so: amounts that may not be
   debited, classes without a rung, and rows lost to a stop or at the runner. *)
OpenCasesAreWorked ==
  \A c \in Cases \ excused :
    AmountPermitted(c) /\ caseState[c] = "open" /\ EntryRung(ClassOf[c]) # NoRung
      => messages[c] > 0 \/ \E kind \in Kinds : pending[c][kind] > 0

(* An amount the customer never agreed to is debited on no path (agent.py:299, "a
   check that runs on one path out of four is a check a case can walk around"):
   no retry is armed for it, whether the failure, a promise or a reviewer asks. *)
ConsentBoundsDebits ==
  \A c \in Cases :
    MandateMaxOf[c] # NoCeiling /\ AmountOf[c] > MandateMaxOf[c]
      => pending[c]["retry"] = 0 /\ retry_count[c] = 0

(* "No customer is contacted about it" (taxonomy.py:413): a fault of the merchant's
   own is neither chased nor retried, whatever reason it came under and however
   often it is delivered, unless a person clears it. *)
MerchantFaultsStayInHouse ==
  \A c \in Cases \ approved :
    SignalOf[c].source \in MerchantSources => messages[c] = 0 /\ retry_count[c] = 0

(* "Knowing less must never buy more autonomy" (taxonomy.py:96): a failure whose
   method nobody gave is acted on only if it would be under every method the
   provider documents it for, unless a person clears it. *)
IgnoranceBuysNothing ==
  \A c \in Cases \ approved, e \in DOMAIN Causes :
    /\ SignalOf[c].method = Absent /\ SignalOf[c].reason = e[2] /\ e[1] # AnyMethod
    /\ retry_count[c] > 0 \/ messages[c] > 0
    => Acts(Lookup([SignalOf[c] EXCEPT !.method = e[1]]))

(* A cancellation reaches a person (agent.py:668, replies.py:163), whatever else
   the same reply says and whatever is scheduled, unless contact is already
   stopped: the case is held and nothing is left to run on it. *)
CancellationReachesAPerson ==
  [][\A c \in Cases, calls \in Replies :
       /\ session[c] # None /\ inputs' # inputs /\ ~Standing(c)
       /\ ~Reading[calls].failed /\ Cancels(Reading[calls])
       /\ HandleReply(c, calls)
       => /\ caseState'[c] = "held-for-human"
          /\ \A kind \in Kinds : pending'[c][kind] = 0]_vars

(* "A model that cites a phrase nobody wrote is not citing evidence" (evidence.py:5):
   contact is barred, or a debit armed, only on words the customer wrote, whatever
   else the model claims to have read beside them. *)
Said(calls, types) ==
  \E intent \in ModelAnswer(calls).intents : intent.quoted /\ intent.type \in types
OnlyTheirWordsCount ==
  [][\A c \in Cases, calls \in Replies :
       /\ session[c] # None /\ inputs' # inputs
       /\ barred' # barred \/ pending'[c] # pending[c]
       /\ ~ModelAnswer(calls).distressed /\ HandleReply(c, calls)
       => /\ barred' # barred => Said(calls, {"distress", "dispute", "opt-out"})
          /\ \A kind \in Kinds : pending'[c][kind] > pending[c][kind] =>
               Said(calls, {"promise-to-pay"})]_vars

(* "No action fires on a stale assumption" (reply.py:203): of a reply that was not
   read to its end nothing is acted on, the call before or the cut-off rest of it
   included; what was scheduled is withdrawn and a person gets the case. *)
SilenceReachesAPerson ==
  [][\A c \in Cases, calls \in Replies :
       /\ session[c] # None /\ inputs' # inputs /\ ~Standing(c)
       /\ ModelAnswer(calls).kind # "read" /\ HandleReply(c, calls)
       => /\ caseState'[c] = "held-for-human" /\ barred' = barred
          /\ \A kind \in Kinds : pending'[c][kind] = 0]_vars

(* One failure is one debit and one message under way: repeated events, realigned
   promises and stops replace what is scheduled and never add to it, until a person
   clears the case. *)
OneOfEachUntilCleared ==
  \A c \in Cases \ approved, kind \in Kinds : pending[c][kind] <= 1

-----------------------------------------------------------------------------
(* Refinement: the column "state" of cases, with what people decided and paid,
   implements the life cycle of a case. *)
Lifecycle == INSTANCE CaseLifecycle WITH
  state <- caseState, cleared <- approved, settled <- paid

(* A case that left automation comes back only through a reviewer, whatever is
   redelivered, replied, promised or stopped meanwhile, and counts as recovered
   only on a payment. *)
FollowsLifecycle == Lifecycle!Spec

-----------------------------------------------------------------------------
(* What the documents say and the code does not do. *)

(* retry_orchestration.feature:31, "Retry cap cannot be overridden by any
   component": a cycle has RetryCap debit attempts and no more. *)
RetryCapHolds == \A c \in Cases : retry_count[c] <= RetryCap

(* agent.py:81, "a second scheduled debit for a failure that happened once": a case
   never has two. *)
OneDebitPerFailure == \A c \in Cases : pending[c]["retry"] <= 1

(* agent.py:925: a retry re-armed by a person, or one already scheduled, "has
   nothing left to do once the money has arrived by a different route". *)
PaidIsNotDebited ==
  [][\A c \in paid : retry_count'[c] = retry_count[c]]_vars
=============================================================================
