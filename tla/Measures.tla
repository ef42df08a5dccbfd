------------------------------- MODULE Measures -------------------------------
(***************************************************************************)
(* What is counted about the agent and about the provider's own retries    *)
(* (measure/).  The baseline is replayed, never observed: what it does     *)
(* with one failure is a function of the method and of the moment.  The    *)
(* agent's side is read off the audit trail, of which a record is its kind *)
(* here; a trail says how often each kind occurs.  Rates and shares are    *)
(* left as the two numbers they divide.                                    *)
(***************************************************************************)
EXTENDS Ladder, Taxonomy, ExecutionBands, FiniteSetsExt

CONSTANT AutoFrom   \* confidence_auto_execute, in percent

ASSUME MeasureAssumption == AutoFrom \in Nat /\ ActsFrom <= AutoFrom

-----------------------------------------------------------------------------
(* baseline.py *)

(* FUTILE: an expired card does not un-expire overnight *)
Futile == {"mandate-state-broken", "customer-intent-revoked"}

(* RetryModel: a rail that cannot be named is not assumed to be governed by a rule
   of UPI *)
Model(banded, documented) ==
  [retries |-> 3, interval |-> Day, banded |-> banded, documented |-> documented]
ModelFor(method) ==
  CASE method = "upi" -> Model(TRUE, TRUE)
    [] method = "card" -> Model(FALSE, TRUE)
    [] OTHER -> Model(FALSE, FALSE)

(* when the baseline debits again, after a failure at t *)
BaselineTimes(method, t) ==
  {t + n * ModelFor(method).interval : n \in 1 .. ModelFor(method).retries}

(* run: whether an attempt is inside a band is asked for without a method *)
BaselineRun(method, class, t) ==
  [attempts |-> BaselineTimes(method, t),
   inBands |-> {u \in BaselineTimes(method, t) :
                  ModelFor(method).banded /\ ~IsExecutionAllowed(u, Absent)},
   futile |-> IF class \in Futile THEN BaselineTimes(method, t) ELSE {},
   assumption |-> ~ModelFor(method).documented]

(* _baseline_side: the attempts that carry the mark of a band, asked for with it *)
MarkedInBand(method, t) ==
  {u \in BaselineTimes(method, t) : ~IsExecutionAllowed(u, method)}

-----------------------------------------------------------------------------
(* compare.py: the records of one case, by kind *)

Notes == {"retry-at", "fallback-retry-at", "retry-realigned-to",
          "retry-re-armed-after-review", "entering-at-rung", "retries-spent"}

(* mutation: the question is counted and not the debit behind it *)
QuestionsOnly(notes) == notes["retry-at"] + notes["retry-realigned-to"]

(* the debits that were put on the calendar, by the kinds in _SCHEDULED *)
Scheduled(notes) ==
  notes["retry-at"] + notes["retry-realigned-to"] + notes["fallback-retry-at"]

(* mutation: costs in whole rupees, of which a message's is not one *)
CostsRupees(rung) == rung # NoRung /\ Cost[rung] > 1

(* cost_paise of an escalation record, if it is not nothing *)
HasCost(rung) == rung # NoRung /\ Cost[rung] > 0

(* _agent_side: the debits, those of them that cannot work, and the contacts;
   of the escalation records only the one of the entry carries a cost *)
AgentSide(notes, class) ==
  [attempts |-> Scheduled(notes),
   futile |-> IF class \in Futile THEN Scheduled(notes) ELSE 0,
   contacts |-> IF HasCost(EntryRung(class)) THEN notes["entering-at-rung"] ELSE 0]

-----------------------------------------------------------------------------
(* outcomes.py: money by what each policy can reach *)

Reaches == {"unreachable", "must-not-take", "unclassified", "contested"}
ReachOf(class) ==
  CASE class = "mandate-state-broken" -> "unreachable"
    [] class = "customer-intent-revoked" -> "must-not-take"
    [] class = "unknown" -> "unclassified"
    [] OTHER -> "contested"

(* classify, of the cases whose amount and class are given *)
Exposure(cases, amount, class) ==
  [reach \in Reaches |->
     LET reached == {c \in cases : ReachOf(class[c]) = reach}
     IN [cases |-> Cardinality(reached),
         money |-> MapThenSumSet(LAMBDA c : amount[c], reached)]]

(* envelope *)
BaselineCeiling(exposure) ==
  exposure["contested"].money + exposure["unclassified"].money
AgentCeiling(exposure) == BaselineCeiling(exposure) + exposure["unreachable"].money

-----------------------------------------------------------------------------
(* calibration.py: of the diagnosed cases that came to an end which the diagnosis
   could have brought about, how many recovered, by the authority it had *)

Authority(diagnosis) ==
  IF diagnosis.confidence >= AutoFrom THEN "auto-execute"
  ELSE IF diagnosis.confidence >= ActsFrom THEN "auto-execute-sampled-qa"
  ELSE "hold-for-human"

Ended == {"recovered", "unrecovered", "closed-revoked", "closed-false-failure"}
NotARecoveryQuestion == {"closed-revoked", "closed-false-failure"}

(* measure: the cases of a band, and those of them that recovered *)
BandCases(band, cases, diagnosis, state) ==
  {c \in cases : /\ state[c] \in Ended \ NotARecoveryQuestion
                 /\ Authority(diagnosis[c]) = band}
BandRecovered(band, cases, diagnosis, state) ==
  {c \in BandCases(band, cases, diagnosis, state) : state[c] = "recovered"}
===============================================================================
