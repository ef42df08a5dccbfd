------------------------------- MODULE Reports -------------------------------
(***************************************************************************)
(* The agent with its audit trail, as far as the reports read it (measure/ *)
(* over the records agent.py writes), and what the reports say of it.      *)
(* Every handler of CaseAgent takes the step it takes there, and writes    *)
(* the records of that step.                                               *)
(***************************************************************************)
EXTENDS CaseAgent, Measures

VARIABLE trail   \* how many records of each kind are on file, by case

reportVars == <<vars, trail>>

ReportInit == Init /\ trail = [c \in Cases |-> [n \in Notes |-> 0]]

Record(c, notes) ==
  trail' = [trail EXCEPT ![c] =
              [n \in Notes |-> IF n \in notes THEN @[n] + 1 ELSE @[n]]]

(* a row was armed over what was pending, and its record says how it came about *)
ArmedRetry(c, rows, note) ==
  IF pending'[c]["retry"] > rows["retry"] THEN {note} ELSE {}
ArmedLink(c, rows) ==
  IF \E kind \in Kinds \ {"retry"} : pending'[c][kind] > rows[kind]
  THEN {"retries-spent"} ELSE {}

(* the records of handle_failure: where it enters, if it does, and what it armed *)
FailureNotes(c) ==
  LET rung == EntryRung(ClassOf[c])
      enters == /\ c \in diagnosed' \ diagnosed /\ c \in Confident
                /\ rung # NoRung /\ Approved(rung, AmountOf[c])
  IN IF ~enters THEN {}
     ELSE {"entering-at-rung"}
          \cup IF rung = SilentRetry
               THEN ArmedRetry(c, pending[c], "retry-at") \cup ArmedLink(c, pending[c])
               ELSE ArmedRetry(c, pending[c], "fallback-retry-at")

Failed(c, check) == HandleFailure(c, check) /\ Record(c, FailureNotes(c))

(* the records of handle_reply that schedule: those of a promise *)
TakesPromise(c, calls) == ~Standing(c) /\ Decide(Reading[calls]).promise
Replied(c, calls) ==
  /\ HandleReply(c, calls)
  /\ Record(c, IF ~TakesPromise(c, calls) THEN {}
               ELSE ArmedRetry(c, Cancelled(c)[c], "retry-realigned-to")
                    \cup ArmedLink(c, Cancelled(c)[c]))

Cleared(c) ==
  /\ Approve(c)
  /\ Record(c, ArmedRetry(c, pending[c], "retry-re-armed-after-review")
               \cup ArmedLink(c, pending[c]))

(* what happens without a record that the reports read *)
Unreported ==
  \/ \E c \in Cases, code \in Codes : ApplyStop(c, code)
  \/ \E scope \in Cases \cup Customers : Lift(scope)
  \/ \E c \in Cases : Converse(c)
  \/ \E c \in Cases : PickUp(c) \/ Reject(c) \/ MarkRecovered(c)
  \/ PutBack
  \/ \E c \in Cases : RunNudge(c) \/ DeferNudge(c) \/ RunRetry(c)
  \/ \E c \in Cases, kind \in Kinds : Drop(c, kind)

ReportNext ==
  \/ \E c \in Cases : \E check \in Checks(c) : Failed(c, check)
  \/ \E c \in Cases, calls \in Replies : Replied(c, calls)
  \/ \E c \in Cases : Cleared(c)
  \/ Unreported /\ UNCHANGED trail

ReportSpec == ReportInit /\ [][ReportNext]_reportVars

-----------------------------------------------------------------------------
(* what the reports say of a case, and of them all *)

AgentCounts(c) ==
  AgentSide(trail[c], IF c \in diagnosed THEN ClassOf[c] ELSE "unknown")

DiagnosisOf == [c \in Cases |-> Lookup(SignalOf[c])]

Money == Exposure(diagnosed, AmountOf, ClassOf)
RecoveredIn(band) == BandRecovered(band, diagnosed, DiagnosisOf, caseState)

(* "The direction of error this project can least afford" (compare.py:36) is too low
   a count of its own debits: each that ran or may still run was counted when it was
   armed, by whichever path, however often it was cancelled and armed again; all but
   those a reviewer's decision arms, whose record the report does not know. *)
DebitsAreOnTheReport ==
  \A c \in Cases :
    retry_count[c] + pending[c]["retry"]
      <= AgentCounts(c).attempts + trail[c]["retry-re-armed-after-review"]

(* No customer is contacted more often than the report says (compare.py:121), other
   than by the link that goes out when the retries are spent: its record carries no
   cost, and what has no cost is not a contact. *)
ContactsAreOnTheReport ==
  \A c \in Cases :
    messages[c] + pending[c]["nudge"]
      <= AgentCounts(c).contacts + trail[c]["retries-spent"]

(* "Attempts a retry cannot fix" (compare.py:237): the agent spends none, whatever
   is promised, redelivered or answered late, unless a person clears the case. *)
FutileNeedsAPerson ==
  \A c \in Cases \ approved : AgentCounts(c).futile = 0

(* "The most either policy could recover" (outcomes.py:110): what customers paid is
   within the ceiling the report names, which leaves out money whose consent was
   withdrawn; such money comes in only on a case that a person cleared. *)
CeilingHolds ==
  LET taken == Exposure(paid \ approved, AmountOf, ClassOf)
  IN BaselineCeiling(taken) + taken["unreachable"].money + taken["must-not-take"].money
       <= AgentCeiling(Money)

(* Calibration asks what authority was worth (calibration.py:1): a recovery under
   "hold-for-human" is one a person had a hand in, and no recovery is counted of a
   case that was not paid. *)
RecoveriesAreEarned ==
  /\ RecoveredIn("hold-for-human") \subseteq approved
  /\ \A c \in diagnosed \ paid : caseState[c] # "recovered"

===============================================================================
