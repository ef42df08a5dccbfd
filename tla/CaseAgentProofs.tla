---------------------------- MODULE CaseAgentProofs ----------------------------
(***************************************************************************)
(* Proofs about CaseAgent, for any number of cases, customers, replies and *)
(* stops, any table of diagnoses and any bound on the inputs.              *)
(***************************************************************************)
EXTENDS CaseAgent, ReplyProofs, FiniteSetTheorems, WellFoundedInduction, TLAPS

-----------------------------------------------------------------------------
(* The ladder and the rows. *)

(* an entry rung is a rung or none; only the silent retry is armed as a retry *)
LEMMA EntryRungType ==
  ASSUME NEW class
  PROVE  EntryRung(class) \in Rungs \cup {NoRung}
BY DEF EntryRung, Rungs, SilentRetry, Nudge, Reauthorisation, VoiceCall, HumanCallback, NoRung

LEMMA SlugType ==
  ASSUME NEW rung \in Rungs, rung # SilentRetry
  PROVE  Slug(rung) \in Kinds /\ Slug(rung) # "retry"
<1>1. Slug(rung) \in Kinds
  BY DEF Kinds
<1>2. rung \in {2, 3, 4, 5}
  BY DEF Rungs, SilentRetry, HumanCallback
<1> QED
  BY <1>1, <1>2 DEF Slug, SilentRetry, Nudge, Reauthorisation, VoiceCall, HumanCallback

LEMMA NudgeKind == "nudge" \in Kinds
<1>1. Slug(Nudge) = "nudge" /\ Nudge \in Rungs /\ Nudge # SilentRetry
  BY DEF Slug, Rungs, SilentRetry, Nudge, Reauthorisation, VoiceCall, HumanCallback
<1> QED  BY <1>1, SlugType

(* what escalation climbs to lies above the silent retry *)
LEMMA NextExecutableType ==
  ASSUME NEW rung \in Rungs \cup {NoRung}, NEW executors
  PROVE  NextExecutable(rung, executors) \in (Rungs \ {SilentRetry}) \cup {NoRung}
<1> DEFINE reachable == {r \in RungsAbove(rung) : rung # NoRung /\ Slug(r) \in executors}
<1>1. reachable \subseteq Rungs \ {SilentRetry}
  BY DEF RungsAbove, Rungs, SilentRetry, HumanCallback, NoRung
<1>2. CASE reachable = {}
  BY <1>2 DEF NextExecutable
<1>3. CASE reachable # {}
  <2>1. reachable \subseteq 1 .. 5
    BY <1>1 DEF Rungs, SilentRetry, HumanCallback
  <2> HIDE DEF reachable
  <2>2. \E r \in reachable : \A q \in reachable : r <= q
    <3>1. CASE 1 \in reachable  BY <3>1, <2>1
    <3>2. CASE 1 \notin reachable /\ 2 \in reachable  BY <3>2, <2>1
    <3>3. CASE 1 \notin reachable /\ 2 \notin reachable /\ 3 \in reachable  BY <3>3, <2>1
    <3>4. CASE 1 \notin reachable /\ 2 \notin reachable /\ 3 \notin reachable /\ 4 \in reachable
      BY <3>4, <2>1
    <3>5. CASE 1 \notin reachable /\ 2 \notin reachable /\ 3 \notin reachable /\ 4 \notin reachable
      <4>1. \A q \in reachable : q = 5
        BY <3>5, <2>1
      <4> QED  BY <4>1, <1>3
    <3> QED  BY <3>1, <3>2, <3>3, <3>4, <3>5
  <2>3. (CHOOSE r \in reachable : \A q \in reachable : r <= q) \in reachable
    BY <2>2
  <2>4. NextExecutable(rung, executors) = CHOOSE r \in reachable : \A q \in reachable : r <= q
    BY <1>3 DEF NextExecutable, reachable
  <2> QED
    BY <1>1, <2>3, <2>4
<1> QED
  BY <1>2, <1>3

Rows == [Cases -> [Kinds -> Nat]]

LEMMA ArmType ==
  ASSUME NEW rows \in Rows, NEW c \in Cases, NEW kind \in Kinds
  PROVE  /\ Arm(rows, c, kind) \in Rows
         /\ Arm(rows, c, kind)[c][kind] > 0
         /\ \A k \in Kinds : k # kind => Arm(rows, c, kind)[c][k] = rows[c][k]
         /\ \A d \in Cases \ {c} : Arm(rows, c, kind)[d] = rows[d]
BY DEF Arm, Rows

LEMMA CancelledType ==
  ASSUME TypeOK, NEW scope
  PROVE  /\ Cancelled(scope) \in Rows
         /\ \A d \in Cases : \/ Cancelled(scope)[d] = pending[d]
                             \/ \A k \in Kinds : Cancelled(scope)[d][k] = 0
BY DEF Cancelled, TypeOK, Rows

(* A request for a retry arms one row and leaves the states alone, or arms none
   and gives the case up or to a person: there is no third way. *)
LEMMA RequestEffect ==
  ASSUME NEW c \in Cases, NEW entry \in Rungs \cup {NoRung}, NEW count,
         NEW rows, NEW states, RequestRetry(c, entry, count, rows, states)
  PROVE  /\ escalated' \in {escalated, escalated \cup {c}}
         /\ \/ caseState' = states /\ \E kind \in Kinds : pending' = Arm(rows, c, kind)
            \/ /\ pending' = rows
               /\ \E s \in {"held-for-human", "unrecovered"} :
                    caseState' = [states EXCEPT ![c] = s]
<1>1. CASE pending' = Arm(rows, c, "retry") /\ caseState' = states /\ UNCHANGED escalated
  BY <1>1 DEF Kinds
<1>2. CASE EscalateAfterCap(c, entry, rows, states)
  <2> DEFINE above == NextExecutable(entry, Executors)
             rung == IF above = NoRung THEN Nudge ELSE above
  <2>1. rung \in Rungs /\ rung # SilentRetry
    BY NextExecutableType DEF Rungs, SilentRetry, Nudge, HumanCallback, NoRung
  <2>2. Slug(rung) \in Kinds
    BY <2>1, SlugType
  <2> HIDE DEF rung
  <2>3. \/ escalated' = escalated /\ pending' = rows
           /\ \E s \in {"held-for-human", "unrecovered"} : caseState' = [states EXCEPT ![c] = s]
        \/ /\ pending' = Arm(rows, c, Slug(rung)) /\ caseState' = states
           /\ escalated' = escalated \cup {c}
    BY <1>2 DEF EscalateAfterCap, rung
  <2> QED  BY <2>2, <2>3
<1> QED
  BY <1>1, <1>2 DEF RequestRetry

(* where the agent asks from: the rung of a diagnosis, or none *)
LEMMA LatestEntryType ==
  ASSUME NEW c
  PROVE  LatestEntry(c) \in Rungs \cup {NoRung}
BY EntryRungType DEF LatestEntry

LEMMA StateOf ==
  ASSUME NEW states \in [Cases -> CaseStates], NEW c \in Cases, NEW s \in CaseStates
  PROVE  [states EXCEPT ![c] = s] \in [Cases -> CaseStates]
OBVIOUS

LEMMA OpenedType ==
  ASSUME TypeOK, NEW c \in Cases
  PROVE  Opened(c) \in [Cases -> CaseStates]
BY DEF Opened, TypeOK, CaseStates

LEMMA RequestTypes ==
  ASSUME TypeOK, NEW c \in Cases, NEW entry \in Rungs \cup {NoRung}, NEW count,
         NEW rows \in Rows, NEW states \in [Cases -> CaseStates],
         RequestRetry(c, entry, count, rows, states)
  PROVE  /\ pending' \in Rows /\ caseState' \in [Cases -> CaseStates]
         /\ escalated' \subseteq Cases
<1>1. /\ escalated' \in {escalated, escalated \cup {c}}
      /\ \/ caseState' = states /\ \E kind \in Kinds : pending' = Arm(rows, c, kind)
         \/ /\ pending' = rows
            /\ \E s \in {"held-for-human", "unrecovered"} :
                 caseState' = [states EXCEPT ![c] = s]
  BY RequestEffect
<1>2. escalated' \subseteq Cases
  BY <1>1 DEF TypeOK
<1>3. pending' \in Rows
  BY <1>1, ArmType
<1>4. caseState' \in [Cases -> CaseStates]
  BY <1>1 DEF CaseStates
<1> QED  BY <1>2, <1>3, <1>4

-----------------------------------------------------------------------------
(* Stops and replies. *)

LEMMA RuleType ==
  ASSUME NEW code \in DOMAIN Rules
  PROVE  Rules[code].terminal
           \in {None, "closed-revoked", "held-for-human", "unrecovered"}
BY DEF Rules, Rule

(* decide raises no stop without a rule *)
LEMMA DecideStop ==
  ASSUME NEW parsed
  PROVE  /\ Decide(parsed).stop \in {NoStop, "DISTRESS", "DISPUTE", "OPT_OUT"}
         /\ {"DISTRESS", "DISPUTE", "OPT_OUT"} \subseteq DOMAIN Rules
<1>1. OptOutOutcome(parsed).stop = "OPT_OUT" /\ PromiseOutcome(parsed).stop = NoStop
  BY DEF OptOutOutcome, PromiseOutcome, Nothing
<1>2. Decide(parsed).stop \in {NoStop, "DISTRESS", "DISPUTE", "OPT_OUT"}
  BY <1>1 DEF Decide, Nothing
<1>3. {"DISTRESS", "DISPUTE", "OPT_OUT"} \subseteq DOMAIN Rules
  BY DEF Rules
<1> QED  BY <1>2, <1>3

LEMMA TerminalType ==
  ASSUME TypeOK, NEW c \in Cases, NEW code \in DOMAIN Rules
  PROVE  /\ Terminal(c, code) \in [Cases -> CaseStates]
         /\ \/ Terminal(c, code) = caseState
            \/ \E s \in {"closed-revoked", "held-for-human", "unrecovered"} :
                 Terminal(c, code) = [caseState EXCEPT ![c] = s]
<1>1. CASE Rules[code].terminal = None
  BY <1>1 DEF Terminal, TypeOK
<1>2. CASE Rules[code].terminal # None
  <2>1. Terminal(c, code) = [caseState EXCEPT ![c] = Rules[code].terminal]
    BY <1>2 DEF Terminal
  <2>2. Rules[code].terminal \in {"closed-revoked", "held-for-human", "unrecovered"}
    BY <1>2, RuleType
  <2> QED  BY <2>1, <2>2 DEF TypeOK, CaseStates
<1> QED  BY <1>1, <1>2

LEMMA StopTypes ==
  ASSUME TypeOK, NEW c \in Cases, NEW code \in DOMAIN Rules, Stop(c, code)
  PROVE  /\ pending' \in Rows /\ excused' \subseteq Cases
         /\ barred' \subseteq Cases \cup Customers
         /\ stopped' \subseteq Cases \cup Customers
         /\ KeyOf(c, code) \in Cases \cup Customers
<1>1. KeyOf(c, code) \in Cases \cup Customers
  BY AgentAssumption DEF KeyOf, AgentAssumption
<1>2. pending' \in Rows
  BY CancelledType DEF Stop
<1>3. excused' \subseteq Cases
  BY DEF Stop, TypeOK
<1>4. barred' \subseteq Cases \cup Customers /\ stopped' \subseteq Cases \cup Customers
  BY <1>1 DEF Stop, TypeOK
<1> QED  BY <1>1, <1>2, <1>3, <1>4

-----------------------------------------------------------------------------
(* Types. *)

LEMMA InitTypes == Init => TypeOK
BY AgentAssumption DEF Init, TypeOK, CaseStates, AgentAssumption

LEMMA DiagnoseTypes ==
  ASSUME TypeOK, NEW c \in Cases, NEW check, Diagnose(c, check)
  PROVE  /\ pending' \in Rows /\ caseState' \in [Cases -> CaseStates]
         /\ escalated' \subseteq Cases /\ diagnosed' \subseteq Cases
         /\ verified' \subseteq Cases
<1> DEFINE rung == EntryRung(ClassOf[c])
           asked == Arm(pending, c, Slug(rung))
<1>1. diagnosed' \subseteq Cases /\ verified' \subseteq Cases
  BY DEF Diagnose, TypeOK
<1>2. pending \in Rows /\ caseState \in [Cases -> CaseStates] /\ escalated \subseteq Cases
  BY DEF TypeOK, Rows
<1>3. rung \in Rungs \cup {NoRung} /\ Opened(c) \in [Cases -> CaseStates]
  BY EntryRungType, OpenedType
<1> HIDE DEF rung
<1>4. CASE caseState' = [caseState EXCEPT ![c] = "held-for-human"]
           /\ UNCHANGED <<pending, escalated>>
  BY <1>1, <1>2, <1>4 DEF CaseStates
<1>5. CASE caseState' = Opened(c) /\ UNCHANGED <<pending, escalated>>
  BY <1>1, <1>2, <1>3, <1>5
<1>6. CASE caseState' = [caseState EXCEPT ![c] = "unrecovered"]
           /\ pending' = Cancelled(c) /\ UNCHANGED escalated
  BY <1>1, <1>2, <1>6, CancelledType DEF CaseStates
<1>7. CASE /\ rung \notin {NoRung, SilentRetry} /\ caseState' = Opened(c)
           /\ pending' = (IF HasFallback(c) THEN Arm(asked, c, "retry") ELSE asked)
           /\ UNCHANGED escalated
  <2>1. asked \in Rows
    BY <1>2, <1>3, <1>7, SlugType, ArmType
  <2>2. Arm(asked, c, "retry") \in Rows
    <3> HIDE DEF asked
    <3> QED  BY <2>1, ArmType DEF Kinds
  <2> QED
    BY <1>1, <1>2, <1>3, <1>7, <2>1, <2>2
<1>8. CASE RequestRetry(c, rung, retry_count[c], pending, Opened(c))
  BY <1>1, <1>2, <1>3, <1>8, RequestTypes
<1> QED
  BY <1>4, <1>5, <1>6, <1>7, <1>8 DEF Diagnose, rung

LEMMA InputType ==
  ASSUME TypeOK, Input
  PROVE  inputs' \in 0 .. MaxInputs
BY AgentAssumption DEF Input, TypeOK, AgentAssumption

LEMMA FailureTypes ==
  ASSUME TypeOK, NEW c \in Cases, NEW check, HandleFailure(c, check)
  PROVE  TypeOK'
<1>1. inputs' \in 0 .. MaxInputs /\ UNCHANGED <<barred, session, desk>>
  BY InputType DEF HandleFailure
<1>2. CASE AlreadyProcessed(c)
  BY <1>1, <1>2 DEF AlreadyProcessed, TypeOK, books, history
<1>3. CASE OpenUnderAStop(c)
  BY <1>1, <1>3 DEF OpenUnderAStop, TypeOK, history, CaseStates
<1>4. CASE HoldUnverified(c, check)
  BY <1>1, <1>4 DEF HoldUnverified, TypeOK, history, CaseStates
<1>5. CASE CloseFalseFailure(c, check)
  <2>1. pending' \in [Cases -> [Kinds -> Nat]]
    BY <1>5, CancelledType DEF CloseFalseFailure, Rows
  <2> QED  BY <1>1, <1>5, <2>1 DEF CloseFalseFailure, TypeOK, history, CaseStates
<1>6. CASE Diagnose(c, check)
  <2>1. /\ pending' \in Rows /\ caseState' \in [Cases -> CaseStates]
        /\ escalated' \subseteq Cases /\ diagnosed' \subseteq Cases
        /\ verified' \subseteq Cases
    BY <1>6, DiagnoseTypes
  <2>2. UNCHANGED <<retry_count, answerable, messages, stopped, approved, paid, excused>>
    BY <1>6 DEF Diagnose
  <2> QED  BY <1>1, <2>1, <2>2 DEF TypeOK, Rows
<1> QED
  BY <1>2, <1>3, <1>4, <1>5, <1>6 DEF HandleFailure

LEMMA ReplyTypes ==
  ASSUME TypeOK, NEW c \in Cases, NEW calls \in Replies, HandleReply(c, calls)
  PROVE  TypeOK'
<1> DEFINE outcome == Decide(Reading[calls])
<1>1. /\ inputs' \in 0 .. MaxInputs /\ UNCHANGED <<desk, messages, verified, paid>>
      /\ session' \in [Cases -> Nat \cup {None}]
  BY InputType DEF HandleReply, TypeOK
<1>2. CASE IgnoreReply(c)
  BY <1>1, <1>2 DEF IgnoreReply, TypeOK, books
<1>3. CASE StopOnReply(c, outcome)
  <2>1. outcome.stop \in DOMAIN Rules
    BY <1>3, DecideStop DEF StopOnReply
  <2> HIDE DEF outcome
  <2>2. Stop(c, outcome.stop) /\ UNCHANGED <<retry_count, answerable, diagnosed, escalated, approved>>
    BY <1>3 DEF StopOnReply
  <2>3. caseState' \in [Cases -> CaseStates]
    BY <1>3, <2>1, TerminalType DEF StopOnReply, TypeOK, CaseStates
  <2>4. /\ pending' \in Rows /\ excused' \subseteq Cases
        /\ barred' \subseteq Cases \cup Customers /\ stopped' \subseteq Cases \cup Customers
    BY <2>1, <2>2, StopTypes
  <2> QED  BY <1>1, <2>2, <2>3, <2>4 DEF TypeOK, Rows
<1>4. CASE HoldOnReply(c, outcome)
  <2>1. pending' \in [Cases -> [Kinds -> Nat]]
    BY <1>4, CancelledType DEF HoldOnReply, Rows
  <2> QED  BY <1>1, <1>4, <2>1 DEF HoldOnReply, TypeOK, CaseStates
<1>5. CASE Realign(c, outcome)
  <2>1. UNCHANGED <<retry_count, answerable, diagnosed, barred, stopped, approved, excused>>
    BY <1>5 DEF Realign
  <2>2. /\ pending' \in Rows /\ caseState' \in [Cases -> CaseStates]
        /\ escalated' \subseteq Cases
    <3>1. CASE AmountPermitted(c)
      <4>1. RequestRetry(c, LatestEntry(c), session[c], Cancelled(c), caseState)
        BY <1>5, <3>1 DEF Realign
      <4> QED  BY <4>1, LatestEntryType, CancelledType, RequestTypes DEF TypeOK
    <3>2. CASE ~AmountPermitted(c)
      BY <1>5, <3>2, CancelledType DEF Realign, TypeOK
    <3> QED  BY <3>1, <3>2
  <2> QED  BY <1>1, <2>1, <2>2 DEF TypeOK, Rows
<1>6. CASE NoteReply(c, outcome)
  BY <1>1, <1>6 DEF NoteReply, TypeOK, books
<1> QED
  BY <1>2, <1>3, <1>4, <1>5, <1>6 DEF HandleReply

LEMMA ReviewTypes ==
  ASSUME TypeOK, NEW c \in Cases, Approve(c)
  PROVE  TypeOK'
<1> DEFINE reopened == [caseState EXCEPT ![c] = "open"]
<1>1. /\ inputs' \in 0 .. MaxInputs /\ desk' = None /\ approved' \subseteq Cases
      /\ UNCHANGED <<retry_count, answerable, diagnosed, barred, session, messages,
                     stopped, verified, paid, excused>>
  BY InputType DEF Approve, TypeOK
<1>2. /\ pending' \in Rows /\ caseState' \in [Cases -> CaseStates]
      /\ escalated' \subseteq Cases
  <2>1. reopened \in [Cases -> CaseStates] /\ pending \in Rows /\ retry_count[c] \in Nat
    BY DEF TypeOK, CaseStates, Rows
  <2>2. CASE AmountPermitted(c)
    <3>1. RequestRetry(c, LatestEntry(c), retry_count[c], pending, reopened)
      BY <2>2 DEF Approve
    <3> QED  BY <3>1, <2>1, LatestEntryType, RequestTypes
  <2>3. CASE ~AmountPermitted(c)
    BY <2>1, <2>3 DEF Approve, TypeOK
  <2> QED  BY <2>2, <2>3
<1> QED
  BY <1>1, <1>2 DEF TypeOK, Rows

LEMMA TakeTypes ==
  ASSUME TypeOK, NEW c \in Cases, NEW kind \in Kinds, Take(c, kind)
  PROVE  pending' \in [Cases -> [Kinds -> Nat]]
BY DEF Take, TypeOK

LEMMA NextTypes ==
  ASSUME TypeOK, [Next]_vars
  PROVE  TypeOK'
<1>1. CASE UNCHANGED vars
  BY <1>1 DEF TypeOK, vars
<1>2. ASSUME NEW c \in Cases, NEW check \in Checks(c), HandleFailure(c, check)
      PROVE  TypeOK'
  BY <1>2, FailureTypes
<1>3. ASSUME NEW c \in Cases, NEW code \in Codes, ApplyStop(c, code)
      PROVE  TypeOK'
  <2>1. code \in DOMAIN Rules
    BY AgentAssumption DEF AgentAssumption
  <2>2. /\ pending' \in Rows /\ excused' \subseteq Cases
        /\ barred' \subseteq Cases \cup Customers /\ stopped' \subseteq Cases \cup Customers
    BY <1>3, <2>1, StopTypes DEF ApplyStop
  <2>3. caseState' \in [Cases -> CaseStates] /\ inputs' \in 0 .. MaxInputs
    BY <1>3, <2>1, TerminalType, InputType DEF ApplyStop
  <2> QED  BY <1>3, <2>2, <2>3 DEF ApplyStop, TypeOK, Rows
<1>4. ASSUME NEW scope \in Cases \cup Customers, Lift(scope)
      PROVE  TypeOK'
  BY <1>4 DEF Lift, TypeOK, books
<1>5. ASSUME NEW c \in Cases, Converse(c)
      PROVE  TypeOK'
  BY <1>5, InputType DEF Converse, TypeOK, books, history
<1>6. ASSUME NEW c \in Cases, NEW calls \in Replies, HandleReply(c, calls)
      PROVE  TypeOK'
  BY <1>6, ReplyTypes
<1>7. ASSUME NEW c \in Cases, PickUp(c)
      PROVE  TypeOK'
  BY <1>7 DEF PickUp, TypeOK, books, history
<1>8. ASSUME NEW c \in Cases, Approve(c)
      PROVE  TypeOK'
  BY <1>8, ReviewTypes
<1>9. ASSUME NEW c \in Cases, Reject(c)
      PROVE  TypeOK'
  BY <1>9, InputType DEF Reject, TypeOK, history, CaseStates
<1>10. ASSUME NEW c \in Cases, MarkRecovered(c)
       PROVE  TypeOK'
  <2>1. pending' \in [Cases -> [Kinds -> Nat]]
    BY <1>10, CancelledType DEF MarkRecovered, Rows
  <2> QED  BY <1>10, <2>1 DEF MarkRecovered, TypeOK, CaseStates
<1>11. CASE PutBack
  BY <1>11 DEF PutBack, TypeOK, books, history
<1>12. ASSUME NEW c \in Cases, RunNudge(c)
       PROVE  TypeOK'
  <2>1. pending' \in [Cases -> [Kinds -> Nat]]
    BY <1>12, TakeTypes, NudgeKind DEF RunNudge
  <2>2. messages' \in [Cases -> Nat]
    BY <1>12 DEF RunNudge, TypeOK
  <2> QED  BY <1>12, <2>1, <2>2 DEF RunNudge, TypeOK
<1>13. ASSUME NEW c \in Cases, DeferNudge(c)
       PROVE  TypeOK'
  BY <1>13 DEF DeferNudge, TypeOK, history
<1>14. ASSUME NEW c \in Cases, RunRetry(c)
       PROVE  TypeOK'
  <2>1. pending' \in [Cases -> [Kinds -> Nat]]
    BY <1>14, TakeTypes DEF RunRetry, Kinds
  <2>2. retry_count' \in [Cases -> Nat]
    BY <1>14 DEF RunRetry, TypeOK
  <2>3. caseState' \in [Cases -> CaseStates]
    BY <1>14 DEF RunRetry, TypeOK, CaseStates
  <2> QED  BY <1>14, <2>1, <2>2, <2>3 DEF RunRetry, TypeOK, history
<1>15. ASSUME NEW c \in Cases, NEW kind \in Kinds, Drop(c, kind)
       PROVE  TypeOK'
  <2>1. pending' \in [Cases -> [Kinds -> Nat]]
    BY <1>15, TakeTypes DEF Drop
  <2> QED  BY <1>15, <2>1 DEF Drop, TypeOK
<1> QED
  BY <1>1, <1>2, <1>3, <1>4, <1>5, <1>6, <1>7, <1>8, <1>9, <1>10, <1>11, <1>12,
     <1>13, <1>14, <1>15 DEF Next

(* agent.py, models.py: whatever fails, is replied, stopped, reviewed, paid or run,
   every table and every local copy keeps its type. *)
THEOREM AgentTypes == Spec => []TypeOK
<1>1. Init => TypeOK
  BY InitTypes
<1>2. TypeOK /\ [Next]_vars => TypeOK'
  BY NextTypes
<1> QED
  BY <1>1, <1>2, PTL DEF Spec

-----------------------------------------------------------------------------
(* The inductive invariant, one case at a time.                            *)

(* nothing reached the customer of a case, and nothing will *)
Untouched(c) ==
  /\ messages[c] = 0 /\ retry_count[c] = 0
  /\ c \notin answerable /\ session[c] = None
  /\ \A kind \in Kinds : pending[c][kind] = 0

(* no person cleared it, and it is not known well enough, or not known unpaid *)
InTheDark(c) ==
  c \notin approved /\ (c \notin Confident \/ (c \in Unsettled /\ c \notin verified))

Quiet(c) == caseState[c] = "absent" \/ InTheDark(c) => Untouched(c)

Consented(c) == ~AmountPermitted(c) => pending[c]["retry"] = 0 /\ retry_count[c] = 0

Worked(c) ==
  /\ c \notin excused /\ AmountPermitted(c)
  /\ caseState[c] = "open" /\ EntryRung(ClassOf[c]) # NoRung
  => messages[c] > 0 \/ \E kind \in Kinds : pending[c][kind] > 0

CaseInv(c) ==
  Quiet(c) /\ Consented(c) /\ Worked(c) /\ (desk = c => caseState[c] # "absent")

AgentInv == TypeOK /\ (\A c \in Cases : CaseInv(c)) /\ stopped \subseteq barred

(* what a step about another case may do to case d: a stop empties its queue *)
Kept(d) ==
  /\ caseState'[d] = caseState[d] /\ messages'[d] = messages[d]
  /\ retry_count'[d] = retry_count[d] /\ session'[d] = session[d]
  /\ d \in answerable' <=> d \in answerable
  /\ d \in approved' <=> d \in approved
  /\ d \in verified' <=> d \in verified
  /\ d \in excused => d \in excused'
  /\ \/ pending'[d] = pending[d]
     \/ d \in excused' /\ \A kind \in Kinds : pending'[d][kind] = 0

LEMMA KeptInv ==
  ASSUME NEW d \in Cases, CaseInv(d), Kept(d), desk' # d \/ desk' = desk
  PROVE  CaseInv(d)'
<1>1. "retry" \in Kinds
  BY DEF Kinds
<1>2. Quiet(d)'
  BY DEF CaseInv, Kept, Quiet, InTheDark, Untouched
<1>3. Consented(d)'
  BY <1>1 DEF CaseInv, Kept, Consented, AmountPermitted
<1>4. Worked(d)'
  BY DEF CaseInv, Kept, Worked, AmountPermitted
<1>5. (desk = d => caseState[d] # "absent")'
  BY DEF CaseInv, Kept
<1> QED  BY <1>2, <1>3, <1>4, <1>5 DEF CaseInv

(* cancellation within a case reaches no other *)
LEMMA CancelledElsewhere ==
  ASSUME NEW c \in Cases, NEW d \in Cases \ {c}
  PROVE  Cancelled(c)[d] = pending[d]
BY AgentAssumption DEF Cancelled, Covers, AgentAssumption

LEMMA CancelledHere ==
  ASSUME NEW c \in Cases
  PROVE  \A kind \in Kinds : Cancelled(c)[c][kind] = 0
BY DEF Cancelled, Covers

LEMMA InitInv == Init => AgentInv
<1> SUFFICES ASSUME Init PROVE AgentInv
  OBVIOUS
<1>1. TypeOK /\ stopped \subseteq barred
  BY InitTypes DEF Init
<1>2. ASSUME NEW c \in Cases PROVE CaseInv(c)
  <2>1. "retry" \in Kinds
    BY DEF Kinds
  <2>2. desk # c
    BY AgentAssumption DEF Init, AgentAssumption
  <2> QED  BY <2>1, <2>2 DEF Init, CaseInv, Quiet, Untouched, Consented, Worked
<1> QED  BY <1>1, <1>2 DEF AgentInv

(* a retry is requested over rows and states that a handler left *)
LEMMA RequestHere ==
  ASSUME NEW c \in Cases, NEW entry \in Rungs \cup {NoRung}, NEW count,
         NEW rows \in Rows, NEW states \in [Cases -> CaseStates],
         states[c] # "absent",
         RequestRetry(c, entry, count, rows, states)
  PROVE  /\ \A d \in Cases \ {c} : pending'[d] = rows[d] /\ caseState'[d] = states[d]
         /\ caseState'[c] # "absent"
         /\ caseState'[c] # "open" \/ \E kind \in Kinds : pending'[c][kind] > 0
<1>1. \/ caseState' = states /\ \E kind \in Kinds : pending' = Arm(rows, c, kind)
      \/ /\ pending' = rows
         /\ \E s \in {"held-for-human", "unrecovered"} : caseState' = [states EXCEPT ![c] = s]
  BY RequestEffect
<1>2. CASE caseState' = states /\ \E kind \in Kinds : pending' = Arm(rows, c, kind)
  BY <1>2, ArmType
<1>3. ASSUME pending' = rows, NEW s \in {"held-for-human", "unrecovered"},
             caseState' = [states EXCEPT ![c] = s]
      PROVE  /\ \A d \in Cases \ {c} : pending'[d] = rows[d] /\ caseState'[d] = states[d]
             /\ caseState'[c] # "absent" /\ caseState'[c] # "open"
  BY <1>3
<1> QED  BY <1>1, <1>2, <1>3

-----------------------------------------------------------------------------
(* Every handler keeps it. *)

LEMMA DiagnoseHere ==
  ASSUME TypeOK, NEW c \in Cases, NEW check \in Checks(c), Diagnose(c, check)
  PROVE  /\ \A d \in Cases \ {c} : pending'[d] = pending[d] /\ caseState'[d] = caseState[d]
         /\ caseState'[c] # "absent"
         /\ \/ caseState'[c] # "open" /\ \A kind \in Kinds : pending'[c][kind] = 0
            \/ /\ pending'[c] = pending[c]
               /\ \/ caseState'[c] # "open" \/ caseState'[c] = caseState[c]
                  \/ EntryRung(ClassOf[c]) = NoRung \/ ~AmountPermitted(c)
            \/ /\ ~InTheDark(c)'
               /\ ~AmountPermitted(c) => pending'[c]["retry"] = pending[c]["retry"]
               /\ caseState'[c] # "open" \/ \E kind \in Kinds : pending'[c][kind] > 0
<1> DEFINE rung == EntryRung(ClassOf[c])
           asked == Arm(pending, c, Slug(rung))
<1>1. pending \in Rows /\ caseState \in [Cases -> CaseStates]
  BY DEF TypeOK, Rows
<1>2. rung \in Rungs \cup {NoRung} /\ Opened(c) \in [Cases -> CaseStates]
  BY EntryRungType, OpenedType
<1>3. /\ Opened(c)[c] # "absent" /\ \A d \in Cases \ {c} : Opened(c)[d] = caseState[d]
  BY <1>1 DEF Opened
<1>4. c \in Confident => ~InTheDark(c)'
  BY DEF Diagnose, InTheDark, Checks, InDoubt
<1>5. CASE c \notin Confident /\ caseState' = [caseState EXCEPT ![c] = "held-for-human"]
           /\ UNCHANGED pending
  BY <1>1, <1>5
<1>6. CASE rung = NoRung /\ caseState' = Opened(c) /\ UNCHANGED pending
  BY <1>3, <1>6
<1>7. CASE caseState' = [caseState EXCEPT ![c] = "unrecovered"] /\ pending' = Cancelled(c)
  BY <1>1, <1>7, CancelledElsewhere, CancelledHere
<1>8. CASE /\ c \in Confident /\ rung \notin {NoRung, SilentRetry}
           /\ caseState' = Opened(c)
           /\ pending' = (IF HasFallback(c) THEN Arm(asked, c, "retry") ELSE asked)
  <2>1. Slug(rung) \in Kinds /\ Slug(rung) # "retry" /\ "retry" \in Kinds
    BY <1>2, <1>8, SlugType DEF Kinds
  <2>2. /\ asked \in Rows /\ asked[c][Slug(rung)] > 0
        /\ asked[c]["retry"] = pending[c]["retry"]
        /\ \A d \in Cases \ {c} : asked[d] = pending[d]
    BY <1>1, <2>1, ArmType
  <2> HIDE DEF asked, rung
  <2>3. /\ Arm(asked, c, "retry")[c]["retry"] > 0
        /\ \A d \in Cases \ {c} : Arm(asked, c, "retry")[d] = asked[d]
    BY <2>1, <2>2, ArmType
  <2>4. HasFallback(c) => AmountPermitted(c)
    BY DEF HasFallback
  <2> QED
    BY <1>3, <1>4, <1>8, <2>1, <2>2, <2>3, <2>4
<1>9. CASE c \in Confident /\ rung = SilentRetry /\ AmountPermitted(c)
           /\ RequestRetry(c, rung, retry_count[c], pending, Opened(c))
  <2> HIDE DEF rung
  <2>1. /\ \A d \in Cases \ {c} : pending'[d] = pending[d] /\ caseState'[d] = Opened(c)[d]
        /\ caseState'[c] # "absent"
        /\ caseState'[c] # "open" \/ \E kind \in Kinds : pending'[c][kind] > 0
    BY <1>1, <1>2, <1>3, <1>9, RequestHere
  <2> QED  BY <1>3, <1>4, <1>9, <2>1
<1>10. CASE ~AmountPermitted(c) /\ caseState' = Opened(c) /\ UNCHANGED pending
  BY <1>3, <1>10
<1> QED
  BY <1>5, <1>6, <1>7, <1>8, <1>9, <1>10 DEF Diagnose

LEMMA FailureInv ==
  ASSUME TypeOK, NEW c \in Cases, NEW check \in Checks(c), HandleFailure(c, check),
         \A d \in Cases : CaseInv(d)
  PROVE  \A d \in Cases : CaseInv(d)'
<1>1. UNCHANGED <<barred, session, desk>>
  BY DEF HandleFailure
<1>2. CASE AlreadyProcessed(c)
  BY <1>1, <1>2 DEF AlreadyProcessed, CaseInv, Quiet, Consented, Worked, Untouched, InTheDark,
     AmountPermitted, books, history
<1>3. ASSUME NEW s \in {"held-for-human", "closed-false-failure"},
             caseState' = [caseState EXCEPT ![c] = s],
             pending' = pending \/ pending' = Cancelled(c),
             UNCHANGED <<retry_count, answerable, history>>
      PROVE  \A d \in Cases : CaseInv(d)'
  <2>1. \A d \in Cases \ {c} : Kept(d)
    BY <1>1, <1>3, CancelledElsewhere DEF Kept, history, TypeOK
  <2>2. CaseInv(c)'
    <3>1. "retry" \in Kinds /\ caseState'[c] = s
      BY <1>3 DEF Kinds, TypeOK
    <3>2. pending'[c] = pending[c] \/ \A kind \in Kinds : pending'[c][kind] = 0
      BY <1>3, CancelledHere
    <3>3. CaseInv(c)
      OBVIOUS
    <3> QED
      BY <1>1, <1>3, <3>1, <3>2, <3>3 DEF CaseInv, Quiet, Consented, Worked, Untouched, InTheDark,
         AmountPermitted, history
  <2> QED  BY <1>1, <2>1, <2>2, KeptInv
<1>4. CASE OpenUnderAStop(c) \/ HoldUnverified(c, check) \/ CloseFalseFailure(c, check)
  BY <1>3, <1>4 DEF OpenUnderAStop, HoldUnverified, CloseFalseFailure
<1>5. CASE Diagnose(c, check)
  <2>1. /\ UNCHANGED <<retry_count, answerable, messages, stopped, approved, paid, excused>>
        /\ verified' \in {verified, verified \cup {c}}
    BY <1>5 DEF Diagnose
  <2>2. /\ \A d \in Cases \ {c} : pending'[d] = pending[d] /\ caseState'[d] = caseState[d]
        /\ caseState'[c] # "absent"
        /\ \/ caseState'[c] # "open" /\ \A kind \in Kinds : pending'[c][kind] = 0
           \/ /\ pending'[c] = pending[c]
              /\ \/ caseState'[c] # "open" \/ caseState'[c] = caseState[c]
                 \/ EntryRung(ClassOf[c]) = NoRung \/ ~AmountPermitted(c)
           \/ /\ ~InTheDark(c)'
              /\ ~AmountPermitted(c) => pending'[c]["retry"] = pending[c]["retry"]
              /\ caseState'[c] # "open" \/ \E kind \in Kinds : pending'[c][kind] > 0
    BY <1>5, DiagnoseHere
  <2>3. \A d \in Cases \ {c} : Kept(d)
    BY <1>1, <2>1, <2>2 DEF Kept
  <2>4. Quiet(c)'
    BY <1>1, <2>1, <2>2 DEF CaseInv, Quiet, Untouched, InTheDark
  <2>5. Consented(c)'
    <3>1. "retry" \in Kinds /\ Consented(c)
      BY DEF Kinds, CaseInv
    <3> QED  BY <2>1, <2>2, <3>1 DEF Consented, AmountPermitted
  <2>6. Worked(c)'
    BY <2>1, <2>2 DEF CaseInv, Worked, AmountPermitted
  <2>7. CaseInv(c)'
    BY <1>1, <2>2, <2>4, <2>5, <2>6 DEF CaseInv
  <2> QED  BY <1>1, <2>3, <2>7, KeptInv
<1> QED
  BY <1>2, <1>4, <1>5 DEF HandleFailure

(* a stop empties the queue of everything it covers, and says so *)
LEMMA StopReach ==
  ASSUME TypeOK, NEW c \in Cases, NEW code \in DOMAIN Rules, Stop(c, code)
  PROVE  /\ c \in excused' /\ \A kind \in Kinds : pending'[c][kind] = 0
         /\ \A d \in Cases : d \in excused => d \in excused'
         /\ \A d \in Cases : \/ pending'[d] = pending[d]
                             \/ d \in excused' /\ \A kind \in Kinds : pending'[d][kind] = 0
<1>1. Covers(KeyOf(c, code), c)
  BY DEF Covers, KeyOf
<1> QED  BY <1>1 DEF Stop, Cancelled

LEMMA ReplyInv ==
  ASSUME TypeOK, NEW c \in Cases, NEW calls \in Replies, HandleReply(c, calls),
         \A d \in Cases : CaseInv(d)
  PROVE  \A d \in Cases : CaseInv(d)'
<1> DEFINE outcome == Decide(Reading[calls])
<1>1. /\ UNCHANGED <<desk, messages, verified, paid>> /\ session[c] # None
      /\ \A d \in Cases \ {c} : session'[d] = session[d]
  BY DEF HandleReply, TypeOK
<1>2. caseState[c] # "absent" /\ ~InTheDark(c) /\ CaseInv(c)
  BY <1>1 DEF CaseInv, Quiet, Untouched
<1>3. "retry" \in Kinds
  BY DEF Kinds
(* what each branch must leave behind *)
<1>4. ASSUME \A d \in Cases \ {c} :
               /\ caseState'[d] = caseState[d]
               /\ d \in excused => d \in excused'
               /\ \/ pending'[d] = pending[d]
                  \/ d \in excused' /\ \A kind \in Kinds : pending'[d][kind] = 0,
             UNCHANGED <<retry_count, answerable, approved>>,
             caseState'[c] # "absent", Consented(c)', Worked(c)'
      PROVE  \A d \in Cases : CaseInv(d)'
  <2>1. \A d \in Cases \ {c} : Kept(d)
    BY <1>1, <1>4 DEF Kept
  <2>2. CaseInv(c)'
    BY <1>1, <1>2, <1>4 DEF CaseInv, Quiet, InTheDark
  <2> QED  BY <1>1, <2>1, <2>2, KeptInv
<1>5. CASE IgnoreReply(c)
  BY <1>1, <1>2, <1>4, <1>5 DEF IgnoreReply, books, CaseInv, Consented, Worked, AmountPermitted
<1>6. CASE StopOnReply(c, outcome)
  <2>1. outcome.stop \in DOMAIN Rules
    BY <1>6, DecideStop DEF StopOnReply
  <2> HIDE DEF outcome
  <2>2. Stop(c, outcome.stop) /\ UNCHANGED <<retry_count, answerable, approved>>
    BY <1>6 DEF StopOnReply
  <2>3. /\ \A d \in Cases \ {c} : caseState'[d] = caseState[d]
        /\ caseState'[c] # "absent"
    <3>1. CASE caseState' = [caseState EXCEPT ![c] = "held-for-human"]
      BY <3>1 DEF TypeOK
    <3>2. CASE caseState' = Terminal(c, outcome.stop)
      <4>1. \/ caseState' = caseState
            \/ \E s \in {"closed-revoked", "held-for-human", "unrecovered"} :
                 caseState' = [caseState EXCEPT ![c] = s]
        BY <2>1, <3>2, TerminalType
      <4> QED  BY <1>2, <4>1 DEF TypeOK
    <3> QED  BY <1>6, <3>1, <3>2 DEF StopOnReply
  <2>4. Consented(c)' /\ Worked(c)'
    BY <1>2, <1>3, <2>1, <2>2, StopReach DEF CaseInv, Consented, Worked, AmountPermitted
  <2> QED  BY <1>4, <2>1, <2>2, <2>3, <2>4, StopReach
<1>7. CASE HoldOnReply(c, outcome)
  <2>1. /\ UNCHANGED <<retry_count, answerable, approved, excused>>
        /\ pending' = Cancelled(c) /\ caseState' = [caseState EXCEPT ![c] = "held-for-human"]
    BY <1>7 DEF HoldOnReply
  <2>2. \A kind \in Kinds : pending'[c][kind] = 0
    BY <2>1, CancelledHere
  <2>3. caseState'[c] = "held-for-human"
    BY <2>1 DEF TypeOK
  <2>4. Consented(c)' /\ Worked(c)'
    BY <1>2, <1>3, <2>1, <2>2, <2>3 DEF CaseInv, Consented, Worked, AmountPermitted
  <2> QED  BY <1>4, <2>1, <2>3, <2>4, CancelledElsewhere
<1>8. CASE Realign(c, outcome)
  <2>1. UNCHANGED <<retry_count, answerable, approved, excused>>
    BY <1>8 DEF Realign
  <2>2. CASE AmountPermitted(c)
    <3>1. RequestRetry(c, LatestEntry(c), session[c], Cancelled(c), caseState)
      BY <1>8, <2>2 DEF Realign
    <3>2. /\ \A d \in Cases \ {c} : pending'[d] = Cancelled(c)[d] /\ caseState'[d] = caseState[d]
          /\ caseState'[c] # "absent"
          /\ caseState'[c] # "open" \/ \E kind \in Kinds : pending'[c][kind] > 0
      BY <1>2, <3>1, LatestEntryType, CancelledType, RequestHere DEF TypeOK
    <3>3. Consented(c)' /\ Worked(c)'
      BY <2>2, <3>2 DEF Consented, Worked, AmountPermitted
    <3> QED  BY <1>4, <2>1, <3>2, <3>3, CancelledElsewhere
  <2>3. CASE ~AmountPermitted(c)
    <3>1. pending' = Cancelled(c) /\ UNCHANGED caseState
      BY <1>8, <2>3 DEF Realign
    <3>2. \A kind \in Kinds : pending'[c][kind] = 0
      BY <3>1, CancelledHere
    <3>3. Consented(c)' /\ Worked(c)'
      BY <1>2, <1>3, <2>1, <2>3, <3>2 DEF CaseInv, Consented, Worked, AmountPermitted
    <3> QED  BY <1>2, <1>4, <2>1, <3>1, <3>3, CancelledElsewhere
  <2> QED  BY <2>2, <2>3
<1>9. CASE NoteReply(c, outcome)
  BY <1>1, <1>2, <1>4, <1>9 DEF NoteReply, books, CaseInv, Consented, Worked, AmountPermitted
<1> QED
  BY <1>5, <1>6, <1>7, <1>8, <1>9 DEF HandleReply

LEMMA ApproveInv ==
  ASSUME TypeOK, NEW c \in Cases, Approve(c), \A d \in Cases : CaseInv(d)
  PROVE  \A d \in Cases : CaseInv(d)'
<1> DEFINE reopened == [caseState EXCEPT ![c] = "open"]
<1>1. /\ UNCHANGED <<retry_count, answerable, diagnosed, barred, session, messages,
                     stopped, verified, paid, excused>>
      /\ approved' = approved \cup {c} /\ desk = c /\ desk' = None
  BY DEF Approve
<1>2. CaseInv(c) /\ ~InTheDark(c)' /\ \A d \in Cases : desk' # d
  BY <1>1, AgentAssumption DEF InTheDark, AgentAssumption
<1>3. /\ reopened \in [Cases -> CaseStates] /\ pending \in Rows
      /\ reopened[c] = "open" /\ \A d \in Cases \ {c} : reopened[d] = caseState[d]
  BY DEF TypeOK, CaseStates, Rows
<1>4. CASE AmountPermitted(c)
  <2>1. RequestRetry(c, LatestEntry(c), retry_count[c], pending, reopened)
    BY <1>4 DEF Approve
  <2> HIDE DEF reopened
  <2>2. /\ \A d \in Cases \ {c} : pending'[d] = pending[d] /\ caseState'[d] = reopened[d]
        /\ caseState'[c] # "absent"
        /\ caseState'[c] # "open" \/ \E kind \in Kinds : pending'[c][kind] > 0
    BY <1>3, <2>1, LatestEntryType, RequestHere
  <2>3. \A d \in Cases \ {c} : Kept(d)
    BY <1>1, <1>3, <2>2 DEF Kept
  <2>4. CaseInv(c)'
    BY <1>1, <1>2, <1>4, <2>2 DEF CaseInv, Quiet, Consented, Worked, AmountPermitted
  <2> QED  BY <1>2, <2>3, <2>4, KeptInv
<1>5. CASE ~AmountPermitted(c)
  <2>1. caseState' = reopened /\ UNCHANGED pending
    BY <1>5 DEF Approve
  <2> HIDE DEF reopened
  <2>2. \A d \in Cases \ {c} : Kept(d)
    BY <1>1, <1>3, <2>1 DEF Kept
  <2>3. CaseInv(c)'
    BY <1>1, <1>2, <1>3, <1>5, <2>1 DEF CaseInv, Quiet, Consented, Worked, AmountPermitted
  <2> QED  BY <1>2, <2>2, <2>3, KeptInv
<1> QED  BY <1>4, <1>5

LEMMA StopInv ==
  ASSUME TypeOK, NEW c \in Cases, NEW code \in Codes, ApplyStop(c, code),
         \A d \in Cases : CaseInv(d)
  PROVE  \A d \in Cases : CaseInv(d)'
<1>1. code \in DOMAIN Rules
  BY AgentAssumption DEF AgentAssumption
<1>2. /\ Stop(c, code) /\ caseState[c] # "absent" /\ CaseInv(c) /\ "retry" \in Kinds
      /\ UNCHANGED <<retry_count, answerable, session, desk, messages, approved, verified>>
  BY DEF ApplyStop, Kinds
<1>3. /\ \A d \in Cases \ {c} : caseState'[d] = caseState[d]
      /\ caseState'[c] # "absent"
  <2>1. \/ caseState' = caseState
        \/ \E s \in {"closed-revoked", "held-for-human", "unrecovered"} :
             caseState' = [caseState EXCEPT ![c] = s]
    BY <1>1, TerminalType DEF ApplyStop
  <2> QED  BY <1>2, <2>1 DEF TypeOK
<1>4. \A d \in Cases \ {c} : Kept(d)
  BY <1>1, <1>2, <1>3, StopReach DEF Kept
<1>5. c \in excused' /\ \A kind \in Kinds : pending'[c][kind] = 0
  BY <1>1, <1>2, StopReach
<1>6. CaseInv(c)'
  BY <1>2, <1>3, <1>5 DEF CaseInv, Quiet, InTheDark, Untouched, Consented, Worked,
     AmountPermitted
<1> QED  BY <1>2, <1>4, <1>6, KeptInv

(* taking a row leaves every other row where it was *)
LEMMA TakeHere ==
  ASSUME TypeOK, NEW c \in Cases, NEW kind \in Kinds, Take(c, kind)
  PROVE  /\ pending[c][kind] > 0
         /\ \A d \in Cases \ {c} : pending'[d] = pending[d]
         /\ \A k \in Kinds \ {kind} : pending'[c][k] = pending[c][k]
BY DEF Take, TypeOK

LEMMA RunInv ==
  ASSUME TypeOK, NEW c \in Cases, \A d \in Cases : CaseInv(d),
         RunNudge(c) \/ DeferNudge(c) \/ RunRetry(c) \/ \E kind \in Kinds : Drop(c, kind)
  PROVE  \A d \in Cases : CaseInv(d)'
<1>1. UNCHANGED <<desk, session, approved, verified>> /\ CaseInv(c) /\ "retry" \in Kinds
  BY DEF RunNudge, DeferNudge, RunRetry, Drop, history, Kinds
<1>2. CASE RunNudge(c)
  <2>1. /\ pending[c]["nudge"] > 0
        /\ \A d \in Cases \ {c} : pending'[d] = pending[d]
        /\ pending'[c]["retry"] = pending[c]["retry"]
    BY <1>1, <1>2, NudgeKind, TakeHere DEF RunNudge
  <2>2. caseState[c] # "absent" /\ ~InTheDark(c)
    BY <1>1, <2>1, NudgeKind DEF CaseInv, Quiet, Untouched, TypeOK
  <2>3. /\ messages'[c] > 0 /\ \A d \in Cases \ {c} : messages'[d] = messages[d]
        /\ answerable' = answerable \cup {c}
        /\ UNCHANGED <<caseState, retry_count, excused>>
    BY <1>2 DEF RunNudge, TypeOK
  <2>4. \A d \in Cases \ {c} : Kept(d)
    BY <1>1, <2>1, <2>3 DEF Kept
  <2>5. CaseInv(c)'
    BY <1>1, <2>1, <2>2, <2>3 DEF CaseInv, Quiet, InTheDark, Consented, Worked, AmountPermitted
  <2> QED  BY <1>1, <2>4, <2>5, KeptInv
<1>3. CASE DeferNudge(c)
  <2>1. UNCHANGED <<caseState, retry_count, pending, messages, excused>>
        /\ answerable' = answerable \ {c}
    BY <1>3 DEF DeferNudge, history
  <2>2. \A d \in Cases \ {c} : Kept(d)
    BY <1>1, <2>1 DEF Kept
  <2>3. CaseInv(c)'
    BY <1>1, <2>1 DEF CaseInv, Quiet, InTheDark, Untouched, Consented, Worked, AmountPermitted
  <2> QED  BY <1>1, <2>2, <2>3, KeptInv
<1>4. CASE RunRetry(c)
  <2>1. /\ pending[c]["retry"] > 0
        /\ \A d \in Cases \ {c} : pending'[d] = pending[d]
    BY <1>1, <1>4, TakeHere DEF RunRetry
  <2>2. caseState[c] # "absent" /\ ~InTheDark(c) /\ AmountPermitted(c)
    BY <1>1, <2>1 DEF CaseInv, Quiet, Untouched, Consented, TypeOK
  <2>3. /\ caseState'[c] = "held-for-human"
        /\ \A d \in Cases \ {c} : retry_count'[d] = retry_count[d] /\ caseState'[d] = caseState[d]
        /\ answerable' = answerable \ {c}
        /\ UNCHANGED <<messages, excused>>
    BY <1>4 DEF RunRetry, TypeOK, history
  <2>4. \A d \in Cases \ {c} : Kept(d)
    BY <1>1, <2>1, <2>3 DEF Kept
  <2>5. CaseInv(c)'
    BY <1>1, <2>2, <2>3 DEF CaseInv, Quiet, InTheDark, Consented, Worked, AmountPermitted
  <2> QED  BY <1>1, <2>4, <2>5, KeptInv
<1>5. ASSUME NEW kind \in Kinds, Drop(c, kind)
      PROVE  \A d \in Cases : CaseInv(d)'
  <2>1. /\ pending[c][kind] > 0
        /\ \A d \in Cases \ {c} : pending'[d] = pending[d]
        /\ pending'[c]["retry"] = pending[c]["retry"] \/ kind = "retry"
    BY <1>1, <1>5, TakeHere DEF Drop
  <2>2. caseState[c] # "absent" /\ ~InTheDark(c) /\ (kind = "retry" => AmountPermitted(c))
    BY <1>1, <2>1 DEF CaseInv, Quiet, Untouched, Consented, TypeOK
  <2>3. UNCHANGED <<caseState, retry_count, answerable, messages>> /\ excused' = excused \cup {c}
    BY <1>5 DEF Drop
  <2>4. \A d \in Cases \ {c} : Kept(d)
    BY <1>1, <2>1, <2>3 DEF Kept
  <2>5. CaseInv(c)'
    BY <1>1, <2>1, <2>2, <2>3 DEF CaseInv, Quiet, InTheDark, Consented, Worked, AmountPermitted
  <2> QED  BY <1>1, <2>4, <2>5, KeptInv
<1> QED  BY <1>2, <1>3, <1>4, <1>5

LEMMA NextCases ==
  ASSUME TypeOK, \A d \in Cases : CaseInv(d), [Next]_vars
  PROVE  \A d \in Cases : CaseInv(d)'
<1>1. ASSUME UNCHANGED <<caseState, retry_count, answerable, pending, messages, approved,
                         verified, excused>>,
             \A d \in Cases : CaseInv(d) /\ Untouched(d) => session'[d] = session[d],
             desk' \in {desk, None} \/ caseState[desk'] = "held-for-human"
      PROVE  \A d \in Cases : CaseInv(d)'
  <2>1. None \notin Cases
    BY AgentAssumption DEF AgentAssumption
  <2> QED
    BY <1>1, <2>1 DEF CaseInv, Quiet, InTheDark, Untouched, Consented, Worked, AmountPermitted
<1>2. CASE UNCHANGED vars
  BY <1>1, <1>2 DEF vars
<1>3. ASSUME NEW c \in Cases, NEW check \in Checks(c), HandleFailure(c, check)
      PROVE  \A d \in Cases : CaseInv(d)'
  BY <1>3, FailureInv
<1>4. ASSUME NEW c \in Cases, NEW code \in Codes, ApplyStop(c, code)
      PROVE  \A d \in Cases : CaseInv(d)'
  BY <1>4, StopInv
<1>5. ASSUME NEW scope \in Cases \cup Customers, Lift(scope)
      PROVE  \A d \in Cases : CaseInv(d)'
  BY <1>1, <1>5 DEF Lift, books
<1>6. ASSUME NEW c \in Cases, Converse(c)
      PROVE  \A d \in Cases : CaseInv(d)'
  BY <1>1, <1>6 DEF Converse, books, history, Untouched, TypeOK
<1>7. ASSUME NEW c \in Cases, NEW calls \in Replies, HandleReply(c, calls)
      PROVE  \A d \in Cases : CaseInv(d)'
  BY <1>7, ReplyInv
<1>8. ASSUME NEW c \in Cases, PickUp(c) \/ PutBack
      PROVE  \A d \in Cases : CaseInv(d)'
  BY <1>1, <1>8 DEF PickUp, PutBack, books, history
<1>9. ASSUME NEW c \in Cases, Approve(c)
      PROVE  \A d \in Cases : CaseInv(d)'
  BY <1>9, ApproveInv
<1>10. ASSUME NEW c \in Cases, Reject(c) \/ MarkRecovered(c)
       PROVE  \A d \in Cases : CaseInv(d)'
  <2>1. /\ \A d \in Cases \ {c} : caseState'[d] = caseState[d] /\ pending'[d] = pending[d]
        /\ caseState'[c] \notin {"absent", "open"}
        /\ pending'[c] = pending[c] \/ \A kind \in Kinds : pending'[c][kind] = 0
        /\ UNCHANGED <<retry_count, answerable, session, messages, approved, verified, excused>>
    BY <1>10, CancelledElsewhere, CancelledHere DEF Reject, MarkRecovered, history, TypeOK
  <2>2. desk' \in {desk, None} /\ None \notin Cases
    BY <1>10, AgentAssumption DEF Reject, MarkRecovered, AgentAssumption
  <2>3. \A d \in Cases \ {c} : Kept(d)
    BY <2>1 DEF Kept
  <2>4. CaseInv(c) /\ "retry" \in Kinds
    BY DEF Kinds
  <2>5. CaseInv(c)'
    BY <2>1, <2>4 DEF CaseInv, Quiet, InTheDark, Untouched, Consented, Worked, AmountPermitted
  <2> QED  BY <2>2, <2>3, <2>5, KeptInv
<1>11. CASE PutBack
  BY <1>1, <1>11 DEF PutBack, books, history
<1>12. ASSUME NEW c \in Cases,
              RunNudge(c) \/ DeferNudge(c) \/ RunRetry(c) \/ \E kind \in Kinds : Drop(c, kind)
       PROVE  \A d \in Cases : CaseInv(d)'
  BY <1>12, RunInv
<1> QED
  BY <1>2, <1>3, <1>4, <1>5, <1>6, <1>7, <1>8, <1>9, <1>10, <1>11, <1>12 DEF Next

(* every stop stands until a person lifts it: what was stopped is barred *)
LEMMA StopsStand ==
  ASSUME TypeOK, stopped \subseteq barred, [Next]_vars
  PROVE  (stopped \subseteq barred)'
<1>1. ASSUME NEW c, NEW code, Stop(c, code)
      PROVE  (stopped \subseteq barred)'
  BY <1>1 DEF Stop, StandsAtScope
<1>2. ASSUME NEW c, NEW calls, HandleReply(c, calls)
      PROVE  (stopped \subseteq barred)'
  BY <1>1, <1>2 DEF HandleReply, IgnoreReply, StopOnReply, HoldOnReply, Realign, NoteReply
<1>3. ASSUME NEW c, NEW check, HandleFailure(c, check)
      PROVE  (stopped \subseteq barred)'
  BY <1>3 DEF HandleFailure, AlreadyProcessed, OpenUnderAStop, HoldUnverified,
     CloseFalseFailure, Diagnose, history
<1>4. ASSUME NEW scope, Lift(scope)
      PROVE  (stopped \subseteq barred)'
  BY <1>4 DEF Lift
<1>5. ASSUME NEW c, NEW code, ApplyStop(c, code)
      PROVE  (stopped \subseteq barred)'
  BY <1>1, <1>5 DEF ApplyStop
<1>6. ASSUME NEW c,
             \/ Converse(c) \/ PickUp(c) \/ PutBack \/ Approve(c) \/ Reject(c)
             \/ MarkRecovered(c) \/ RunNudge(c) \/ DeferNudge(c) \/ RunRetry(c)
             \/ \E kind \in Kinds : Drop(c, kind)
      PROVE  (stopped \subseteq barred)'
  BY <1>6 DEF Converse, PickUp, PutBack, Approve, Reject, MarkRecovered, RunNudge,
     DeferNudge, RunRetry, Drop, history
<1>7. CASE UNCHANGED vars
  BY <1>7 DEF vars
<1> QED
  BY <1>2, <1>3, <1>4, <1>5, <1>6, <1>7 DEF Next

(* AgentInv is inductive: types, what is quiet, consented to or worked on, case by
   case, and that what was stopped is barred. *)
THEOREM AgentInvariant == Spec => []AgentInv
<1>1. Init => AgentInv
  BY InitInv
<1>2. AgentInv /\ [Next]_vars => AgentInv'
  BY NextTypes, NextCases, StopsStand DEF AgentInv
<1> QED  BY <1>1, <1>2, PTL DEF Spec

-----------------------------------------------------------------------------
(* What the invariant says of the properties the runs check. *)

LEMMA ConsentIsAsked ==
  ASSUME NEW c, AmountPermitted(c), AmountOf[c] \in Nat, MandateMaxOf[c] \in Nat \cup {NoCeiling}
  PROVE  MandateMaxOf[c] = NoCeiling \/ AmountOf[c] <= MandateMaxOf[c]
<1>1. CASE AmountOf[c] > 0 /\ ExceedsMandate(AmountOf[c], MandateMaxOf[c])
  BY <1>1 DEF AmountPermitted, MayAttempt, LimitOutcome
<1>2. CASE ~(AmountOf[c] > 0)
  BY <1>2 DEF AmountPermitted, MayAttempt, LimitOutcome, ExceedsMandate
<1> QED  BY <1>1, <1>2 DEF ExceedsMandate, NoCeiling

(* agent.py:299: however a retry is asked for, an amount above what the customer
   agreed to is neither armed nor debited. *)
THEOREM ConsentAlwaysBounds == Spec => []ConsentBoundsDebits
<1>1. AgentInv => ConsentBoundsDebits
  <2> SUFFICES ASSUME AgentInv, NEW c \in Cases,
                      MandateMaxOf[c] # NoCeiling, AmountOf[c] > MandateMaxOf[c]
               PROVE  pending[c]["retry"] = 0 /\ retry_count[c] = 0
    BY DEF ConsentBoundsDebits
  <2>1. AmountOf[c] \in Nat /\ MandateMaxOf[c] \in Nat
    BY AgentAssumption DEF AgentAssumption
  <2>2. ~AmountPermitted(c)
    BY <2>1, ConsentIsAsked
  <2> QED  BY <2>2 DEF AgentInv, CaseInv, Consented
<1> QED  BY <1>1, AgentInvariant, PTL

LEMMA DarkIsQuiet ==
  ASSUME AgentInv, NEW c \in Cases, InTheDark(c)
  PROVE  messages[c] = 0 /\ retry_count[c] = 0
BY DEF AgentInv, CaseInv, Quiet, Untouched

(* agent.py:795: a failure that may not be one costs its customer nothing until it
   was found unpaid or a person cleared it. *)
THEOREM AlwaysVerifiedBeforeDebit == Spec => []VerifiedBeforeDebit
<1>1. AgentInv => VerifiedBeforeDebit
  <2> SUFFICES ASSUME AgentInv, NEW c \in Unsettled, c \notin verified \cup approved
               PROVE  ~(retry_count[c] > 0 \/ messages[c] > 0)
    BY DEF VerifiedBeforeDebit
  <2>1. c \in Cases /\ InTheDark(c)
    BY DEF InTheDark, Unsettled
  <2> QED  BY <2>1, DarkIsQuiet
<1> QED  BY <1>1, AgentInvariant, PTL

(* taxonomy.py:432: a fault of the merchant's own is held whatever its reason, so its
   customer hears nothing unless a person clears it. *)
THEOREM MerchantFaultsAlwaysStayInHouse == Spec => []MerchantFaultsStayInHouse
<1>1. AgentInv => MerchantFaultsStayInHouse
  <2> SUFFICES ASSUME AgentInv, NEW c \in Cases \ approved,
                      SignalOf[c].source \in MerchantSources
               PROVE  messages[c] = 0 /\ retry_count[c] = 0
    BY DEF MerchantFaultsStayInHouse
  <2>1. Lookup(SignalOf[c]) = Unmatched
    BY DEF Lookup, MerchantFault
  <2>2. Unmatched.confidence = 0 /\ ~(0 >= ActsFrom)
    BY TaxonomyAssumption DEF Unmatched, TaxonomyAssumption
  <2>3. c \notin Confident
    BY <2>1, <2>2 DEF Confident, Acts
  <2> QED  BY <2>3, DarkIsQuiet DEF InTheDark
<1> QED  BY <1>1, AgentInvariant, PTL

(* agent.py:414: an open case whose amount may be debited and whose class has a rung
   has a row pending or its link sent, on every path a retry is refused on. *)
THEOREM OpenCasesAlwaysWorked == Spec => []OpenCasesAreWorked
<1>1. AgentInv => OpenCasesAreWorked
  BY DEF AgentInv, CaseInv, Worked, OpenCasesAreWorked
<1> QED  BY <1>1, AgentInvariant, PTL

(* agent.py:540, runner.py:300: while a stop stands, no step messages or debits a
   customer in its reach. *)
THEOREM StopsAlwaysHonoured == Spec => StopIsHonoured
<1> DEFINE Honoured ==
  \A c \in Cases :
    messages'[c] # messages[c] \/ retry_count'[c] # retry_count[c]
      => ~\E scope \in stopped : Covers(scope, c)
<1>1. ASSUME AgentInv, [Next]_vars PROVE Honoured
  <2>1. ASSUME NEW c \in Cases, RunNudge(c) PROVE Honoured
    <3>1. ~\E scope \in stopped : Covers(scope, c)
      BY <1>1, <2>1 DEF RunNudge, Gated, Standing, AgentInv
    <3>2. \A d \in Cases \ {c} : messages'[d] = messages[d] /\ retry_count'[d] = retry_count[d]
      BY <1>1, <2>1 DEF RunNudge, AgentInv, TypeOK
    <3> QED  BY <3>1, <3>2
  <2>2. ASSUME NEW c \in Cases, RunRetry(c) PROVE Honoured
    <3>1. ~\E scope \in stopped : Covers(scope, c)
      BY <1>1, <2>2 DEF RunRetry, Gated, Standing, AgentInv
    <3>2. \A d \in Cases \ {c} : messages'[d] = messages[d] /\ retry_count'[d] = retry_count[d]
      BY <1>1, <2>2 DEF RunRetry, AgentInv, TypeOK, history
    <3> QED  BY <3>1, <3>2
  <2>3. CASE UNCHANGED <<messages, retry_count>>
    BY <2>3
  <2>4. ASSUME NEW c, NEW check, HandleFailure(c, check) PROVE UNCHANGED <<messages, retry_count>>
    BY <2>4 DEF HandleFailure, AlreadyProcessed, OpenUnderAStop, HoldUnverified,
       CloseFalseFailure, Diagnose, books, history
  <2>5. ASSUME NEW c, NEW calls, HandleReply(c, calls) PROVE UNCHANGED <<messages, retry_count>>
    BY <2>5 DEF HandleReply, IgnoreReply, StopOnReply, HoldOnReply, Realign, NoteReply, books
  <2>6. ASSUME NEW c, NEW code, NEW scope, NEW kind,
               \/ ApplyStop(c, code) \/ Lift(scope) \/ Converse(c) \/ PickUp(c) \/ PutBack
               \/ Approve(c) \/ Reject(c) \/ MarkRecovered(c) \/ DeferNudge(c) \/ Drop(c, kind)
        PROVE UNCHANGED <<messages, retry_count>>
    BY <2>6 DEF ApplyStop, Lift, Converse, PickUp, PutBack, Approve, Reject, MarkRecovered,
       DeferNudge, Drop, books, history
  <2> QED
    BY <1>1, <2>1, <2>2, <2>3, <2>4, <2>5, <2>6 DEF Next, vars
<1>2. AgentInv /\ [Next]_vars => [Honoured]_vars
  BY <1>1
<1> QED  BY <1>2, AgentInvariant, PTL DEF Spec, StopIsHonoured

-----------------------------------------------------------------------------
(* One row of each kind.                                                   *)

(* arming adds one row *)
LEMMA ArmCounts ==
  ASSUME NEW rows \in Rows, NEW c \in Cases, NEW kind \in Kinds
  PROVE  \A k \in Kinds : Arm(rows, c, kind)[c][k] = IF k = kind THEN rows[c][k] + 1
                                                     ELSE rows[c][k]
BY DEF Arm, Rows

(* a request adds at most one row to those it was made over *)
LEMMA RequestCounts ==
  ASSUME NEW c \in Cases, NEW entry \in Rungs \cup {NoRung}, NEW count,
         NEW rows \in Rows, NEW states, RequestRetry(c, entry, count, rows, states)
  PROVE  /\ \A d \in Cases \ {c} : pending'[d] = rows[d]
         /\ \A kind \in Kinds : pending'[c][kind] \in {rows[c][kind], rows[c][kind] + 1}
<1>1. pending' = rows \/ \E kind \in Kinds : pending' = Arm(rows, c, kind)
  BY RequestEffect
<1>2. \A kind \in Kinds :
        /\ \A d \in Cases \ {c} : Arm(rows, c, kind)[d] = rows[d]
        /\ \A k \in Kinds : Arm(rows, c, kind)[c][k] \in {rows[c][k], rows[c][k] + 1}
  BY ArmType, ArmCounts
<1> QED  BY <1>1, <1>2

(* What any step does to the queue of a case: nothing is added to it but by the one
   diagnosis, by a promise over an emptied queue, or by a reviewer. *)
Fewer(d) == \A kind \in Kinds : pending'[d][kind] <= pending[d][kind]
Entered(d) ==
  /\ d \notin diagnosed /\ d \in diagnosed'
  /\ \A kind \in Kinds : pending'[d][kind] <= pending[d][kind] + 1
Promised(d) == session[d] # None /\ \A kind \in Kinds : pending'[d][kind] <= 1

LEMMA DiagnoseCounts ==
  ASSUME TypeOK, NEW c \in Cases, NEW check, Diagnose(c, check)
  PROVE  /\ \A d \in Cases \ {c} : pending'[d] = pending[d]
         /\ Entered(c)
<1> DEFINE rung == EntryRung(ClassOf[c])
           asked == Arm(pending, c, Slug(rung))
<1>1. pending \in Rows /\ rung \in Rungs \cup {NoRung} /\ "retry" \in Kinds
      /\ \A kind \in Kinds : pending[c][kind] \in Nat
  BY EntryRungType DEF TypeOK, Rows, Kinds
<1>2. c \notin diagnosed /\ c \in diagnosed'
  BY DEF Diagnose
<1> HIDE DEF rung
<1>3. CASE UNCHANGED pending
  BY <1>1, <1>2, <1>3 DEF Entered
<1>4. CASE pending' = Cancelled(c)
  BY <1>1, <1>2, <1>4, CancelledElsewhere, CancelledHere DEF Entered
<1>5. CASE /\ rung \notin {NoRung, SilentRetry}
           /\ pending' = (IF HasFallback(c) THEN Arm(asked, c, "retry") ELSE asked)
  <2>1. Slug(rung) \in Kinds /\ Slug(rung) # "retry"
    BY <1>1, <1>5, SlugType
  <2>2. asked \in Rows /\ \A d \in Cases \ {c} : asked[d] = pending[d]
    BY <1>1, <2>1, ArmType
  <2>3. \A k \in Kinds : asked[c][k] = IF k = Slug(rung) THEN pending[c][k] + 1
                                       ELSE pending[c][k]
    BY <1>1, <2>1, ArmCounts
  <2> HIDE DEF asked
  <2>4. \A d \in Cases \ {c} : Arm(asked, c, "retry")[d] = asked[d]
    BY <1>1, <2>2, ArmType
  <2>5. \A k \in Kinds : Arm(asked, c, "retry")[c][k] = IF k = "retry" THEN asked[c][k] + 1
                                                        ELSE asked[c][k]
    BY <1>1, <2>2, ArmCounts
  <2> QED  BY <1>1, <1>2, <1>5, <2>1, <2>2, <2>3, <2>4, <2>5 DEF Entered
<1>6. CASE RequestRetry(c, rung, retry_count[c], pending, Opened(c))
  <2>1. /\ \A d \in Cases \ {c} : pending'[d] = pending[d]
        /\ \A kind \in Kinds : pending'[c][kind] \in {pending[c][kind], pending[c][kind] + 1}
    BY <1>1, <1>6, RequestCounts
  <2> QED  BY <1>1, <1>2, <2>1 DEF Entered
<1> QED
  BY <1>3, <1>4, <1>5, <1>6 DEF Diagnose, rung

LEMMA RowsStep ==
  ASSUME TypeOK, [Next]_vars, NEW d \in Cases
  PROVE  Fewer(d) \/ Entered(d) \/ Promised(d) \/ d \in approved'
<1>1. pending \in Rows /\ \A kind \in Kinds : pending[d][kind] \in Nat
  BY DEF TypeOK, Rows
<1>2. ASSUME pending'[d] = pending[d] \/ \A kind \in Kinds : pending'[d][kind] = 0
      PROVE  Fewer(d)
  BY <1>1, <1>2 DEF Fewer
<1>3. ASSUME NEW scope, pending' = Cancelled(scope)
      PROVE  Fewer(d)
  BY <1>2, <1>3, CancelledType
<1>4. ASSUME NEW c \in Cases, NEW check, HandleFailure(c, check)
      PROVE  Fewer(d) \/ Entered(d)
  <2>1. CASE Diagnose(c, check)
    BY <1>2, <2>1, DiagnoseCounts
  <2> QED
    BY <1>2, <1>3, <1>4, <2>1 DEF HandleFailure, AlreadyProcessed, OpenUnderAStop,
       HoldUnverified, CloseFalseFailure, books
<1>5. ASSUME NEW c \in Cases, NEW calls \in Replies, HandleReply(c, calls)
      PROVE  Fewer(d) \/ Promised(d)
  <2> DEFINE outcome == Decide(Reading[calls])
  <2>1. CASE Realign(c, outcome)
    <3>1. CASE RequestRetry(c, LatestEntry(c), session[c], Cancelled(c), caseState)
      <4>1. /\ \A e \in Cases \ {c} : pending'[e] = Cancelled(c)[e]
            /\ \A kind \in Kinds :
                 pending'[c][kind] \in {Cancelled(c)[c][kind], Cancelled(c)[c][kind] + 1}
        BY <3>1, LatestEntryType, CancelledType, RequestCounts
      <4>2. CASE d = c
        BY <1>5, <4>1, <4>2, CancelledHere DEF Promised, HandleReply
      <4>3. CASE d # c
        BY <1>2, <4>1, <4>3, CancelledElsewhere
      <4> QED  BY <4>2, <4>3
    <3> QED  BY <1>3, <2>1, <3>1 DEF Realign
  <2>2. CASE StopOnReply(c, outcome) \/ HoldOnReply(c, outcome)
    BY <1>3, <2>2 DEF StopOnReply, HoldOnReply, Stop
  <2>3. CASE IgnoreReply(c) \/ NoteReply(c, outcome)
    BY <1>2, <2>3 DEF IgnoreReply, NoteReply, books
  <2> QED  BY <1>5, <2>1, <2>2, <2>3 DEF HandleReply
<1>6. ASSUME NEW c \in Cases, Approve(c)
      PROVE  Fewer(d) \/ d \in approved'
  <2>1. CASE d = c
    BY <1>6, <2>1 DEF Approve
  <2>2. CASE d # c
    <3>1. CASE UNCHANGED pending
      BY <1>2, <3>1
    <3>2. ASSUME NEW states, RequestRetry(c, LatestEntry(c), retry_count[c], pending, states)
          PROVE  Fewer(d)
      BY <1>1, <1>2, <2>2, <3>2, LatestEntryType, RequestCounts
    <3> QED  BY <1>6, <3>1, <3>2 DEF Approve
  <2> QED  BY <2>1, <2>2
<1>7. ASSUME NEW c \in Cases, NEW kind \in Kinds, Take(c, kind)
      PROVE  Fewer(d)
  BY <1>1, <1>7 DEF Take, Fewer, Rows
<1>8. ASSUME NEW c \in Cases, RunNudge(c) \/ RunRetry(c) \/ \E kind \in Kinds : Drop(c, kind)
      PROVE  Fewer(d)
  BY <1>7, <1>8, NudgeKind DEF RunNudge, RunRetry, Drop, Kinds
<1>9. ASSUME NEW c \in Cases, NEW code, ApplyStop(c, code) \/ MarkRecovered(c)
      PROVE  Fewer(d)
  BY <1>3, <1>9 DEF ApplyStop, Stop, MarkRecovered
<1>10. ASSUME NEW c, NEW scope,
              \/ Lift(scope) \/ Converse(c) \/ PickUp(c) \/ PutBack \/ Reject(c)
              \/ DeferNudge(c)
       PROVE  Fewer(d)
  BY <1>2, <1>10 DEF Lift, Converse, PickUp, PutBack, Reject, DeferNudge, books
<1>11. CASE UNCHANGED vars
  BY <1>2, <1>11 DEF vars
<1> QED
  BY <1>4, <1>5, <1>6, <1>8, <1>9, <1>10, <1>11 DEF Next

(* nobody talks about a case, and nothing is scheduled on it, before it is diagnosed *)
OneEach(c) ==
  /\ session[c] # None => c \in diagnosed
  /\ c \notin approved =>
       \A kind \in Kinds : /\ pending[c][kind] <= 1
                           /\ c \notin diagnosed => pending[c][kind] = 0

LEMMA OneEachStep ==
  ASSUME TypeOK, TypeOK', [Next]_vars, NEW d \in Cases, OneEach(d)
  PROVE  OneEach(d)'
<1>1. d \in diagnosed => d \in diagnosed'
  <2>1. ASSUME NEW c, NEW check, HandleFailure(c, check)
        PROVE  diagnosed \subseteq diagnosed'
    BY <2>1 DEF HandleFailure, AlreadyProcessed, OpenUnderAStop, HoldUnverified,
       CloseFalseFailure, Diagnose, books
  <2>2. ASSUME NEW c, NEW calls, HandleReply(c, calls)
        PROVE  UNCHANGED diagnosed
    BY <2>2 DEF HandleReply, IgnoreReply, StopOnReply, HoldOnReply, Realign, NoteReply, books
  <2>3. ASSUME NEW c, NEW code, NEW scope, NEW kind,
               \/ ApplyStop(c, code) \/ Lift(scope) \/ Converse(c) \/ PickUp(c) \/ PutBack
               \/ Approve(c) \/ Reject(c) \/ MarkRecovered(c) \/ RunNudge(c) \/ DeferNudge(c)
               \/ RunRetry(c) \/ Drop(c, kind)
        PROVE  UNCHANGED diagnosed
    BY <2>3 DEF ApplyStop, Lift, Converse, PickUp, PutBack, Approve, Reject, MarkRecovered,
       RunNudge, DeferNudge, RunRetry, Drop, books
  <2> QED
    BY <2>1, <2>2, <2>3 DEF Next, vars
<1>2. session'[d] # None => session[d] # None \/ d \in diagnosed
  <2>1. ASSUME NEW c, NEW calls, HandleReply(c, calls)
        PROVE  session'[d] # None => session[d] # None
    BY <2>1 DEF HandleReply, TypeOK
  <2>2. ASSUME NEW c, Converse(c)
        PROVE  session'[d] # None => session[d] # None \/ d \in diagnosed
    BY <2>2 DEF Converse, TypeOK
  <2>3. ASSUME NEW c, NEW check, HandleFailure(c, check)
        PROVE  UNCHANGED session
    BY <2>3 DEF HandleFailure
  <2>4. ASSUME NEW c, NEW code, NEW scope, NEW kind,
               \/ ApplyStop(c, code) \/ Lift(scope) \/ PickUp(c) \/ PutBack
               \/ Approve(c) \/ Reject(c) \/ MarkRecovered(c) \/ RunNudge(c) \/ DeferNudge(c)
               \/ RunRetry(c) \/ Drop(c, kind)
        PROVE  UNCHANGED session
    BY <2>4 DEF ApplyStop, Lift, PickUp, PutBack, Approve, Reject, MarkRecovered,
       RunNudge, DeferNudge, RunRetry, Drop
  <2> QED
    BY <2>1, <2>2, <2>3, <2>4 DEF Next, vars
<1>3. d \in approved => d \in approved'
  <2>1. ASSUME NEW c, NEW check, HandleFailure(c, check)
        PROVE  UNCHANGED approved
    BY <2>1 DEF HandleFailure, AlreadyProcessed, OpenUnderAStop, HoldUnverified,
       CloseFalseFailure, Diagnose, history
  <2>2. ASSUME NEW c, NEW calls, HandleReply(c, calls)
        PROVE  UNCHANGED approved
    BY <2>2 DEF HandleReply, IgnoreReply, StopOnReply, HoldOnReply, Realign, NoteReply
  <2>3. ASSUME NEW c, NEW code, NEW scope, NEW kind,
               \/ ApplyStop(c, code) \/ Lift(scope) \/ Converse(c) \/ PickUp(c) \/ PutBack
               \/ Approve(c) \/ Reject(c) \/ MarkRecovered(c) \/ RunNudge(c) \/ DeferNudge(c)
               \/ RunRetry(c) \/ Drop(c, kind)
        PROVE  approved \subseteq approved'
    BY <2>3 DEF ApplyStop, Lift, Converse, PickUp, PutBack, Approve, Reject, MarkRecovered,
       RunNudge, DeferNudge, RunRetry, Drop, history
  <2> QED
    BY <2>1, <2>2, <2>3 DEF Next, vars
<1>4. Fewer(d) \/ Entered(d) \/ Promised(d) \/ d \in approved'
  BY RowsStep
<1>5. \A kind \in Kinds : pending[d][kind] \in Nat /\ pending'[d][kind] \in Nat
  BY DEF TypeOK
<1> QED
  BY <1>1, <1>2, <1>3, <1>4, <1>5 DEF OneEach, Fewer, Entered, Promised

(* agent.py:81, reply.py:203: whatever is redelivered, replied, promised or stopped,
   a case no person cleared has at most one debit and one message under way. *)
THEOREM OneOfEachAlways == Spec => []OneOfEachUntilCleared
<1> DEFINE Ones == \A c \in Cases : OneEach(c)
<1>1. Init => Ones
  BY DEF Init, OneEach
<1>2. TypeOK /\ TypeOK' /\ Ones /\ [Next]_vars => Ones'
  BY OneEachStep
<1>3. Ones => OneOfEachUntilCleared
  BY DEF OneEach, OneOfEachUntilCleared
<1> HIDE DEF Ones
<1> QED  BY <1>1, <1>2, <1>3, AgentTypes, PTL DEF Spec

-----------------------------------------------------------------------------
(* What is not known of a failure.                                         *)

(* A finite set of numbers that is not empty has a greatest. *)
LEMMA FiniteSetHasMax ==
  ASSUME NEW S, IsFiniteSet(S), S \subseteq Nat, S # {}
  PROVE  \E n \in S : \A k \in S : k <= n
<1> DEFINE HasMax(A) == \E n \in A : \A k \in A : k <= n
           T == {A \in SUBSET S : A # {} /\ ~HasMax(A)}
<1> SUFFICES ASSUME T # {} PROVE FALSE
  BY DEF HasMax
<1>1. FiniteSubsetsOf(S) = SUBSET S
  BY FS_FiniteSubsetsOfFinite
<1>2. IsWellFoundedOn(StrictSubsetOrdering(S), SUBSET S)
  BY <1>1, FS_StrictSubsetOrderingWellFounded
<1>3. PICK A \in T : \A B \in T : <<B, A>> \notin StrictSubsetOrdering(S)
  <2>1. T \subseteq SUBSET S
    OBVIOUS
  <2> HIDE DEF T
  <2> QED  BY <1>2, <2>1, WFMin
<1>4. PICK x \in A : TRUE
  BY <1>3
<1>5. A \ {x} \notin T
  <2>1. A \ {x} \in SUBSET S /\ A \in SUBSET S /\ A \ {x} # A
    BY <1>3, <1>4
  <2>2. <<A \ {x}, A>> \in StrictSubsetOrdering(S)
    BY <2>1 DEF StrictSubsetOrdering
  <2> QED  BY <1>3, <2>2
<1>6. A \subseteq Nat
  BY <1>3
<1>7. CASE A \ {x} = {}
  BY <1>3, <1>4, <1>6, <1>7
<1>8. CASE A \ {x} # {}
  <2>1. PICK n \in A \ {x} : \A k \in A \ {x} : k <= n
    BY <1>3, <1>5, <1>8
  <2>2. HasMax(A)
    <3>1. CASE x <= n
      BY <2>1, <3>1
    <3>2. CASE ~(x <= n)
      BY <1>4, <1>6, <2>1, <3>2
    <3> QED  BY <3>1, <3>2
  <2> QED  BY <1>3, <2>2
<1> QED  BY <1>7, <1>8

(* a share is at least q if the whole is q times as much *)
LEMMA DivAtLeast ==
  ASSUME NEW a \in Nat, NEW b \in Nat \ {0}, NEW q \in Nat
  PROVE  a \div b >= q <=> a >= q * b
<1> DEFINE d == a \div b
<1>1. d \in Nat /\ b * d <= a /\ a < b * d + b
  OBVIOUS
<1> HIDE DEF d
<1>2. CASE d >= q
  <2>1. d * b >= q * b
    BY <1>1, <1>2
  <2> QED  BY <1>1, <1>2, <2>1
<1>3. CASE d < q
  <2>1. (d + 1) * b <= q * b
    BY <1>1, <1>3
  <2> QED  BY <1>1, <1>3, <2>1
<1> QED  BY <1>1, <1>2, <1>3 DEF d

(* The fewer causes share what a rule is worth, the more each gets: what is acted on
   among n causes is acted on among fewer. *)
LEMMA FewerCausesAct ==
  ASSUME NEW d \in 0 .. 100, NEW n \in Nat \ {0}, NEW m \in Nat \ {0}, m <= n,
         (2 * d + n) \div (2 * n) >= ActsFrom
  PROVE  (2 * d + m) \div (2 * m) >= ActsFrom
<1>1. ActsFrom \in Nat /\ ActsFrom >= 1
  BY TaxonomyAssumption DEF TaxonomyAssumption
<1>2. 2 * d + n >= ActsFrom * (2 * n)
  BY <1>1, DivAtLeast
<1>3. PICK over \in Nat : over = 2 * ActsFrom - 1
  BY <1>1
<1>4. ActsFrom * (2 * n) = over * n + n /\ ActsFrom * (2 * m) = over * m + m
  BY <1>1, <1>3
<1>5. over * m <= over * n
  BY <1>3
<1>6. over * n \in Nat /\ over * m \in Nat
  BY <1>3
<1>7. 2 * d + m >= ActsFrom * (2 * m)
  BY <1>2, <1>4, <1>5, <1>6
<1> QED  BY <1>1, <1>7, DivAtLeast

(* where no method is known, the worst count of those that are documented *)
LEMMA WorstCount ==
  ASSUME NEW e \in DOMAIN Causes, e[1] # AnyMethod
  PROVE  /\ DocumentedCauses(Absent, e[2]) \in Nat \ {0}
         /\ DocumentedCauses(e[1], e[2]) \in Nat \ {0}
         /\ DocumentedCauses(e[1], e[2]) <= DocumentedCauses(Absent, e[2])
<1> DEFINE counts == CountsOf(e[2])
<1>1. e = <<e[1], e[2]>> /\ <<Absent, e[2]>> \notin DOMAIN Causes
  BY TaxonomyAssumption DEF TaxonomyAssumption
<1>2. Causes[e] \in counts /\ counts \subseteq Nat \ {0} /\ counts # {}
  BY TaxonomyAssumption DEF TaxonomyAssumption, CountsOf
<1>3. IsFiniteSet(counts)
  <2> DEFINE entries == {f \in DOMAIN Causes : f[1] # AnyMethod /\ f[2] = e[2]}
             count == [f \in entries |-> Causes[f]]
  <2>1. IsFiniteSet(entries)
    BY TaxonomyAssumption, FS_Subset DEF TaxonomyAssumption
  <2>2. count \in Surjection(entries, counts)
    BY DEF Surjection, CountsOf
  <2> HIDE DEF entries, count, counts
  <2> QED  BY <2>1, <2>2, FS_Surjection
<1>4. \E n \in counts : \A k \in counts : k <= n
  <2> HIDE DEF counts
  <2> QED  BY <1>2, <1>3, FiniteSetHasMax
<1>5. DocumentedCauses(Absent, e[2]) = CHOOSE n \in counts : \A k \in counts : k <= n
  BY <1>1, <1>2 DEF DocumentedCauses
<1>6. DocumentedCauses(e[1], e[2]) = Causes[e]
  BY <1>1 DEF DocumentedCauses
<1> HIDE DEF counts
<1>7. /\ DocumentedCauses(Absent, e[2]) \in counts
      /\ \A k \in counts : k <= DocumentedCauses(Absent, e[2])
  BY <1>4, <1>5
<1> QED  BY <1>2, <1>6, <1>7

(* a rule that names no method is found whatever the method *)
LEMMA SameRule ==
  ASSUME \A key \in DOMAIN Table : key[1] = Wild,
         NEW signal, NEW other,
         signal.reason = other.reason, signal.source = other.source, signal.step = other.step,
         Field(signal.method) = Wild, Hits(signal) # {}
  PROVE  Hits(other) # {} /\ KeyOfSignal(other) = KeyOfSignal(signal)
         /\ KeyOfSignal(signal) \in DOMAIN Table
<1> DEFINE K(i) == Candidates(signal)[i]
           L(i) == Candidates(other)[i]
<1>1. /\ K(1) = K(3) /\ K(2) = K(4)
      /\ L(3) = K(3) /\ L(4) = K(4) /\ L(5) = K(5)
  BY DEF Candidates
<1>2. \/ L(1) = K(1) /\ L(2) = K(2)
      \/ L(1) \notin DOMAIN Table /\ L(2) \notin DOMAIN Table
  BY DEF Candidates
<1>3. 1 .. 5 = {1, 2, 3, 4, 5}
  OBVIOUS
<1>4. /\ \A i \in 1 .. 5 : i \in Hits(signal) <=> K(i) \in DOMAIN Table
      /\ \A i \in 1 .. 5 : i \in Hits(other) <=> L(i) \in DOMAIN Table
      /\ Hits(signal) \subseteq 1 .. 5 /\ Hits(other) \subseteq 1 .. 5
  BY DEF Hits
<1>5. KeyOfSignal(signal) = K(CHOOSE i \in Hits(signal) : \A j \in Hits(signal) : i <= j)
      /\ KeyOfSignal(other) = L(CHOOSE i \in Hits(other) : \A j \in Hits(other) : i <= j)
  BY DEF KeyOfSignal
<1> HIDE DEF K, L
<1>6. Hits(other) # {}
  BY <1>1, <1>3, <1>4
<1>7. PICK i \in Hits(signal) :
        /\ \A j \in Hits(signal) : i <= j
        /\ i = CHOOSE n \in Hits(signal) : \A j \in Hits(signal) : n <= j
  <2>1. \E n \in Hits(signal) : \A j \in Hits(signal) : n <= j
    BY <1>1, <1>3, <1>4
  <2> QED  BY <2>1
<1>8. PICK l \in Hits(other) :
        /\ \A j \in Hits(other) : l <= j
        /\ l = CHOOSE n \in Hits(other) : \A j \in Hits(other) : n <= j
  <2>1. \E n \in Hits(other) : \A j \in Hits(other) : n <= j
    BY <1>3, <1>4, <1>6
  <2> QED  BY <2>1
<1>9. K(i) \in DOMAIN Table /\ L(l) \in DOMAIN Table /\ i \in 1 .. 5 /\ l \in 1 .. 5
  BY <1>4, <1>7, <1>8
<1>10. K(i) = L(l)
  <2>1. CASE L(1) = K(1) /\ L(2) = K(2)
    <3>1. \A j \in 1 .. 5 : L(j) = K(j)
      BY <1>1, <1>3, <2>1
    <3> QED  BY <1>4, <1>7, <1>8, <1>9, <3>1
  <2>2. CASE L(1) \notin DOMAIN Table /\ L(2) \notin DOMAIN Table
    <3>1. l \in {3, 4, 5} /\ K(l) = L(l) /\ l \in Hits(signal)
      BY <1>1, <1>3, <1>4, <1>9, <2>2
    <3>2. i <= l
      BY <1>7, <3>1
    <3>3. CASE i \in {3, 4, 5}
      <4>1. L(i) = K(i) /\ i \in Hits(other)
        BY <1>1, <1>4, <1>9, <3>3
      <4>2. i = l
        <5>1. l <= i
          BY <1>8, <4>1
        <5>2. i \in Int /\ l \in Int
          BY <1>3, <1>9
        <5> QED  BY <3>2, <5>1, <5>2
      <4> QED  BY <3>1, <4>2
    <3>4. CASE i = 1
      <4>1. l = 3
        BY <1>1, <1>3, <1>4, <1>8, <1>9, <3>1, <3>4
      <4> QED  BY <1>1, <3>1, <3>4, <4>1
    <3>5. CASE i = 2
      <4>1. 1 \notin Hits(signal) /\ 3 \notin Hits(signal)
        BY <1>1, <1>3, <1>4, <1>7, <3>5
      <4>2. l = 4
        BY <1>1, <1>3, <1>4, <1>8, <1>9, <3>1, <3>5, <4>1
      <4> QED  BY <1>1, <3>1, <3>5, <4>2
    <3> QED  BY <1>3, <1>9, <3>3, <3>4, <3>5
  <2> QED  BY <1>2, <2>1, <2>2
<1> QED  BY <1>5, <1>6, <1>7, <1>8, <1>9, <1>10

(* taxonomy.py:96, "Knowing less must never buy more autonomy": as long as no rule of
   the table names a method, which is how it is written, a failure whose method nobody
   gave is acted on only if it would be under every method documented for its reason. *)
THEOREM IgnoranceNeverBuysAnything ==
  ASSUME \A key \in DOMAIN Table : key[1] = Wild
  PROVE  Spec => []IgnoranceBuysNothing
<1>1. ASSUME NEW c \in Cases, NEW e \in DOMAIN Causes, c \in Confident,
             SignalOf[c].method = Absent, SignalOf[c].reason = e[2], e[1] # AnyMethod
      PROVE  Acts(Lookup([SignalOf[c] EXCEPT !.method = e[1]]))
  <2> DEFINE signal == SignalOf[c]
             other == [SignalOf[c] EXCEPT !.method = e[1]]
             key == KeyOfSignal(signal)
             few == IF key[3] # Wild THEN 1 ELSE DocumentedCauses(e[1], e[2])
             many == IF key[3] # Wild THEN 1 ELSE DocumentedCauses(Absent, e[2])
  <2>1. /\ signal.reason = other.reason /\ signal.source = other.source
        /\ signal.step = other.step /\ other.method = e[1]
        /\ Field(signal.method) = Wild
    BY <1>1, AgentAssumption DEF AgentAssumption, Field
  <2>2. Acts(Lookup(signal))
    BY <1>1 DEF Confident
  <2>3. /\ signal.reason # Absent /\ ~MerchantFault(signal) /\ Hits(signal) # {}
    <3>1. ~Acts(Unmatched)
      BY TaxonomyAssumption DEF TaxonomyAssumption, Acts, Unmatched
    <3> QED  BY <2>2, <3>1 DEF Lookup
  <2> HIDE DEF signal, other
  <2>4. Hits(other) # {} /\ KeyOfSignal(other) = key /\ key \in DOMAIN Table
    BY <2>1, <2>3, SameRule
  <2>5. Table[key].directness \in 0 .. 100
    BY <2>4, TaxonomyAssumption DEF TaxonomyAssumption
  <2>6. few \in Nat \ {0} /\ many \in Nat \ {0} /\ few <= many
    BY <1>1, WorstCount
  <2>7. (2 * Table[key].directness + many) \div (2 * many) >= ActsFrom
    BY <1>1, <2>2, <2>3 DEF Acts, Lookup, signal
  <2> HIDE DEF key, few, many
  <2>8. (2 * Table[key].directness + few) \div (2 * few) >= ActsFrom
    BY <2>5, <2>6, <2>7, FewerCausesAct
  <2>9. other.reason # Absent /\ ~MerchantFault(other)
    BY <2>1, <2>3 DEF MerchantFault
  <2>10. Lookup(other).confidence = (2 * Table[key].directness + few) \div (2 * few)
    BY <1>1, <2>1, <2>4, <2>9 DEF Lookup, few, signal
  <2> QED  BY <2>8, <2>10 DEF Acts, other
<1>2. AgentInv => IgnoranceBuysNothing
  <2> SUFFICES ASSUME AgentInv, NEW c \in Cases \ approved, NEW e \in DOMAIN Causes,
                      SignalOf[c].method = Absent, SignalOf[c].reason = e[2],
                      e[1] # AnyMethod, retry_count[c] > 0 \/ messages[c] > 0
               PROVE  Acts(Lookup([SignalOf[c] EXCEPT !.method = e[1]]))
    BY DEF IgnoranceBuysNothing
  <2>1. c \in Confident
    BY DarkIsQuiet DEF InTheDark
  <2> QED  BY <1>1, <2>1
<1> QED  BY <1>2, AgentInvariant, PTL

-----------------------------------------------------------------------------
(* Replies. *)

(* Whoever the reply is put in front of, the case is held and its queue is empty. *)
LEMMA HeldOnReply ==
  ASSUME TypeOK, NEW c \in Cases, NEW calls \in Replies, HandleReply(c, calls), ~Standing(c),
         Decide(Reading[calls]).human, ~Decide(Reading[calls]).promise
  PROVE  caseState'[c] = "held-for-human" /\ \A kind \in Kinds : pending'[c][kind] = 0
<1> DEFINE outcome == Decide(Reading[calls])
<1>1. StopOnReply(c, outcome) \/ HoldOnReply(c, outcome)
  BY DEF HandleReply, IgnoreReply, Realign, NoteReply
<1>2. outcome.stop \in {NoStop, "DISTRESS", "DISPUTE", "OPT_OUT"}
      /\ {"DISTRESS", "DISPUTE", "OPT_OUT"} \subseteq DOMAIN Rules
  BY DecideStop
<1>3. outcome.human
  OBVIOUS
<1> HIDE DEF outcome
<1>4. CASE HoldOnReply(c, outcome)
  BY <1>4, CancelledHere DEF HoldOnReply, TypeOK
<1>5. CASE StopOnReply(c, outcome)
  <2>1. \A kind \in Kinds : pending'[c][kind] = 0
    BY <1>2, <1>5, StopReach DEF StopOnReply
  <2>2. /\ Rules["DISTRESS"].terminal = "held-for-human"
        /\ Rules["DISPUTE"].terminal = "held-for-human"
        /\ Rules["OPT_OUT"].terminal = None
    BY DEF Rules, Rule
  <2>3. outcome.stop \in {"DISTRESS", "DISPUTE", "OPT_OUT"}
    BY <1>2, <1>5 DEF StopOnReply
  <2>4. caseState' = [caseState EXCEPT ![c] = "held-for-human"]
    <3>1. CASE outcome.stop = "OPT_OUT"
      BY <1>3, <1>5, <2>2, <3>1 DEF StopOnReply
    <3>2. CASE outcome.stop # "OPT_OUT"
      <4>1. Rules[outcome.stop].terminal = "held-for-human"
        BY <2>2, <2>3, <3>2
      <4>2. caseState' = [caseState EXCEPT ![c] = "held-for-human"]
            \/ caseState' = Terminal(c, outcome.stop)
        BY <1>5 DEF StopOnReply
      <4>3. None # "held-for-human" =>
              Terminal(c, outcome.stop) = [caseState EXCEPT ![c] = "held-for-human"]
        BY <4>1 DEF Terminal
      <4>4. CASE None = "held-for-human"
        BY <1>3, <1>5, <4>1, <4>4 DEF StopOnReply
      <4> QED  BY <4>2, <4>3, <4>4
    <3> QED  BY <3>1, <3>2
  <2> QED  BY <2>1, <2>4 DEF TypeOK
<1> QED  BY <1>1, <1>4, <1>5

(* agent.py:668, replies.py:163: a customer who cancels gets a person and nothing else,
   whatever else the reply says, was scheduled, or is bound to happen by the stop it
   also raises. *)
THEOREM CancellationsAlwaysReachAPerson == Spec => CancellationReachesAPerson
<1>1. ASSUME AgentInv, NEW c \in Cases, NEW calls \in Replies, ~Standing(c),
             Cancels(Reading[calls]), HandleReply(c, calls)
      PROVE  caseState'[c] = "held-for-human" /\ \A kind \in Kinds : pending'[c][kind] = 0
  BY <1>1, CancellationsAreHeard, HeldOnReply DEF AgentInv
<1> DEFINE Reached ==
  \A c \in Cases, calls \in Replies :
    /\ session[c] # None /\ inputs' # inputs /\ ~Standing(c)
    /\ ~Reading[calls].failed /\ Cancels(Reading[calls])
    /\ HandleReply(c, calls)
    => /\ caseState'[c] = "held-for-human"
       /\ \A kind \in Kinds : pending'[c][kind] = 0
<1>2. AgentInv => Reached
  BY <1>1
<1> HIDE DEF Reached
<1>3. AgentInv => [Reached]_vars
  BY <1>2
<1>4. Spec => [][Reached]_vars
  BY <1>3, AgentInvariant, PTL
<1> QED  BY <1>4 DEF Reached, CancellationReachesAPerson

(* reply.py:203: a reply that was not read to its end is acted on by nobody but the
   person who gets it. *)
THEOREM SilenceAlwaysReachesAPerson == Spec => SilenceReachesAPerson
<1>1. ASSUME AgentInv, NEW c \in Cases, NEW calls \in Replies, ~Standing(c),
             ModelAnswer(calls).kind # "read", HandleReply(c, calls)
      PROVE  /\ caseState'[c] = "held-for-human" /\ barred' = barred
             /\ \A kind \in Kinds : pending'[c][kind] = 0
  <2>1. Reading[calls].failed
    BY <1>1 DEF Reading, Parse, Readable
  <2>2. /\ Decide(Reading[calls]).human /\ ~Decide(Reading[calls]).promise
        /\ Decide(Reading[calls]).stop = NoStop
    BY <2>1 DEF Decide, Nothing
  <2>3. barred' = barred
    BY <1>1, <2>2 DEF HandleReply, IgnoreReply, StopOnReply, HoldOnReply, Realign, NoteReply
  <2> QED  BY <1>1, <2>2, <2>3, HeldOnReply DEF AgentInv
<1> DEFINE Reached ==
  \A c \in Cases, calls \in Replies :
    /\ session[c] # None /\ inputs' # inputs /\ ~Standing(c)
    /\ ModelAnswer(calls).kind # "read" /\ HandleReply(c, calls)
    => /\ caseState'[c] = "held-for-human" /\ barred' = barred
       /\ \A kind \in Kinds : pending'[c][kind] = 0
<1>2. AgentInv => Reached
  BY <1>1
<1> HIDE DEF Reached
<1>3. AgentInv => [Reached]_vars
  BY <1>2
<1>4. Spec => [][Reached]_vars
  BY <1>3, AgentInvariant, PTL
<1> QED  BY <1>4 DEF Reached, SilenceReachesAPerson

(* evidence.py:5: a reply bars contact, or arms a debit, only on words that are in it. *)
THEOREM OnlyTheirWordsEverCount == Spec => OnlyTheirWordsCount
<1>1. ASSUME AgentInv, NEW c \in Cases, NEW calls \in Replies, HandleReply(c, calls),
             ~ModelAnswer(calls).distressed
      PROVE  /\ barred' # barred => Said(calls, {"distress", "dispute", "opt-out"})
             /\ \A kind \in Kinds : pending'[c][kind] > pending[c][kind] =>
                  Said(calls, {"promise-to-pay"})
  <2> DEFINE outcome == Decide(Reading[calls])
  <2>1. Reading[calls] = Parse(calls)
    BY DEF Reading
  <2>2. /\ outcome.promise => Said(calls, {"promise-to-pay"})
        /\ outcome.stop # NoStop => Said(calls, {"distress", "dispute", "opt-out"})
    BY <1>1, <2>1, ConsequencesAreQuoted DEF Said
  <2>3. outcome.stop \in {NoStop} \cup DOMAIN Rules
    BY DecideStop
  <2>4. TypeOK /\ \A kind \in Kinds : pending[c][kind] \in Nat
    BY <1>1 DEF AgentInv, TypeOK
  <2> HIDE DEF outcome
  <2>5. CASE IgnoreReply(c) \/ NoteReply(c, outcome)
    BY <2>4, <2>5 DEF IgnoreReply, NoteReply, books
  <2>6. CASE StopOnReply(c, outcome)
    <3>1. Stop(c, outcome.stop) /\ outcome.stop # NoStop
      BY <2>6 DEF StopOnReply
    <3>2. \A kind \in Kinds : pending'[c][kind] = 0
      BY <2>3, <2>4, <3>1, StopReach
    <3> QED  BY <2>2, <2>4, <3>1, <3>2
  <2>7. CASE HoldOnReply(c, outcome)
    <3>1. barred' = barred /\ \A kind \in Kinds : pending'[c][kind] = 0
      BY <2>7, CancelledHere DEF HoldOnReply
    <3> QED  BY <2>4, <3>1
  <2>8. CASE Realign(c, outcome)
    BY <2>2, <2>8 DEF Realign
  <2> QED
    BY <1>1, <2>5, <2>6, <2>7, <2>8 DEF HandleReply, outcome
<1> DEFINE Counted ==
  \A c \in Cases, calls \in Replies :
    /\ session[c] # None /\ inputs' # inputs
    /\ barred' # barred \/ pending'[c] # pending[c]
    /\ ~ModelAnswer(calls).distressed /\ HandleReply(c, calls)
    => /\ barred' # barred => Said(calls, {"distress", "dispute", "opt-out"})
       /\ \A kind \in Kinds : pending'[c][kind] > pending[c][kind] =>
            Said(calls, {"promise-to-pay"})
<1>2. AgentInv => Counted
  BY <1>1
<1> HIDE DEF Counted
<1>3. AgentInv => [Counted]_vars
  BY <1>2
<1>4. Spec => [][Counted]_vars
  BY <1>3, AgentInvariant, PTL
<1> QED  BY <1>4 DEF Counted, OnlyTheirWordsCount

-----------------------------------------------------------------------------
(* The agent implements the life cycle of a case.                          *)

LEMMA LeaveStep ==
  ASSUME NEW c \in Cases, NEW s \in {"held-for-human", "unrecovered", "closed-revoked",
                                     "closed-false-failure"},
         caseState' = [caseState EXCEPT ![c] = s], UNCHANGED <<approved, paid>>
  PROVE  Lifecycle!Next
BY DEF Lifecycle!Next, Lifecycle!Leave, Lifecycle!Terminal

LEMMA OpenStep ==
  ASSUME TypeOK, NEW c \in Cases, NEW states \in {caseState, Opened(c)},
         \/ caseState' = states
         \/ \E s \in {"held-for-human", "unrecovered"} : caseState' = [states EXCEPT ![c] = s],
         UNCHANGED <<approved, paid>>
  PROVE  [Lifecycle!Next]_(Lifecycle!vars)
<1>1. ASSUME NEW s \in {"held-for-human", "unrecovered"}, caseState' = [states EXCEPT ![c] = s]
      PROVE  Lifecycle!Next
  <2>1. caseState' = [caseState EXCEPT ![c] = s]
    BY <1>1 DEF Opened, TypeOK
  <2> QED  BY <1>1, <2>1, LeaveStep
<1>2. CASE caseState' = states
  BY <1>2 DEF Opened, Lifecycle!Next, Lifecycle!Open, Lifecycle!vars
<1> QED  BY <1>1, <1>2

LEMMA ClearStep ==
  ASSUME NEW c \in Cases, NEW s \in {"open", "held-for-human", "unrecovered"},
         caseState[c] # "absent",
         caseState' = [caseState EXCEPT ![c] = s],
         approved' = approved \cup {c}, UNCHANGED paid
  PROVE  Lifecycle!Next
BY DEF Lifecycle!Next, Lifecycle!Clear, Lifecycle!Terminal

LEMMA FailureStep ==
  ASSUME TypeOK, NEW c \in Cases, NEW check, HandleFailure(c, check)
  PROVE  [Lifecycle!Next]_(Lifecycle!vars)
<1>1. CASE AlreadyProcessed(c)
  BY <1>1 DEF AlreadyProcessed, books, history, Lifecycle!vars
<1>2. CASE OpenUnderAStop(c) \/ HoldUnverified(c, check) \/ CloseFalseFailure(c, check)
  BY <1>2, LeaveStep DEF OpenUnderAStop, HoldUnverified, CloseFalseFailure, history
<1>3. CASE Diagnose(c, check)
  <2> DEFINE rung == EntryRung(ClassOf[c])
  <2>1. UNCHANGED <<approved, paid>> /\ rung \in Rungs \cup {NoRung}
    BY <1>3, EntryRungType DEF Diagnose
  <2> HIDE DEF rung
  <2>2. \/ \E s \in {"held-for-human", "unrecovered"} : caseState' = [caseState EXCEPT ![c] = s]
        \/ caseState' = Opened(c)
        \/ RequestRetry(c, rung, retry_count[c], pending, Opened(c))
    BY <1>3 DEF Diagnose, rung
  <2>3. CASE RequestRetry(c, rung, retry_count[c], pending, Opened(c))
    <3>1. \/ caseState' = Opened(c)
          \/ \E s \in {"held-for-human", "unrecovered"} : caseState' = [Opened(c) EXCEPT ![c] = s]
      BY <2>1, <2>3, RequestEffect
    <3> QED  BY <2>1, <3>1, OpenStep
  <2> QED  BY <2>1, <2>2, <2>3, OpenStep, LeaveStep
<1> QED
  BY <1>1, <1>2, <1>3 DEF HandleFailure

LEMMA ReplyStep ==
  ASSUME TypeOK, NEW c \in Cases, NEW calls \in Replies, HandleReply(c, calls)
  PROVE  [Lifecycle!Next]_(Lifecycle!vars)
<1> DEFINE outcome == Decide(Reading[calls])
<1>1. UNCHANGED <<approved, paid>>
  BY DEF HandleReply, IgnoreReply, StopOnReply, HoldOnReply, Realign, NoteReply
<1>2. CASE IgnoreReply(c) \/ NoteReply(c, outcome)
  BY <1>1, <1>2 DEF IgnoreReply, NoteReply, books, Lifecycle!vars
<1>3. CASE StopOnReply(c, outcome)
  <2>1. outcome.stop \in DOMAIN Rules
    BY <1>3, DecideStop DEF StopOnReply
  <2> HIDE DEF outcome
  <2>2. \/ caseState' = [caseState EXCEPT ![c] = "held-for-human"]
        \/ caseState' = Terminal(c, outcome.stop)
    BY <1>3 DEF StopOnReply
  <2>3. \/ caseState' = caseState
        \/ \E s \in {"closed-revoked", "held-for-human", "unrecovered"} :
             caseState' = [caseState EXCEPT ![c] = s]
    BY <2>1, <2>2, TerminalType
  <2> QED  BY <1>1, <2>3, LeaveStep DEF Lifecycle!vars
<1>4. CASE HoldOnReply(c, outcome)
  BY <1>1, <1>4, LeaveStep DEF HoldOnReply
<1>5. CASE Realign(c, outcome)
  <2>1. \/ caseState' = caseState
        \/ RequestRetry(c, LatestEntry(c), session[c], Cancelled(c), caseState)
    BY <1>5 DEF Realign
  <2>2. CASE RequestRetry(c, LatestEntry(c), session[c], Cancelled(c), caseState)
    <3>1. \/ caseState' = caseState
          \/ \E s \in {"held-for-human", "unrecovered"} : caseState' = [caseState EXCEPT ![c] = s]
      BY <2>2, LatestEntryType, RequestEffect
    <3> QED  BY <1>1, <3>1, OpenStep
  <2> QED  BY <1>1, <2>1, <2>2, OpenStep
<1> QED
  BY <1>2, <1>3, <1>4, <1>5 DEF HandleReply

LEMMA ApproveStep ==
  ASSUME AgentInv, NEW c \in Cases, Approve(c)
  PROVE  Lifecycle!Next
<1> DEFINE reopened == [caseState EXCEPT ![c] = "open"]
<1>1. approved' = approved \cup {c} /\ UNCHANGED paid /\ caseState[c] # "absent"
  BY DEF Approve, AgentInv, CaseInv
<1>2. \/ caseState' = reopened
      \/ RequestRetry(c, LatestEntry(c), retry_count[c], pending, reopened)
  BY DEF Approve
<1>3. CASE caseState' = reopened
  BY <1>1, <1>3, ClearStep
<1>4. CASE RequestRetry(c, LatestEntry(c), retry_count[c], pending, reopened)
  <2> HIDE DEF reopened
  <2>1. \/ caseState' = reopened
        \/ \E s \in {"held-for-human", "unrecovered"} : caseState' = [reopened EXCEPT ![c] = s]
    BY <1>4, LatestEntryType, RequestEffect
  <2>2. ASSUME NEW s \in {"held-for-human", "unrecovered"}, caseState' = [reopened EXCEPT ![c] = s]
        PROVE  caseState' = [caseState EXCEPT ![c] = s]
    BY <2>2 DEF AgentInv, TypeOK, reopened
  <2> QED  BY <1>1, <2>1, <2>2, <1>3, ClearStep
<1> QED  BY <1>2, <1>3, <1>4

LEMMA StopStep ==
  ASSUME TypeOK, NEW c \in Cases, NEW code \in Codes, ApplyStop(c, code)
  PROVE  [Lifecycle!Next]_(Lifecycle!vars)
<1>1. code \in DOMAIN Rules /\ caseState' = Terminal(c, code) /\ UNCHANGED <<approved, paid>>
  BY AgentAssumption DEF AgentAssumption, ApplyStop
<1>2. \/ caseState' = caseState
      \/ \E s \in {"closed-revoked", "held-for-human", "unrecovered"} :
           caseState' = [caseState EXCEPT ![c] = s]
  BY <1>1, TerminalType
<1> QED  BY <1>1, <1>2, LeaveStep DEF Lifecycle!vars

LEMMA PaidStep ==
  ASSUME AgentInv, NEW c \in Cases, MarkRecovered(c)
  PROVE  Lifecycle!Next
<1>1. caseState[c] # "absent"
  BY DEF MarkRecovered, AgentInv, CaseInv, Quiet, Untouched
<1> QED  BY <1>1 DEF MarkRecovered, Lifecycle!Next, Lifecycle!Pay

(* a step of the agent is a step of the life cycle of a case, or none *)
LEMMA LifecycleStep ==
  ASSUME AgentInv, [Next]_vars
  PROVE  [Lifecycle!Next]_(Lifecycle!vars)
<1>1. TypeOK
  BY DEF AgentInv
<1>2. ASSUME NEW c \in Cases, Reject(c) \/ RunRetry(c)
      PROVE  Lifecycle!Next
  BY <1>2, LeaveStep DEF Reject, RunRetry, history
<1>3. ASSUME NEW c, NEW scope, NEW kind,
             \/ Lift(scope) \/ Converse(c) \/ PickUp(c) \/ PutBack
             \/ RunNudge(c) \/ DeferNudge(c) \/ Drop(c, kind)
      PROVE  UNCHANGED <<caseState, approved, paid>>
  BY <1>3 DEF Lift, Converse, PickUp, PutBack, RunNudge, DeferNudge, Drop, books, history
<1>4. CASE UNCHANGED <<caseState, approved, paid>>
  BY <1>4 DEF Lifecycle!vars
<1> QED
  BY <1>1, <1>2, <1>3, <1>4, FailureStep, ReplyStep, ApproveStep, StopStep, PaidStep
     DEF Next, vars

(* review.py, agent.py: every step of the agent, its reviewer and the runner opens a
   case once, takes it out of automation, is a person's clearance or a payment, or
   leaves its state alone: no redelivery, reply, date or stop puts a case that left
   automation back into it. *)
THEOREM AgentFollowsLifecycle == Spec => FollowsLifecycle
<1>1. Init => Lifecycle!Init
  BY DEF Init, Lifecycle!Init
<1>2. AgentInv /\ [Next]_vars => [Lifecycle!Next]_(Lifecycle!vars)
  BY LifecycleStep
<1> QED
  BY <1>1, <1>2, AgentInvariant, PTL DEF Spec, FollowsLifecycle, Lifecycle!Spec
=============================================================================
