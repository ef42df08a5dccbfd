----------------------------- MODULE MeasureProofs -----------------------------
(***************************************************************************)
(* What the replay of the provider's own retries counts, for every shape   *)
(* of the day and every set of bands: the numbers the agent is compared    *)
(* with.  And that what is reported of the agent is what it did: for any   *)
(* number of cases, customers, replies and stops.                          *)
(***************************************************************************)
EXTENDS Reports, CaseAgentProofs, ExecutionBandsProofs

(* An interval of a day keeps the time of day. *)
LEMMA SameTimeOfDay ==
  ASSUME NEW t \in Nat, NEW n \in {1, 2, 3}
  PROVE  t + n * Day \in Nat /\ TimeOfDay(t + n * Day) = TimeOfDay(t)
<1> DEFINE date == DateOf(t)  time == TimeOfDay(t)
<1>1. date \in Nat /\ time \in Nat /\ time < Day /\ t = Day * date + time
  BY Split, ContactAssumption DEF ContactAssumption
<1>2. Day \in Nat /\ date + n \in Nat
  BY <1>1, ContactAssumption DEF ContactAssumption
<1>3. (date + n) * Day = Day * date + n * Day /\ n * Day \in Nat /\ Day * date \in Nat
  BY <1>1, <1>2
<1>4. Combine(date + n, time) = t + n * Day
  BY <1>1, <1>2, <1>3 DEF Combine
<1>5. TimeOfDay(Combine(date + n, time)) = time /\ Combine(date + n, time) \in Nat
  BY <1>1, <1>2, CombineSplits
<1> QED  BY <1>4, <1>5

(* whatever the rail, the attempts of the replay *)
LEMMA ThreeDaily ==
  ASSUME NEW method, NEW t \in Nat
  PROVE  BaselineTimes(method, t) = {t + n * Day : n \in {1, 2, 3}}
<1>1. ModelFor(method).interval = Day /\ ModelFor(method).retries = 3
  BY DEF ModelFor, Model
<1>2. 1 .. 3 = {1, 2, 3}
  OBVIOUS
<1> QED  BY <1>1, <1>2 DEF BaselineTimes

LEMMA BandsSeeTheFailure ==
  ASSUME NEW method, NEW t \in Nat, NEW u \in BaselineTimes(method, t), NEW rail
  PROVE  IsExecutionAllowed(u, rail) <=> IsExecutionAllowed(t, rail)
<1>1. PICK n \in {1, 2, 3} : u = t + n * Day
  BY ThreeDaily
<1>2. TimeOfDay(u) = TimeOfDay(t)
  BY <1>1, SameTimeOfDay
<1> QED  BY <1>2 DEF IsExecutionAllowed, InBand

(* baseline.py:167: the replay lands in a band with every attempt or with none, and
   with every one exactly if the failure itself fell in one: it repeats the time of day
   that failed, where the agent moves on. *)
THEOREM BaselineRepeatsTheBand ==
  ASSUME NEW method, NEW class, NEW t \in Nat
  PROVE  LET run == BaselineRun(method, class, t)
         IN /\ run.inBands \in {{}, run.attempts}
            /\ run.inBands = run.attempts
                 <=> method = "upi" /\ \E band \in Bands : InBand(t, band)
<1> DEFINE times == BaselineTimes(method, t)
           run == BaselineRun(method, class, t)
<1>1. /\ run.attempts = times
      /\ run.inBands = {u \in times : ModelFor(method).banded
                                       /\ ~IsExecutionAllowed(u, Absent)}
  BY DEF BaselineRun
<1>2. times # {}
  BY ThreeDaily
<1>3. ModelFor(method).banded <=> method = "upi"
  BY DEF ModelFor, Model
<1>4. \A u \in times : IsExecutionAllowed(u, Absent) <=> IsExecutionAllowed(t, Absent)
  BY BandsSeeTheFailure
<1>5. ~IsExecutionAllowed(t, Absent) <=> \E band \in Bands : InBand(t, band)
  BY DEF IsExecutionAllowed, SubjectToBands, UnbandedMethods, Absent
<1> HIDE DEF times
<1> QED  BY <1>1, <1>2, <1>3, <1>4, <1>5

(* baseline.py:119 and windows.py disagree about a rail that nobody named: "NPCI's UPI
   rule is not assumed to apply", and the rule applies.  The marks of the comparison
   are those the count counts on every rail that either of the two can name, and on any
   other there may be marks where the count is nothing. *)
THEOREM MarksAreTheCount ==
  ASSUME NEW method, NEW class, NEW t \in Nat
  PROVE  /\ method \in UnbandedMethods \cup {"upi"} =>
              MarkedInBand(method, t) = BaselineRun(method, class, t).inBands
         /\ method \notin UnbandedMethods \cup {"upi"} =>
              /\ BaselineRun(method, class, t).inBands = {}
              /\ (\E band \in Bands : InBand(t, band)) =>
                   MarkedInBand(method, t) = BaselineRun(method, class, t).attempts
<1> DEFINE times == BaselineTimes(method, t)
           run == BaselineRun(method, class, t)
<1>1. /\ run.attempts = times
      /\ run.inBands = {u \in times : ModelFor(method).banded
                                       /\ ~IsExecutionAllowed(u, Absent)}
      /\ MarkedInBand(method, t) = {u \in times : ~IsExecutionAllowed(u, method)}
  BY DEF BaselineRun, MarkedInBand
<1>2. ModelFor(method).banded <=> method = "upi"
  BY DEF ModelFor, Model
<1>3. SubjectToBands(Absent)
  BY DEF SubjectToBands, UnbandedMethods, Absent
<1>4. CASE method = "upi"
  <2>1. SubjectToBands(method)
    BY <1>4 DEF SubjectToBands, UnbandedMethods
  <2>2. \A u \in times : IsExecutionAllowed(u, method) <=> IsExecutionAllowed(u, Absent)
    BY <1>3, <2>1 DEF IsExecutionAllowed
  <2> HIDE DEF times, run
  <2> QED  BY <1>1, <1>2, <1>4, <2>2 DEF run
<1>5. CASE method \in UnbandedMethods
  <2>1. method # "upi" /\ ~SubjectToBands(method)
    BY <1>5 DEF SubjectToBands, UnbandedMethods
  <2>2. \A u \in times : IsExecutionAllowed(u, method)
    BY <2>1 DEF IsExecutionAllowed
  <2> HIDE DEF times, run
  <2> QED  BY <1>1, <1>2, <1>5, <2>1, <2>2 DEF run
<1>6. CASE method \notin UnbandedMethods \cup {"upi"}
  <2>1. SubjectToBands(method)
    BY <1>6 DEF SubjectToBands
  <2>2. \A u \in times : IsExecutionAllowed(u, method) <=> IsExecutionAllowed(t, method)
    BY BandsSeeTheFailure
  <2>3. (\E band \in Bands : InBand(t, band)) => ~IsExecutionAllowed(t, method)
    BY <2>1 DEF IsExecutionAllowed
  <2> HIDE DEF times, run
  <2> QED  BY <1>1, <1>2, <1>6, <2>2, <2>3 DEF run
<1> QED  BY <1>4, <1>5, <1>6
-----------------------------------------------------------------------------
(* The trail.                                                              *)

TrailOK == trail \in [Cases -> [Notes -> Nat]]

(* the reports watch the agent: they take no step it does not take *)
LEMMA ReportsWatch ==
  ASSUME [ReportNext]_reportVars
  PROVE  [Next]_vars
BY DEF ReportNext, reportVars, Failed, Replied, Cleared, Unreported, Next

LEMMA Recorded ==
  ASSUME TrailOK, NEW c \in Cases, NEW notes, Record(c, notes)
  PROVE  /\ TrailOK'
         /\ \A d \in Cases \ {c} : trail'[d] = trail[d]
         /\ \A n \in Notes : trail'[c][n] = IF n \in notes THEN trail[c][n] + 1
                                            ELSE trail[c][n]
BY DEF TrailOK, Record

LEMMA NoteKinds ==
  /\ "retry-at" \in Notes /\ "fallback-retry-at" \in Notes
  /\ "retry-realigned-to" \in Notes /\ "retry-re-armed-after-review" \in Notes
  /\ "entering-at-rung" \in Notes /\ "retries-spent" \in Notes
BY DEF Notes

LEMMA TrailGrows ==
  ASSUME TrailOK, [ReportNext]_reportVars
  PROVE  /\ TrailOK'
         /\ \A c \in Cases, n \in Notes : trail'[c][n] >= trail[c][n]
<1>1. CASE UNCHANGED trail
  BY <1>1 DEF TrailOK
<1>2. ASSUME NEW c \in Cases, NEW notes, Record(c, notes)
      PROVE  /\ TrailOK'
             /\ \A d \in Cases, n \in Notes : trail'[d][n] >= trail[d][n]
  <2>1. \A d \in Cases, n \in Notes : trail[d][n] \in Nat
    BY DEF TrailOK
  <2> QED  BY <1>2, <2>1, Recorded
<1> QED
  BY <1>1, <1>2 DEF ReportNext, reportVars, Failed, Replied, Cleared

(* a failure puts on a case what the records of its entry say *)
LEMMA FailureKeeps ==
  ASSUME TypeOK, NEW c \in Cases, NEW check, HandleFailure(c, check)
  PROVE  /\ UNCHANGED <<messages, retry_count, answerable, session, approved>>
         /\ \A d \in Cases \ {c} : pending'[d] = pending[d]
         /\ diagnosed' \in {diagnosed, diagnosed \cup {c}}
         /\ Fewer(c) \/ Diagnose(c, check)
<1>1. /\ UNCHANGED <<messages, retry_count, answerable, session, approved>>
      /\ diagnosed' \in {diagnosed, diagnosed \cup {c}}
  BY DEF HandleFailure, AlreadyProcessed, OpenUnderAStop, HoldUnverified, CloseFalseFailure,
     Diagnose, books, history
<1>2. \A kind \in Kinds : pending[c][kind] \in Nat
  BY DEF TypeOK
<1>3. CASE UNCHANGED pending
  BY <1>1, <1>2, <1>3 DEF Fewer
<1>4. CASE pending' = Cancelled(c)
  BY <1>1, <1>2, <1>4, CancelledElsewhere, CancelledHere DEF Fewer
<1>5. CASE Diagnose(c, check)
  BY <1>1, <1>5, DiagnoseCounts
<1> QED
  BY <1>3, <1>4, <1>5 DEF HandleFailure, AlreadyProcessed, OpenUnderAStop, HoldUnverified,
     CloseFalseFailure, books

LEMMA FailureIsNoted ==
  ASSUME TypeOK, TypeOK', NEW c \in Cases, NEW check, HandleFailure(c, check)
  PROVE  /\ \A kind \in Kinds : pending'[c][kind] <= pending[c][kind] + 1
         /\ pending'[c]["retry"] > pending[c]["retry"] =>
              \/ "retry-at" \in FailureNotes(c) /\ EntryRung(ClassOf[c]) = SilentRetry
              \/ /\ "fallback-retry-at" \in FailureNotes(c)
                 /\ ClassOf[c] = "recoverable-balance"
         /\ pending'[c]["nudge"] > pending[c]["nudge"] =>
              /\ c \notin diagnosed /\ c \in diagnosed'
              /\ \/ EntryRung(ClassOf[c]) = SilentRetry /\ "retries-spent" \in FailureNotes(c)
                 \/ EntryRung(ClassOf[c]) = Nudge /\ "entering-at-rung" \in FailureNotes(c)
<1>1. "retry" \in Kinds /\ "nudge" \in Kinds /\ "nudge" # "retry"
  BY NudgeKind DEF Kinds
<1>2. /\ pending \in Rows /\ \A kind \in Kinds : pending[c][kind] \in Nat
      /\ \A kind \in Kinds : pending'[c][kind] \in Nat
  BY DEF TypeOK, Rows
<1>3. /\ pending[c]["retry"] \in Nat /\ pending[c]["nudge"] \in Nat
      /\ pending'[c]["retry"] \in Nat /\ pending'[c]["nudge"] \in Nat
  BY <1>1, <1>2
<1>4. CASE Fewer(c)
  <2>1. \A kind \in Kinds : pending'[c][kind] <= pending[c][kind]
    BY <1>4 DEF Fewer
  <2>2. ~(pending'[c]["retry"] > pending[c]["retry"])
    BY <1>1, <1>3, <2>1
  <2>3. ~(pending'[c]["nudge"] > pending[c]["nudge"])
    BY <1>1, <1>3, <2>1
  <2>4. \A kind \in Kinds : pending'[c][kind] <= pending[c][kind] + 1
    BY <1>2, <2>1
  <2> QED  BY <2>2, <2>3, <2>4
<1>5. CASE Diagnose(c, check)
  <2> DEFINE rung == EntryRung(ClassOf[c])
             asked == Arm(pending, c, Slug(rung))
  <2>1. /\ diagnosed' = diagnosed \cup {c} /\ c \notin diagnosed
        /\ \A kind \in Kinds : pending'[c][kind] <= pending[c][kind] + 1
    BY <1>5, DiagnoseCounts DEF Diagnose, Entered
  <2>2. CASE UNCHANGED pending \/ pending' = Cancelled(c)
    <3>1. Fewer(c)
      BY <1>1, <1>2, <1>3, <2>2, CancelledHere DEF Fewer
    <3> QED  BY <1>4, <3>1
  <2>3. CASE /\ c \in Confident /\ rung \notin {NoRung, SilentRetry}
             /\ Approved(rung, AmountOf[c])
             /\ pending' = (IF HasFallback(c) THEN Arm(asked, c, "retry") ELSE asked)
    <3>1. rung \in Rungs /\ Slug(rung) \in Kinds /\ Slug(rung) # "retry"
      BY <2>3, EntryRungType, SlugType
    <3>2. /\ asked \in Rows /\ asked[c]["retry"] = pending[c]["retry"]
          /\ Slug(rung) # "nudge" => asked[c]["nudge"] = pending[c]["nudge"]
      BY <1>1, <1>2, <1>3, <3>1, ArmType
    <3> HIDE DEF asked
    <3>3. Arm(asked, c, "retry")[c]["nudge"] = asked[c]["nudge"]
      BY <1>1, <1>2, <1>3, <3>2, ArmType
    <3>4. pending'[c]["retry"] > pending[c]["retry"] => HasFallback(c)
      BY <1>1, <1>2, <1>3, <2>3, <3>2
    <3>5. pending'[c]["nudge"] > pending[c]["nudge"] => rung = Nudge
      <4>1. Slug(rung) = "nudge" => rung = Nudge
        BY <2>3, <3>1 DEF Slug, Rungs, SilentRetry, Nudge, Reauthorisation, VoiceCall,
           HumanCallback
      <4>2. pending'[c]["nudge"] = asked[c]["nudge"]
        BY <2>3, <3>3
      <4> QED  BY <1>1, <1>2, <1>3, <3>2, <4>1, <4>2
    <3>6. FailureNotes(c) = {"entering-at-rung"}
                            \cup ArmedRetry(c, pending[c], "fallback-retry-at")
      BY <2>1, <2>3 DEF FailureNotes
    <3> QED
      BY <2>1, <3>4, <3>5, <3>6 DEF ArmedRetry, HasFallback
  <2>4. CASE /\ c \in Confident /\ rung = SilentRetry /\ Approved(rung, AmountOf[c])
    <3>1. rung # NoRung
      BY <2>4 DEF SilentRetry, NoRung
    <3>2. FailureNotes(c) = {"entering-at-rung"}
            \cup (ArmedRetry(c, pending[c], "retry-at") \cup ArmedLink(c, pending[c]))
      BY <2>1, <2>4, <3>1 DEF FailureNotes
    <3> QED  BY <1>1, <1>2, <1>3, <2>1, <2>4, <3>2 DEF ArmedRetry, ArmedLink
  <2> QED
    BY <1>5, <2>2, <2>3, <2>4 DEF Diagnose
<1> QED
  BY <1>4, <1>5, FailureKeeps

(* only a promise puts anything on a case that is replied about *)
LEMMA ReplyIsNoted ==
  ASSUME TypeOK, NEW c \in Cases, NEW calls \in Replies, HandleReply(c, calls)
  PROVE  /\ UNCHANGED <<messages, retry_count, answerable, diagnosed, approved>>
         /\ session[c] # None /\ \A d \in Cases : session'[d] \in {session[d], None}
         /\ \A d \in Cases \ {c} : Fewer(d)
         /\ ~TakesPromise(c, calls) => Fewer(c)
         /\ TakesPromise(c, calls) => \A kind \in Kinds : pending'[c][kind] <= 1
<1> DEFINE outcome == Decide(Reading[calls])
<1>1. \A d \in Cases, kind \in Kinds : pending[d][kind] \in Nat
  BY DEF TypeOK
<1>2. /\ UNCHANGED <<messages, retry_count, answerable, diagnosed, approved>>
      /\ session[c] # None /\ \A d \in Cases : session'[d] \in {session[d], None}
  BY DEF HandleReply, IgnoreReply, StopOnReply, HoldOnReply, Realign, NoteReply, books, TypeOK
<1>3. ASSUME NEW scope, pending' = Cancelled(scope)
      PROVE  \A d \in Cases : Fewer(d)
  BY <1>1, <1>3, CancelledType DEF Fewer
<1>4. CASE IgnoreReply(c)
  BY <1>1, <1>2, <1>4 DEF IgnoreReply, books, Fewer, TakesPromise
<1>5. CASE NoteReply(c, outcome)
  BY <1>1, <1>2, <1>5 DEF NoteReply, books, Fewer, TakesPromise
<1>6. CASE StopOnReply(c, outcome) \/ HoldOnReply(c, outcome)
  <2>1. \A d \in Cases : Fewer(d)
    BY <1>3, <1>6 DEF StopOnReply, HoldOnReply, Stop
  <2>2. \A kind \in Kinds : pending'[c][kind] = 0
    <3>1. CASE HoldOnReply(c, outcome)
      BY <3>1, CancelledHere DEF HoldOnReply
    <3>2. CASE StopOnReply(c, outcome)
      BY <3>2, DecideStop, StopReach DEF StopOnReply
    <3> QED  BY <1>6, <3>1, <3>2
  <2> QED  BY <1>2, <2>1, <2>2
<1>7. CASE Realign(c, outcome)
  <2>1. TakesPromise(c, calls)
    BY <1>7 DEF Realign, TakesPromise
  <2>2. CASE RequestRetry(c, LatestEntry(c), session[c], Cancelled(c), caseState)
    <3>1. /\ \A d \in Cases \ {c} : pending'[d] = Cancelled(c)[d]
          /\ \A kind \in Kinds :
               pending'[c][kind] \in {Cancelled(c)[c][kind], Cancelled(c)[c][kind] + 1}
      BY <2>2, LatestEntryType, CancelledType, RequestCounts
    <3>2. \A d \in Cases \ {c} : Fewer(d)
      BY <1>1, <3>1, CancelledElsewhere DEF Fewer
    <3> QED  BY <1>2, <2>1, <3>1, <3>2, CancelledHere
  <2>3. CASE pending' = Cancelled(c)
    BY <1>2, <1>3, <2>1, <2>3, CancelledHere
  <2> QED  BY <1>7, <2>2, <2>3 DEF Realign
<1> QED
  BY <1>4, <1>5, <1>6, <1>7 DEF HandleReply

LEMMA ReviewIsNoted ==
  ASSUME TypeOK, NEW c \in Cases, Approve(c)
  PROVE  /\ UNCHANGED <<messages, retry_count, answerable, diagnosed, session>>
         /\ approved' = approved \cup {c}
         /\ \A d \in Cases \ {c} : pending'[d] = pending[d]
         /\ \A kind \in Kinds : pending'[c][kind] \in {pending[c][kind], pending[c][kind] + 1}
<1>1. /\ UNCHANGED <<messages, retry_count, answerable, diagnosed, session>>
      /\ approved' = approved \cup {c} /\ pending \in Rows
  BY DEF Approve, TypeOK, Rows
<1>2. ASSUME NEW states, RequestRetry(c, LatestEntry(c), retry_count[c], pending, states)
      PROVE  /\ \A d \in Cases \ {c} : pending'[d] = pending[d]
             /\ \A kind \in Kinds : pending'[c][kind] \in {pending[c][kind], pending[c][kind] + 1}
  BY <1>1, <1>2, LatestEntryType, RequestCounts
<1> QED  BY <1>1, <1>2 DEF Approve

(* what a case costs its customer, and may still *)
Debits(c) == retry_count[c] + pending[c]["retry"]
Contacts(c) == messages[c] + pending[c]["nudge"]

(* what is written down of it *)
DebitsNoted(c) == AgentCounts(c).attempts + trail[c]["retry-re-armed-after-review"]
ContactsNoted(c) == AgentCounts(c).contacts + trail[c]["retries-spent"]

(* what happens without a record costs nothing more *)
LEMMA UnreportedIsFree ==
  ASSUME TypeOK, TypeOK', Unreported, NEW d \in Cases
  PROVE  /\ UNCHANGED diagnosed
         /\ Debits(d)' <= Debits(d) /\ Contacts(d)' <= Contacts(d)
<1>1. "retry" \in Kinds /\ "nudge" \in Kinds /\ "nudge" # "retry"
  BY NudgeKind DEF Kinds
<1>2. /\ pending \in Rows /\ pending' \in Rows
      /\ \A c \in Cases, kind \in Kinds : pending[c][kind] \in Nat /\ pending'[c][kind] \in Nat
      /\ \A c \in Cases : /\ messages[c] \in Nat /\ messages'[c] \in Nat
                          /\ retry_count[c] \in Nat /\ retry_count'[c] \in Nat
  BY DEF TypeOK, Rows
<1>3. ASSUME UNCHANGED <<messages, retry_count>>, Fewer(d)
      PROVE  Debits(d)' <= Debits(d) /\ Contacts(d)' <= Contacts(d)
  BY <1>1, <1>2, <1>3 DEF Fewer, Debits, Contacts
<1>4. ASSUME NEW c \in Cases, NEW kind \in Kinds, Take(c, kind)
      PROVE  /\ Fewer(d)
             /\ pending'[d][kind] = IF d = c THEN pending[d][kind] - 1 ELSE pending[d][kind]
  BY <1>2, <1>4 DEF Take, Fewer, Rows
<1>5. ASSUME NEW c \in Cases, NEW code, ApplyStop(c, code) \/ MarkRecovered(c)
      PROVE  /\ UNCHANGED diagnosed
             /\ Debits(d)' <= Debits(d) /\ Contacts(d)' <= Contacts(d)
  <2>1. UNCHANGED <<messages, retry_count, diagnosed>> /\ \E scope : pending' = Cancelled(scope)
    BY <1>5 DEF ApplyStop, MarkRecovered, Stop
  <2>2. Fewer(d)
    BY <1>2, <2>1, CancelledType DEF Fewer
  <2> QED  BY <1>3, <2>1, <2>2
<1>6. ASSUME NEW c, NEW scope,
             \/ Lift(scope) \/ Converse(c) \/ PickUp(c) \/ PutBack \/ Reject(c) \/ DeferNudge(c)
      PROVE  /\ UNCHANGED diagnosed
             /\ Debits(d)' <= Debits(d) /\ Contacts(d)' <= Contacts(d)
  <2>1. UNCHANGED <<messages, retry_count, diagnosed, pending>>
    BY <1>6 DEF Lift, Converse, PickUp, PutBack, Reject, DeferNudge, books, history
  <2> QED  BY <1>2, <1>3, <2>1 DEF Fewer
<1>7. ASSUME NEW c \in Cases, RunNudge(c)
      PROVE  /\ UNCHANGED diagnosed
             /\ Debits(d)' <= Debits(d) /\ Contacts(d)' <= Contacts(d)
  <2>1. /\ UNCHANGED <<diagnosed, retry_count>> /\ Take(c, "nudge")
        /\ messages'[d] = IF d = c THEN messages[d] + 1 ELSE messages[d]
    BY <1>7 DEF RunNudge, TypeOK
  <2>2. /\ pending'[d]["retry"] <= pending[d]["retry"]
        /\ pending'[d]["nudge"] = IF d = c THEN pending[d]["nudge"] - 1 ELSE pending[d]["nudge"]
    BY <1>1, <1>4, <2>1 DEF Fewer
  <2> QED  BY <1>1, <1>2, <2>1, <2>2 DEF Debits, Contacts
<1>8. ASSUME NEW c \in Cases, RunRetry(c)
      PROVE  /\ UNCHANGED diagnosed
             /\ Debits(d)' <= Debits(d) /\ Contacts(d)' <= Contacts(d)
  <2>1. /\ UNCHANGED <<diagnosed, messages>> /\ Take(c, "retry")
        /\ retry_count'[d] = IF d = c THEN retry_count[d] + 1 ELSE retry_count[d]
    BY <1>8 DEF RunRetry, TypeOK, history
  <2>2. /\ pending'[d]["nudge"] <= pending[d]["nudge"]
        /\ pending'[d]["retry"] = IF d = c THEN pending[d]["retry"] - 1 ELSE pending[d]["retry"]
    BY <1>1, <1>4, <2>1 DEF Fewer
  <2> QED  BY <1>1, <1>2, <2>1, <2>2 DEF Debits, Contacts
<1>9. ASSUME NEW c \in Cases, NEW kind \in Kinds, Drop(c, kind)
      PROVE  /\ UNCHANGED diagnosed
             /\ Debits(d)' <= Debits(d) /\ Contacts(d)' <= Contacts(d)
  BY <1>3, <1>4, <1>9 DEF Drop
<1> QED
  BY <1>5, <1>6, <1>7, <1>8, <1>9 DEF Unreported

(* the counts of a report, as numbers *)
LEMMA CountsOfNotes ==
  ASSUME NEW notes \in [Notes -> Nat], NEW class
  PROVE  /\ AgentSide(notes, class).attempts =
              notes["retry-at"] + notes["retry-realigned-to"] + notes["fallback-retry-at"]
         /\ AgentSide(notes, class).contacts =
              IF HasCost(EntryRung(class)) THEN notes["entering-at-rung"] ELSE 0
BY DEF AgentSide, Scheduled

LEMMA UnknownCostsNothing == ~HasCost(EntryRung("unknown"))
BY DEF HasCost, EntryRung

(* nothing is struck out *)
LEMMA MoreNotesMoreCounts ==
  ASSUME NEW old \in [Notes -> Nat], NEW new \in [Notes -> Nat],
         \A n \in Notes : new[n] >= old[n],
         NEW class, NEW newClass,
         HasCost(EntryRung(class)) => HasCost(EntryRung(newClass))
  PROVE  /\ AgentSide(new, newClass).attempts + new["retry-re-armed-after-review"]
              >= AgentSide(old, class).attempts + old["retry-re-armed-after-review"]
         /\ AgentSide(new, newClass).contacts + new["retries-spent"]
              >= AgentSide(old, class).contacts + old["retries-spent"]
<1>1. /\ old["retry-at"] \in Nat /\ new["retry-at"] \in Nat
      /\ old["fallback-retry-at"] \in Nat /\ new["fallback-retry-at"] \in Nat
      /\ old["retry-realigned-to"] \in Nat /\ new["retry-realigned-to"] \in Nat
      /\ old["retry-re-armed-after-review"] \in Nat
      /\ new["retry-re-armed-after-review"] \in Nat
      /\ old["entering-at-rung"] \in Nat /\ new["entering-at-rung"] \in Nat
      /\ old["retries-spent"] \in Nat /\ new["retries-spent"] \in Nat
  BY NoteKinds
<1>2. /\ new["retry-at"] >= old["retry-at"]
      /\ new["fallback-retry-at"] >= old["fallback-retry-at"]
      /\ new["retry-realigned-to"] >= old["retry-realigned-to"]
      /\ new["retry-re-armed-after-review"] >= old["retry-re-armed-after-review"]
      /\ new["entering-at-rung"] >= old["entering-at-rung"]
      /\ new["retries-spent"] >= old["retries-spent"]
  BY NoteKinds
<1>3. AgentSide(new, newClass).attempts + new["retry-re-armed-after-review"]
        >= AgentSide(old, class).attempts + old["retry-re-armed-after-review"]
  <2>1. /\ AgentSide(old, class).attempts =
             old["retry-at"] + old["retry-realigned-to"] + old["fallback-retry-at"]
        /\ AgentSide(new, newClass).attempts =
             new["retry-at"] + new["retry-realigned-to"] + new["fallback-retry-at"]
    BY CountsOfNotes
  <2>2. AgentSide(new, newClass).attempts \in Nat /\ AgentSide(old, class).attempts \in Nat
    BY <1>1, <2>1
  <2>3. AgentSide(new, newClass).attempts >= AgentSide(old, class).attempts
    BY <1>1, <1>2, <2>1
  <2> QED  BY <1>1, <1>2, <2>2, <2>3
<1>4. AgentSide(new, newClass).contacts + new["retries-spent"]
        >= AgentSide(old, class).contacts + old["retries-spent"]
  <2>1. /\ AgentSide(old, class).contacts =
             IF HasCost(EntryRung(class)) THEN old["entering-at-rung"] ELSE 0
        /\ AgentSide(new, newClass).contacts =
             IF HasCost(EntryRung(newClass)) THEN new["entering-at-rung"] ELSE 0
    BY CountsOfNotes
  <2>2. AgentSide(new, newClass).contacts \in Nat /\ AgentSide(old, class).contacts \in Nat
    BY <1>1, <2>1
  <2>3. AgentSide(new, newClass).contacts >= AgentSide(old, class).contacts
    BY <1>1, <1>2, <2>1
  <2> QED  BY <1>1, <1>2, <2>2, <2>3
<1> QED  BY <1>3, <1>4

LEMMA NothingIsStruckOut ==
  ASSUME TrailOK, [ReportNext]_reportVars, diagnosed \subseteq diagnosed', NEW d \in Cases
  PROVE  DebitsNoted(d)' >= DebitsNoted(d) /\ ContactsNoted(d)' >= ContactsNoted(d)
<1>1. /\ trail[d] \in [Notes -> Nat] /\ trail'[d] \in [Notes -> Nat]
      /\ \A n \in Notes : trail'[d][n] >= trail[d][n]
  BY TrailGrows DEF TrailOK
<1>2. PICK class, newClass :
        /\ class = (IF d \in diagnosed THEN ClassOf[d] ELSE "unknown")
        /\ newClass = (IF d \in diagnosed' THEN ClassOf[d] ELSE "unknown")
  OBVIOUS
<1>3. HasCost(EntryRung(class)) => HasCost(EntryRung(newClass))
  BY <1>2, UnknownCostsNothing
<1>4. /\ AgentCounts(d) = AgentSide(trail[d], class)
      /\ AgentCounts(d)' = AgentSide(trail'[d], newClass)
  BY <1>2 DEF AgentCounts
<1> QED  BY <1>1, <1>3, <1>4, MoreNotesMoreCounts DEF DebitsNoted, ContactsNoted

(* a record that the report reads counts for one *)
LEMMA OneMoreDebit ==
  ASSUME NEW old \in [Notes -> Nat], NEW new \in [Notes -> Nat],
         \A n \in Notes : new[n] >= old[n],
         NEW note \in {"retry-at", "fallback-retry-at", "retry-realigned-to",
                       "retry-re-armed-after-review"},
         new[note] = old[note] + 1, NEW class, NEW newClass
  PROVE  AgentSide(new, newClass).attempts + new["retry-re-armed-after-review"]
           >= AgentSide(old, class).attempts + old["retry-re-armed-after-review"] + 1
<1>1. /\ old["retry-at"] \in Nat /\ new["retry-at"] \in Nat
      /\ old["fallback-retry-at"] \in Nat /\ new["fallback-retry-at"] \in Nat
      /\ old["retry-realigned-to"] \in Nat /\ new["retry-realigned-to"] \in Nat
      /\ old["retry-re-armed-after-review"] \in Nat
      /\ new["retry-re-armed-after-review"] \in Nat
  BY NoteKinds
<1>2. /\ new["retry-at"] >= old["retry-at"]
      /\ new["fallback-retry-at"] >= old["fallback-retry-at"]
      /\ new["retry-realigned-to"] >= old["retry-realigned-to"]
      /\ new["retry-re-armed-after-review"] >= old["retry-re-armed-after-review"]
  BY NoteKinds
<1>3. /\ AgentSide(old, class).attempts =
           old["retry-at"] + old["retry-realigned-to"] + old["fallback-retry-at"]
      /\ AgentSide(new, newClass).attempts =
           new["retry-at"] + new["retry-realigned-to"] + new["fallback-retry-at"]
  BY CountsOfNotes
<1> QED  BY <1>1, <1>2, <1>3

LEMMA OneMoreContact ==
  ASSUME NEW old \in [Notes -> Nat], NEW new \in [Notes -> Nat],
         \A n \in Notes : new[n] >= old[n],
         NEW class, NEW newClass,
         HasCost(EntryRung(class)) => HasCost(EntryRung(newClass)),
         \/ new["retries-spent"] = old["retries-spent"] + 1
         \/ /\ new["entering-at-rung"] = old["entering-at-rung"] + 1
            /\ HasCost(EntryRung(newClass))
  PROVE  AgentSide(new, newClass).contacts + new["retries-spent"]
           >= AgentSide(old, class).contacts + old["retries-spent"] + 1
<1>1. /\ old["entering-at-rung"] \in Nat /\ new["entering-at-rung"] \in Nat
      /\ old["retries-spent"] \in Nat /\ new["retries-spent"] \in Nat
      /\ new["entering-at-rung"] >= old["entering-at-rung"]
      /\ new["retries-spent"] >= old["retries-spent"]
  BY NoteKinds
<1>2. /\ AgentSide(old, class).contacts =
           IF HasCost(EntryRung(class)) THEN old["entering-at-rung"] ELSE 0
      /\ AgentSide(new, newClass).contacts =
           IF HasCost(EntryRung(newClass)) THEN new["entering-at-rung"] ELSE 0
  BY CountsOfNotes
<1> QED  BY <1>1, <1>2

LEMMA DebitIsWritten ==
  ASSUME TrailOK, NEW d \in Cases, NEW notes, Record(d, notes),
         NEW note \in {"retry-at", "fallback-retry-at", "retry-realigned-to",
                       "retry-re-armed-after-review"},
         note \in notes
  PROVE  DebitsNoted(d)' >= DebitsNoted(d) + 1
<1>1. trail[d] \in [Notes -> Nat] /\ trail'[d] \in [Notes -> Nat] /\ note \in Notes
  BY Recorded, NoteKinds DEF TrailOK
<1>2. /\ \A n \in Notes : trail'[d][n] >= trail[d][n]
      /\ trail'[d][note] = trail[d][note] + 1
  BY <1>1, Recorded
<1>3. PICK class, newClass : /\ AgentCounts(d) = AgentSide(trail[d], class)
                             /\ AgentCounts(d)' = AgentSide(trail'[d], newClass)
  BY DEF AgentCounts
<1> QED  BY <1>1, <1>2, <1>3, OneMoreDebit DEF DebitsNoted

LEMMA ContactIsWritten ==
  ASSUME TrailOK, NEW d \in Cases, NEW notes, Record(d, notes),
         diagnosed \subseteq diagnosed',
         \/ "retries-spent" \in notes
         \/ /\ "entering-at-rung" \in notes
            /\ d \in diagnosed' /\ HasCost(EntryRung(ClassOf[d]))
  PROVE  ContactsNoted(d)' >= ContactsNoted(d) + 1
<1>1. trail[d] \in [Notes -> Nat] /\ trail'[d] \in [Notes -> Nat]
  BY Recorded DEF TrailOK
<1>2. /\ \A n \in Notes : trail'[d][n] >= trail[d][n]
      /\ "retries-spent" \in notes =>
           trail'[d]["retries-spent"] = trail[d]["retries-spent"] + 1
      /\ "entering-at-rung" \in notes =>
           trail'[d]["entering-at-rung"] = trail[d]["entering-at-rung"] + 1
  BY <1>1, Recorded, NoteKinds
<1>3. PICK class, newClass :
        /\ class = (IF d \in diagnosed THEN ClassOf[d] ELSE "unknown")
        /\ newClass = (IF d \in diagnosed' THEN ClassOf[d] ELSE "unknown")
  OBVIOUS
<1>4. HasCost(EntryRung(class)) => HasCost(EntryRung(newClass))
  BY <1>3, UnknownCostsNothing
<1>5. /\ AgentCounts(d) = AgentSide(trail[d], class)
      /\ AgentCounts(d)' = AgentSide(trail'[d], newClass)
  BY <1>3 DEF AgentCounts
<1>6. \/ trail'[d]["retries-spent"] = trail[d]["retries-spent"] + 1
      \/ /\ trail'[d]["entering-at-rung"] = trail[d]["entering-at-rung"] + 1
         /\ HasCost(EntryRung(newClass))
  BY <1>2, <1>3
<1> QED  BY <1>1, <1>2, <1>4, <1>5, <1>6, OneMoreContact DEF ContactsNoted

LEMMA NoDiagnosisIsTakenBack ==
  ASSUME TypeOK, TypeOK', [ReportNext]_reportVars
  PROVE  diagnosed \subseteq diagnosed'
<1>1. ASSUME NEW c \in Cases, NEW check, Failed(c, check)
      PROVE  diagnosed \subseteq diagnosed'
  BY <1>1, FailureKeeps DEF Failed
<1>2. ASSUME NEW c \in Cases, NEW calls \in Replies, Replied(c, calls)
      PROVE  diagnosed \subseteq diagnosed'
  BY <1>2, ReplyIsNoted DEF Replied
<1>3. ASSUME NEW c \in Cases, Cleared(c)
      PROVE  diagnosed \subseteq diagnosed'
  BY <1>3, ReviewIsNoted DEF Cleared
<1>4. CASE Unreported
  <2>1. CASE Cases = {}
    BY <2>1 DEF TypeOK
  <2>2. CASE Cases # {}
    BY <1>4, <2>2, UnreportedIsFree
  <2> QED  BY <2>1, <2>2
<1>5. CASE UNCHANGED reportVars
  BY <1>5 DEF reportVars, vars
<1> QED
  BY <1>1, <1>2, <1>3, <1>4, <1>5 DEF ReportNext

LEMMA SidesAreNumbers ==
  ASSUME NEW notes \in [Notes -> Nat], NEW class
  PROVE  /\ AgentSide(notes, class).attempts + notes["retry-re-armed-after-review"] \in Nat
         /\ AgentSide(notes, class).contacts + notes["retries-spent"] \in Nat
<1>1. /\ notes["retry-at"] \in Nat /\ notes["fallback-retry-at"] \in Nat
      /\ notes["retry-realigned-to"] \in Nat
      /\ notes["retry-re-armed-after-review"] \in Nat
      /\ notes["entering-at-rung"] \in Nat /\ notes["retries-spent"] \in Nat
  BY NoteKinds
<1> QED  BY <1>1, CountsOfNotes

LEMMA CountsAreNumbers ==
  ASSUME TypeOK, TypeOK', TrailOK, TrailOK', NEW d \in Cases
  PROVE  /\ Debits(d) \in Nat /\ Debits(d)' \in Nat
         /\ DebitsNoted(d) \in Nat /\ DebitsNoted(d)' \in Nat
         /\ Contacts(d) \in Nat /\ Contacts(d)' \in Nat
         /\ ContactsNoted(d) \in Nat /\ ContactsNoted(d)' \in Nat
<1>1. "retry" \in Kinds /\ "nudge" \in Kinds
  BY NudgeKind DEF Kinds
<1>2. /\ retry_count[d] \in Nat /\ messages[d] \in Nat
      /\ retry_count'[d] \in Nat /\ messages'[d] \in Nat
      /\ pending[d]["retry"] \in Nat /\ pending[d]["nudge"] \in Nat
      /\ pending'[d]["retry"] \in Nat /\ pending'[d]["nudge"] \in Nat
  BY <1>1 DEF TypeOK
<1>3. trail[d] \in [Notes -> Nat] /\ trail'[d] \in [Notes -> Nat]
  BY DEF TrailOK
<1>4. PICK class, newClass : /\ AgentCounts(d) = AgentSide(trail[d], class)
                             /\ AgentCounts(d)' = AgentSide(trail'[d], newClass)
  BY DEF AgentCounts
<1> QED
  BY <1>2, <1>3, <1>4, SidesAreNumbers DEF Debits, DebitsNoted, Contacts, ContactsNoted

(* a step that costs a debit more is written down *)
LEMMA DebitsStep ==
  ASSUME TypeOK, TypeOK', TrailOK, [ReportNext]_reportVars, NEW d \in Cases
  PROVE  \/ Debits(d)' <= Debits(d)
         \/ Debits(d)' <= Debits(d) + 1 /\ DebitsNoted(d)' >= DebitsNoted(d) + 1
<1>1. "retry" \in Kinds
  BY DEF Kinds
<1>2. /\ pending[d]["retry"] \in Nat /\ pending'[d]["retry"] \in Nat
      /\ retry_count[d] \in Nat /\ retry_count'[d] \in Nat
  BY <1>1 DEF TypeOK
<1>3. ASSUME retry_count' = retry_count, pending'[d]["retry"] <= pending[d]["retry"]
      PROVE  Debits(d)' <= Debits(d)
  BY <1>2, <1>3 DEF Debits
<1>4. ASSUME retry_count' = retry_count, pending'[d]["retry"] <= pending[d]["retry"] + 1
      PROVE  Debits(d)' <= Debits(d) + 1
  BY <1>2, <1>4 DEF Debits
<1>5. ASSUME NEW c \in Cases, NEW check, Failed(c, check)
      PROVE  \/ Debits(d)' <= Debits(d)
             \/ Debits(d)' <= Debits(d) + 1 /\ DebitsNoted(d)' >= DebitsNoted(d) + 1
  <2>1. HandleFailure(c, check) /\ Record(c, FailureNotes(c)) /\ retry_count' = retry_count
    BY <1>5, FailureKeeps DEF Failed
  <2>2. CASE d # c
    BY <1>2, <1>3, <2>1, <2>2, FailureKeeps
  <2>3. CASE d = c
    <3>1. pending'[d]["retry"] <= pending[d]["retry"] + 1
      BY <1>1, <2>1, <2>3, FailureIsNoted
    <3>2. CASE pending'[d]["retry"] > pending[d]["retry"]
      <4>1. "retry-at" \in FailureNotes(d) \/ "fallback-retry-at" \in FailureNotes(d)
        BY <2>1, <2>3, <3>2, FailureIsNoted
      <4>2. DebitsNoted(d)' >= DebitsNoted(d) + 1
        BY <2>1, <2>3, <4>1, DebitIsWritten
      <4> QED  BY <1>4, <2>1, <3>1, <4>2
    <3>3. CASE ~(pending'[d]["retry"] > pending[d]["retry"])
      BY <1>2, <1>3, <2>1, <3>3
    <3> QED  BY <3>2, <3>3
  <2> QED  BY <2>2, <2>3
<1>6. ASSUME NEW c \in Cases, NEW calls \in Replies, Replied(c, calls)
      PROVE  \/ Debits(d)' <= Debits(d)
             \/ Debits(d)' <= Debits(d) + 1 /\ DebitsNoted(d)' >= DebitsNoted(d) + 1
  <2>1. HandleReply(c, calls) /\ retry_count' = retry_count
    BY <1>6, ReplyIsNoted DEF Replied
  <2>2. CASE Fewer(d)
    BY <1>1, <1>3, <2>1, <2>2 DEF Fewer
  <2>3. CASE d = c /\ TakesPromise(c, calls)
    <3>1. pending'[d]["retry"] <= 1
      BY <1>1, <2>1, <2>3, ReplyIsNoted
    <3>2. Cancelled(d)[d]["retry"] = 0
      BY <1>1, CancelledHere
    <3>3. CASE pending'[d]["retry"] > 0
      <4>1. PICK notes : Record(d, notes) /\ "retry-realigned-to" \in notes
        BY <1>6, <2>3, <3>2, <3>3 DEF Replied, ArmedRetry
      <4>2. DebitsNoted(d)' >= DebitsNoted(d) + 1
        BY <4>1, DebitIsWritten
      <4>3. pending'[d]["retry"] <= pending[d]["retry"] + 1
        BY <1>2, <3>1
      <4> QED  BY <1>4, <2>1, <4>2, <4>3
    <3>4. CASE ~(pending'[d]["retry"] > 0)
      BY <1>2, <1>3, <2>1, <3>4
    <3> QED  BY <3>3, <3>4
  <2> QED  BY <2>1, <2>2, <2>3, ReplyIsNoted
<1>7. ASSUME NEW c \in Cases, Cleared(c)
      PROVE  \/ Debits(d)' <= Debits(d)
             \/ Debits(d)' <= Debits(d) + 1 /\ DebitsNoted(d)' >= DebitsNoted(d) + 1
  <2>1. Approve(c) /\ retry_count' = retry_count
    BY <1>7, ReviewIsNoted DEF Cleared
  <2>2. CASE d # c
    BY <1>2, <1>3, <2>1, <2>2, ReviewIsNoted
  <2>3. CASE d = c
    <3>1. pending'[d]["retry"] \in {pending[d]["retry"], pending[d]["retry"] + 1}
      BY <1>1, <2>1, <2>3, ReviewIsNoted
    <3>2. CASE pending'[d]["retry"] > pending[d]["retry"]
      <4>1. PICK notes : Record(d, notes) /\ "retry-re-armed-after-review" \in notes
        BY <1>7, <2>3, <3>2 DEF Cleared, ArmedRetry
      <4>2. DebitsNoted(d)' >= DebitsNoted(d) + 1
        BY <4>1, DebitIsWritten
      <4>3. pending'[d]["retry"] <= pending[d]["retry"] + 1
        BY <1>2, <3>1
      <4> QED  BY <1>4, <2>1, <4>2, <4>3
    <3>3. CASE ~(pending'[d]["retry"] > pending[d]["retry"])
      BY <1>2, <1>3, <2>1, <3>3
    <3> QED  BY <3>2, <3>3
  <2> QED  BY <2>2, <2>3
<1>8. CASE Unreported
  BY <1>8, UnreportedIsFree
<1>9. CASE UNCHANGED reportVars
  BY <1>2, <1>3, <1>9 DEF reportVars, vars
<1> QED
  BY <1>5, <1>6, <1>7, <1>8, <1>9 DEF ReportNext

(* The counts of the debits, over the agent and over what is reported of it. *)
LEMMA DebitsInduct ==
  ASSUME TypeOK, TypeOK', TrailOK, [ReportNext]_reportVars, DebitsAreOnTheReport
  PROVE  DebitsAreOnTheReport'
<1>1. DebitsAreOnTheReport <=> \A d \in Cases : Debits(d) <= DebitsNoted(d)
  BY DEF DebitsAreOnTheReport, Debits, DebitsNoted
<1>2. DebitsAreOnTheReport' <=> \A d \in Cases : Debits(d)' <= DebitsNoted(d)'
  BY DEF DebitsAreOnTheReport, Debits, DebitsNoted
<1> SUFFICES ASSUME NEW d \in Cases
             PROVE  Debits(d)' <= DebitsNoted(d)'
  BY <1>2
<1>3. Debits(d) \in Nat /\ DebitsNoted(d) \in Nat
  BY TrailGrows, CountsAreNumbers
<1>4. Debits(d)' \in Nat /\ DebitsNoted(d)' \in Nat
  BY TrailGrows, CountsAreNumbers
<1>5. DebitsNoted(d)' >= DebitsNoted(d)
  BY NoDiagnosisIsTakenBack, NothingIsStruckOut
<1> QED
  BY <1>1, <1>3, <1>4, <1>5, DebitsStep

(* a step that costs a contact more is written down, if a message costs anything *)
LEMMA ContactsStep ==
  ASSUME TypeOK, TypeOK', TrailOK, [ReportNext]_reportVars, NEW d \in Cases, Cost[Nudge] > 0
  PROVE  \/ Contacts(d)' <= Contacts(d)
         \/ Contacts(d)' <= Contacts(d) + 1 /\ ContactsNoted(d)' >= ContactsNoted(d) + 1
<1>1. "nudge" \in Kinds /\ "nudge" \in Kinds \ {"retry"}
  BY NudgeKind
<1>2. /\ pending[d]["nudge"] \in Nat /\ pending'[d]["nudge"] \in Nat
      /\ messages[d] \in Nat /\ messages'[d] \in Nat
  BY <1>1 DEF TypeOK
<1>3. ASSUME messages' = messages, pending'[d]["nudge"] <= pending[d]["nudge"]
      PROVE  Contacts(d)' <= Contacts(d)
  BY <1>2, <1>3 DEF Contacts
<1>4. ASSUME messages' = messages, pending'[d]["nudge"] <= pending[d]["nudge"] + 1
      PROVE  Contacts(d)' <= Contacts(d) + 1
  BY <1>2, <1>4 DEF Contacts
<1>5. diagnosed \subseteq diagnosed'
  BY NoDiagnosisIsTakenBack
<1>6. ASSUME NEW c \in Cases, NEW check, Failed(c, check)
      PROVE  \/ Contacts(d)' <= Contacts(d)
             \/ Contacts(d)' <= Contacts(d) + 1 /\ ContactsNoted(d)' >= ContactsNoted(d) + 1
  <2>1. HandleFailure(c, check) /\ Record(c, FailureNotes(c)) /\ messages' = messages
    BY <1>6, FailureKeeps DEF Failed
  <2>2. CASE d # c
    BY <1>2, <1>3, <2>1, <2>2, FailureKeeps
  <2>3. CASE d = c
    <3>1. pending'[d]["nudge"] <= pending[d]["nudge"] + 1
      BY <1>1, <2>1, <2>3, FailureIsNoted
    <3>2. CASE pending'[d]["nudge"] > pending[d]["nudge"]
      <4>1. /\ d \in diagnosed'
            /\ \/ "retries-spent" \in FailureNotes(d)
               \/ "entering-at-rung" \in FailureNotes(d) /\ EntryRung(ClassOf[d]) = Nudge
        BY <2>1, <2>3, <3>2, FailureIsNoted
      <4>2. HasCost(Nudge)
        BY DEF HasCost, Nudge, NoRung
      <4>3. ContactsNoted(d)' >= ContactsNoted(d) + 1
        BY <1>5, <2>1, <2>3, <4>1, <4>2, ContactIsWritten
      <4> QED  BY <1>4, <2>1, <3>1, <4>3
    <3>3. CASE ~(pending'[d]["nudge"] > pending[d]["nudge"])
      BY <1>2, <1>3, <2>1, <3>3
    <3> QED  BY <3>2, <3>3
  <2> QED  BY <2>2, <2>3
<1>7. ASSUME NEW c \in Cases, NEW calls \in Replies, Replied(c, calls)
      PROVE  \/ Contacts(d)' <= Contacts(d)
             \/ Contacts(d)' <= Contacts(d) + 1 /\ ContactsNoted(d)' >= ContactsNoted(d) + 1
  <2>1. HandleReply(c, calls) /\ messages' = messages
    BY <1>7, ReplyIsNoted DEF Replied
  <2>2. CASE Fewer(d)
    BY <1>1, <1>3, <2>1, <2>2 DEF Fewer
  <2>3. CASE d = c /\ TakesPromise(c, calls)
    <3>1. pending'[d]["nudge"] <= 1
      BY <1>1, <2>1, <2>3, ReplyIsNoted
    <3>2. Cancelled(d)[d]["nudge"] = 0
      BY <1>1, CancelledHere
    <3>3. CASE pending'[d]["nudge"] > 0
      <4>1. ArmedLink(d, Cancelled(d)[d]) = {"retries-spent"}
        BY <1>1, <3>2, <3>3 DEF ArmedLink
      <4>2. PICK notes : Record(d, notes) /\ "retries-spent" \in notes
        BY <1>7, <2>3, <4>1 DEF Replied
      <4>3. ContactsNoted(d)' >= ContactsNoted(d) + 1
        BY <1>5, <4>2, ContactIsWritten
      <4>4. pending'[d]["nudge"] <= pending[d]["nudge"] + 1
        BY <1>2, <3>1
      <4> QED  BY <1>4, <2>1, <4>3, <4>4
    <3>4. CASE ~(pending'[d]["nudge"] > 0)
      BY <1>2, <1>3, <2>1, <3>4
    <3> QED  BY <3>3, <3>4
  <2> QED  BY <2>1, <2>2, <2>3, ReplyIsNoted
<1>8. ASSUME NEW c \in Cases, Cleared(c)
      PROVE  \/ Contacts(d)' <= Contacts(d)
             \/ Contacts(d)' <= Contacts(d) + 1 /\ ContactsNoted(d)' >= ContactsNoted(d) + 1
  <2>1. Approve(c) /\ messages' = messages
    BY <1>8, ReviewIsNoted DEF Cleared
  <2>2. CASE d # c
    BY <1>2, <1>3, <2>1, <2>2, ReviewIsNoted
  <2>3. CASE d = c
    <3>1. pending'[d]["nudge"] \in {pending[d]["nudge"], pending[d]["nudge"] + 1}
      BY <1>1, <2>1, <2>3, ReviewIsNoted
    <3>2. CASE pending'[d]["nudge"] > pending[d]["nudge"]
      <4>1. ArmedLink(d, pending[d]) = {"retries-spent"}
        BY <1>1, <3>2 DEF ArmedLink
      <4>2. PICK notes : Record(d, notes) /\ "retries-spent" \in notes
        BY <1>8, <2>3, <4>1 DEF Cleared
      <4>3. ContactsNoted(d)' >= ContactsNoted(d) + 1
        BY <1>5, <4>2, ContactIsWritten
      <4>4. pending'[d]["nudge"] <= pending[d]["nudge"] + 1
        BY <1>2, <3>1
      <4> QED  BY <1>4, <2>1, <4>3, <4>4
    <3>3. CASE ~(pending'[d]["nudge"] > pending[d]["nudge"])
      BY <1>2, <1>3, <2>1, <3>3
    <3> QED  BY <3>2, <3>3
  <2> QED  BY <2>2, <2>3
<1>9. CASE Unreported
  BY <1>9, UnreportedIsFree
<1>10. CASE UNCHANGED reportVars
  BY <1>2, <1>3, <1>10 DEF reportVars, vars
<1> QED
  BY <1>6, <1>7, <1>8, <1>9, <1>10 DEF ReportNext

LEMMA ContactsInduct ==
  ASSUME TypeOK, TypeOK', TrailOK, [ReportNext]_reportVars, Cost[Nudge] > 0,
         ContactsAreOnTheReport
  PROVE  ContactsAreOnTheReport'
<1>1. ContactsAreOnTheReport <=> \A d \in Cases : Contacts(d) <= ContactsNoted(d)
  BY DEF ContactsAreOnTheReport, Contacts, ContactsNoted
<1>2. ContactsAreOnTheReport' <=> \A d \in Cases : Contacts(d)' <= ContactsNoted(d)'
  BY DEF ContactsAreOnTheReport, Contacts, ContactsNoted
<1> SUFFICES ASSUME NEW d \in Cases
             PROVE  Contacts(d)' <= ContactsNoted(d)'
  BY <1>2
<1>3. Contacts(d) \in Nat /\ ContactsNoted(d) \in Nat
  BY TrailGrows, CountsAreNumbers
<1>4. Contacts(d)' \in Nat /\ ContactsNoted(d)' \in Nat
  BY TrailGrows, CountsAreNumbers
<1>5. ContactsNoted(d)' >= ContactsNoted(d)
  BY NoDiagnosisIsTakenBack, NothingIsStruckOut
<1> QED
  BY <1>1, <1>3, <1>4, <1>5, ContactsStep

-----------------------------------------------------------------------------
(* What is reported of the agent, over every run.                          *)

(* what holds of the agent holds of it while it is reported on *)
LEMMA ReportsKeep == ReportSpec => [](AgentInv /\ TrailOK)
<1>1. ReportInit => AgentInv /\ TrailOK
  BY InitInv DEF ReportInit, TrailOK
<1>2. AgentInv /\ TrailOK /\ [ReportNext]_reportVars => (AgentInv /\ TrailOK)'
  <2> SUFFICES ASSUME AgentInv, TrailOK, [ReportNext]_reportVars
               PROVE  AgentInv' /\ TrailOK'
    OBVIOUS
  <2>1. [Next]_vars
    BY ReportsWatch
  <2>2. AgentInv'
    BY <2>1, NextTypes, NextCases, StopsStand DEF AgentInv
  <2> QED  BY <2>2, TrailGrows
<1> QED  BY <1>1, <1>2, PTL DEF ReportSpec

LEMMA NothingCountedAtFirst ==
  ReportInit => DebitsAreOnTheReport /\ ContactsAreOnTheReport
<1> SUFFICES ASSUME ReportInit, NEW c \in Cases
             PROVE  /\ retry_count[c] + pending[c]["retry"]
                         <= AgentCounts(c).attempts + trail[c]["retry-re-armed-after-review"]
                    /\ messages[c] + pending[c]["nudge"]
                         <= AgentCounts(c).contacts + trail[c]["retries-spent"]
  BY DEF DebitsAreOnTheReport, ContactsAreOnTheReport
<1>1. "retry" \in Kinds /\ "nudge" \in Kinds
  BY NudgeKind DEF Kinds
<1>2. /\ retry_count[c] = 0 /\ messages[c] = 0
      /\ pending[c]["retry"] = 0 /\ pending[c]["nudge"] = 0
      /\ trail[c] \in [Notes -> Nat]
  BY <1>1 DEF ReportInit, Init
<1>3. PICK class : AgentCounts(c) = AgentSide(trail[c], class)
  BY DEF AgentCounts
<1>4. /\ AgentCounts(c).attempts + trail[c]["retry-re-armed-after-review"] \in Nat
      /\ AgentCounts(c).contacts + trail[c]["retries-spent"] \in Nat
  BY <1>2, <1>3, SidesAreNumbers
<1> QED  BY <1>2, <1>4

(* compare.py:36: however a debit came about, and however often it was cancelled and
   armed again, the report counts each that ran or may still run, but for those a
   reviewer's decision arms. *)
THEOREM DebitsAlwaysOnTheReport == ReportSpec => []DebitsAreOnTheReport
<1>1. ReportInit => DebitsAreOnTheReport
  BY NothingCountedAtFirst
<1>2. /\ AgentInv /\ TrailOK /\ AgentInv' /\ DebitsAreOnTheReport /\ [ReportNext]_reportVars
      => DebitsAreOnTheReport'
  BY DebitsInduct DEF AgentInv
<1> QED  BY <1>1, <1>2, ReportsKeep, PTL DEF ReportSpec

(* compare.py:121, policy.yaml:95: as long as a message costs something, no customer
   is contacted more often than the report says, but for the link that goes out when
   the retries are spent. *)
THEOREM ContactsAlwaysOnTheReport ==
  ASSUME Cost[Nudge] > 0
  PROVE  ReportSpec => []ContactsAreOnTheReport
<1>1. ReportInit => ContactsAreOnTheReport
  BY NothingCountedAtFirst
<1>2. /\ AgentInv /\ TrailOK /\ AgentInv' /\ ContactsAreOnTheReport
      /\ [ReportNext]_reportVars
      => ContactsAreOnTheReport'
  BY ContactsInduct DEF AgentInv
<1> QED  BY <1>1, <1>2, ReportsKeep, PTL DEF ReportSpec

-----------------------------------------------------------------------------
(* A failure that a retry cannot fix, and money that is out of reach.      *)

(* no diagnosis it can act on, and no person who cleared it *)
OutOfReach(c) ==
  /\ c \notin approved
  /\ c \notin diagnosed \/ EntryRung(ClassOf[c]) \notin {SilentRetry, Nudge}

(* nothing was ever sent about it that could be answered, and no debit is written *)
Spared(c) ==
  OutOfReach(c)
  => /\ messages[c] = 0 /\ pending[c]["nudge"] = 0
     /\ c \notin answerable /\ session[c] = None
     /\ \A note \in {"retry-at", "fallback-retry-at", "retry-realigned-to"} :
          trail[c][note] = 0

(* what happens without a record sends nothing that was not under way, and takes no
   answer to what was not sent *)
LEMMA UnreportedSpares ==
  ASSUME TypeOK, TypeOK', Unreported, NEW d \in Cases
  PROVE  /\ UNCHANGED approved
         /\ pending'[d]["nudge"] <= pending[d]["nudge"]
         /\ d \in answerable' => d \in answerable \/ pending[d]["nudge"] > 0
         /\ session'[d] # session[d] => d \in answerable
         /\ messages'[d] # messages[d] => pending[d]["nudge"] > 0
<1>1. "nudge" \in Kinds
  BY NudgeKind
<1>2. /\ \A kind \in Kinds : pending[d][kind] \in Nat /\ pending'[d][kind] \in Nat
      /\ \A c \in Cases, kind \in Kinds : pending[c][kind] \in Nat
  BY DEF TypeOK
<1>3. ASSUME UNCHANGED <<approved, answerable, session, messages>>, Fewer(d)
      PROVE  /\ UNCHANGED approved
             /\ pending'[d]["nudge"] <= pending[d]["nudge"]
             /\ d \in answerable' => d \in answerable \/ pending[d]["nudge"] > 0
             /\ session'[d] # session[d] => d \in answerable
             /\ messages'[d] # messages[d] => pending[d]["nudge"] > 0
  BY <1>1, <1>3 DEF Fewer
<1>4. ASSUME UNCHANGED pending
      PROVE  Fewer(d)
  BY <1>2, <1>4 DEF Fewer
<1>5. ASSUME NEW c \in Cases, NEW kind \in Kinds, Take(c, kind)
      PROVE  Fewer(d)
  BY <1>2, <1>5 DEF Take, Fewer, TypeOK
<1>6. ASSUME NEW c \in Cases, NEW code, ApplyStop(c, code) \/ MarkRecovered(c)
      PROVE  UNCHANGED <<approved, answerable, session, messages>> /\ Fewer(d)
  <2>1. UNCHANGED <<approved, answerable, session, messages>> /\ \E scope : pending' = Cancelled(scope)
    BY <1>6 DEF ApplyStop, MarkRecovered, Stop
  <2> QED  BY <1>2, <2>1, CancelledType DEF Fewer
<1>7. ASSUME NEW c, NEW scope, Lift(scope) \/ PickUp(c) \/ PutBack \/ Reject(c)
      PROVE  UNCHANGED <<approved, answerable, session, messages>> /\ Fewer(d)
  BY <1>4, <1>7 DEF Lift, PickUp, PutBack, Reject, books, history
<1>8. ASSUME NEW c \in Cases, Converse(c)
      PROVE  /\ UNCHANGED <<approved, answerable, messages>> /\ Fewer(d)
             /\ session'[d] # session[d] => d \in answerable
  BY <1>4, <1>8 DEF Converse, books, history, TypeOK
<1>9. ASSUME NEW c \in Cases, RunNudge(c)
      PROVE  /\ UNCHANGED <<approved, session>> /\ Fewer(d)
             /\ d \in answerable' => d \in answerable \/ pending[d]["nudge"] > 0
             /\ messages'[d] # messages[d] => pending[d]["nudge"] > 0
  BY <1>1, <1>5, <1>9 DEF RunNudge, Take, TypeOK
<1>10. ASSUME NEW c \in Cases, DeferNudge(c) \/ RunRetry(c)
       PROVE  /\ UNCHANGED <<approved, session, messages>> /\ Fewer(d)
              /\ d \in answerable' => d \in answerable
  <2>1. "retry" \in Kinds
    BY DEF Kinds
  <2> QED  BY <1>4, <1>5, <1>10, <2>1 DEF DeferNudge, RunRetry, history
<1>11. ASSUME NEW c \in Cases, NEW kind \in Kinds, Drop(c, kind)
       PROVE  UNCHANGED <<approved, answerable, session, messages>> /\ Fewer(d)
  BY <1>5, <1>11 DEF Drop
<1>12. Fewer(d) => pending'[d]["nudge"] <= pending[d]["nudge"]
  BY <1>1 DEF Fewer
<1> QED
  BY <1>3, <1>6, <1>7, <1>8, <1>9, <1>10, <1>11, <1>12 DEF Unreported

LEMMA FutileEntries ==
  ASSUME NEW class \in Futile
  PROVE  EntryRung(class) \notin {SilentRetry, Nudge} /\ class # "unknown"
BY DEF Futile, EntryRung, SilentRetry, Nudge, Reauthorisation, NoRung

(* a case that is out of reach stays as it is, until it is not *)
LEMMA SparedStep ==
  ASSUME TypeOK, TypeOK', TrailOK, [ReportNext]_reportVars, NEW d \in Cases, Spared(d)
  PROVE  Spared(d)'
<1> DEFINE debits == {"retry-at", "fallback-retry-at", "retry-realigned-to"}
<1>1. "nudge" \in Kinds /\ "retry" \in Kinds
  BY NudgeKind DEF Kinds
<1>2. /\ pending[d]["nudge"] \in Nat /\ pending'[d]["nudge"] \in Nat
      /\ pending[d]["retry"] \in Nat /\ pending'[d]["retry"] \in Nat
  BY <1>1 DEF TypeOK
<1>3. debits \subseteq Notes /\ diagnosed \subseteq diagnosed'
  BY NoteKinds, NoDiagnosisIsTakenBack
<1> SUFFICES ASSUME OutOfReach(d)'
             PROVE  /\ messages'[d] = 0 /\ pending'[d]["nudge"] = 0
                    /\ d \notin answerable' /\ session'[d] = None
                    /\ \A note \in debits : trail'[d][note] = 0
  BY DEF Spared
<1>4. ASSUME d \notin approved
      PROVE  /\ messages[d] = 0 /\ pending[d]["nudge"] = 0
             /\ d \notin answerable /\ session[d] = None
             /\ \A note \in debits : trail[d][note] = 0
  BY <1>3, <1>4 DEF Spared, OutOfReach
<1> HIDE DEF debits
<1>5. ASSUME NEW c \in Cases, NEW check, Failed(c, check)
      PROVE  /\ messages'[d] = 0 /\ pending'[d]["nudge"] = 0
             /\ d \notin answerable' /\ session'[d] = None
             /\ \A note \in debits : trail'[d][note] = 0
  <2>1. HandleFailure(c, check) /\ Record(c, FailureNotes(c))
    BY <1>5 DEF Failed
  <2>2. UNCHANGED <<messages, answerable, session, approved>> /\ d \notin approved
    BY <2>1, FailureKeeps DEF OutOfReach
  <2>3. CASE d # c
    <3>1. pending'[d] = pending[d] /\ trail'[d] = trail[d]
      BY <2>1, <2>3, FailureKeeps, Recorded
    <3> QED  BY <1>4, <2>2, <3>1
  <2>4. CASE d = c
    <3>1. ~(pending'[d]["nudge"] > pending[d]["nudge"])
      BY <2>1, <2>4, FailureIsNoted DEF OutOfReach
    <3>2. ASSUME EntryRung(ClassOf[d]) \notin {SilentRetry, Nudge}
          PROVE  \A note \in debits : note \notin FailureNotes(d)
      <4>1. ClassOf[d] # "recoverable-balance"
        BY <3>2 DEF EntryRung
      <4>2. ~(pending'[d]["retry"] > pending[d]["retry"])
        BY <2>1, <2>4, <3>2, <4>1, FailureIsNoted
      <4> QED  BY <3>2, <4>2 DEF FailureNotes, ArmedRetry, debits
    <3>3. \A note \in debits : note \notin FailureNotes(d)
      <4>1. CASE d \notin diagnosed'
        BY <4>1 DEF FailureNotes
      <4> QED  BY <3>2, <4>1 DEF OutOfReach
    <3>4. \A note \in debits : trail'[d][note] = trail[d][note]
      BY <1>3, <2>1, <2>4, <3>3, Recorded
    <3> QED  BY <1>2, <1>4, <2>2, <3>1, <3>4
  <2> QED  BY <2>3, <2>4
<1>6. ASSUME NEW c \in Cases, NEW calls \in Replies, Replied(c, calls)
      PROVE  /\ messages'[d] = 0 /\ pending'[d]["nudge"] = 0
             /\ d \notin answerable' /\ session'[d] = None
             /\ \A note \in debits : trail'[d][note] = 0
  <2>1. HandleReply(c, calls) /\ \E notes : Record(c, notes)
    BY <1>6 DEF Replied
  <2>2. /\ UNCHANGED <<messages, answerable, approved>> /\ session[c] # None
        /\ session'[d] \in {session[d], None} /\ d \notin approved
    BY <2>1, ReplyIsNoted DEF OutOfReach
  <2>3. d # c
    BY <1>4, <2>2
  <2>4. Fewer(d) /\ trail'[d] = trail[d]
    BY <2>1, <2>3, ReplyIsNoted, Recorded
  <2>5. pending'[d]["nudge"] <= pending[d]["nudge"]
    BY <1>1, <2>4 DEF Fewer
  <2> QED  BY <1>2, <1>4, <2>2, <2>4, <2>5
<1>7. ASSUME NEW c \in Cases, Cleared(c)
      PROVE  /\ messages'[d] = 0 /\ pending'[d]["nudge"] = 0
             /\ d \notin answerable' /\ session'[d] = None
             /\ \A note \in debits : trail'[d][note] = 0
  <2>1. Approve(c) /\ \E notes : Record(c, notes)
    BY <1>7 DEF Cleared
  <2>2. UNCHANGED <<messages, answerable, session>> /\ approved' = approved \cup {c}
    BY <2>1, ReviewIsNoted
  <2>3. d # c /\ d \notin approved
    BY <2>2 DEF OutOfReach
  <2>4. pending'[d] = pending[d] /\ trail'[d] = trail[d]
    BY <2>1, <2>3, ReviewIsNoted, Recorded
  <2> QED  BY <1>4, <2>2, <2>3, <2>4
<1>8. CASE Unreported /\ UNCHANGED trail
  <2>1. /\ UNCHANGED approved
        /\ pending'[d]["nudge"] <= pending[d]["nudge"]
        /\ d \in answerable' => d \in answerable \/ pending[d]["nudge"] > 0
        /\ session'[d] # session[d] => d \in answerable
        /\ messages'[d] # messages[d] => pending[d]["nudge"] > 0
    BY <1>8, UnreportedSpares
  <2>2. d \notin approved
    BY <2>1 DEF OutOfReach
  <2> QED  BY <1>2, <1>4, <1>8, <2>1, <2>2
<1>9. CASE UNCHANGED reportVars
  <2>1. d \notin approved
    BY <1>9 DEF OutOfReach, reportVars, vars
  <2> QED  BY <1>4, <1>9, <2>1 DEF reportVars, vars
<1> QED
  BY <1>5, <1>6, <1>7, <1>8, <1>9 DEF ReportNext

LEMMA AlwaysSpared == ReportSpec => [](\A c \in Cases : Spared(c))
<1> DEFINE AllSpared == \A c \in Cases : Spared(c)
<1>1. ReportInit => AllSpared
  BY NudgeKind, NoteKinds DEF ReportInit, Init, Spared
<1>2. /\ AgentInv /\ TrailOK /\ AgentInv' /\ AllSpared /\ [ReportNext]_reportVars
      => AllSpared'
  BY SparedStep DEF AgentInv
<1> HIDE DEF AllSpared
<1>3. ReportSpec => []AllSpared
  BY <1>1, <1>2, ReportsKeep, PTL DEF ReportSpec
<1> QED  BY <1>3 DEF AllSpared

(* compare.py:237: for a dead mandate and for a customer who withdrew, the report can
   count no debit of the agent until a person clears the case. *)
THEOREM FutileAlwaysNeedsAPerson == ReportSpec => []FutileNeedsAPerson
<1>1. (\A c \in Cases : Spared(c)) => FutileNeedsAPerson
  <2> SUFFICES ASSUME \A c \in Cases : Spared(c), NEW c \in Cases \ approved
               PROVE  AgentCounts(c).futile = 0
    BY DEF FutileNeedsAPerson
  <2>1. PICK class : /\ AgentCounts(c) = AgentSide(trail[c], class)
                     /\ class \in {ClassOf[c], "unknown"}
    BY DEF AgentCounts
  <2>2. CASE class \in Futile
    <3>1. OutOfReach(c)
      BY <2>1, <2>2, FutileEntries DEF OutOfReach
    <3>2. /\ trail[c]["retry-at"] = 0 /\ trail[c]["fallback-retry-at"] = 0
          /\ trail[c]["retry-realigned-to"] = 0
      BY <3>1 DEF Spared
    <3> QED  BY <2>1, <3>2 DEF AgentSide, Scheduled
  <2>3. CASE class \notin Futile
    BY <2>1, <2>3 DEF AgentSide
  <2> QED  BY <2>2, <2>3
<1> QED  BY <1>1, AlwaysSpared, PTL

-----------------------------------------------------------------------------
(* What recoveries are due to.                                             *)

Earned(c) ==
  /\ caseState[c] = "recovered" => c \in paid
  /\ c \in paid => messages[c] > 0

(* what messages a case had, it had *)
LEMMA MessagesStay ==
  ASSUME TypeOK, [Next]_vars, NEW d \in Cases
  PROVE  /\ messages'[d] >= messages[d]
         /\ d \in paid' => d \in paid \/ messages[d] > 0
<1>1. messages \in [Cases -> Nat]
  BY DEF TypeOK
<1>2. ASSUME UNCHANGED <<messages, paid>>
      PROVE  /\ messages'[d] >= messages[d]
             /\ d \in paid' => d \in paid \/ messages[d] > 0
  BY <1>1, <1>2
<1>3. ASSUME NEW c \in Cases, NEW check, HandleFailure(c, check)
      PROVE  UNCHANGED <<messages, paid>>
  BY <1>3 DEF HandleFailure, AlreadyProcessed, OpenUnderAStop, HoldUnverified,
     CloseFalseFailure, Diagnose, history
<1>4. ASSUME NEW c \in Cases, NEW calls \in Replies, HandleReply(c, calls)
      PROVE  UNCHANGED <<messages, paid>>
  BY <1>4 DEF HandleReply
<1>5. ASSUME NEW c, NEW code, NEW scope, NEW kind,
             \/ ApplyStop(c, code) \/ Lift(scope) \/ Converse(c) \/ PickUp(c) \/ PutBack
             \/ Approve(c) \/ Reject(c) \/ DeferNudge(c) \/ RunRetry(c) \/ Drop(c, kind)
      PROVE  UNCHANGED <<messages, paid>>
  BY <1>5 DEF ApplyStop, Lift, Converse, PickUp, PutBack, Approve, Reject, DeferNudge,
     RunRetry, Drop, history
<1>6. ASSUME NEW c \in Cases, RunNudge(c)
      PROVE  /\ messages'[d] >= messages[d]
             /\ d \in paid' => d \in paid \/ messages[d] > 0
  BY <1>1, <1>6 DEF RunNudge
<1>7. ASSUME NEW c \in Cases, MarkRecovered(c)
      PROVE  /\ messages'[d] >= messages[d]
             /\ d \in paid' => d \in paid \/ messages[d] > 0
  BY <1>1, <1>7 DEF MarkRecovered
<1>8. CASE UNCHANGED vars
  BY <1>2, <1>8 DEF vars
<1> QED
  BY <1>2, <1>3, <1>4, <1>5, <1>6, <1>7, <1>8 DEF Next

LEMMA EarnedStep ==
  ASSUME AgentInv, AgentInv', [Next]_vars, NEW d \in Cases, Earned(d)
  PROVE  Earned(d)'
<1>1. [Lifecycle!Next]_(Lifecycle!vars)
  BY LifecycleStep
<1>2. caseState \in [Cases -> CaseStates] /\ paid \subseteq Cases /\ TypeOK
  BY DEF AgentInv, TypeOK
<1>3. messages[d] \in Nat /\ messages'[d] \in Nat
  BY DEF AgentInv, TypeOK
<1>4. /\ paid \subseteq paid'
      /\ caseState'[d] = "recovered" => caseState[d] = "recovered" \/ d \in paid'
  <2>1. ASSUME NEW c \in Cases, NEW s \in Lifecycle!Terminal \cup {"open", "held-for-human"},
               Lifecycle!Open(c) \/ Lifecycle!Leave(c, s) \/ Lifecycle!Clear(c, s)
        PROVE  /\ paid' = paid
               /\ caseState'[d] = "recovered" => caseState[d] = "recovered"
    BY <1>2, <2>1 DEF Lifecycle!Open, Lifecycle!Leave, Lifecycle!Clear, Lifecycle!Terminal
  <2>2. ASSUME NEW c \in Cases, Lifecycle!Pay(c)
        PROVE  /\ paid \subseteq paid'
               /\ caseState'[d] = "recovered" => caseState[d] = "recovered" \/ d \in paid'
    BY <1>2, <2>2 DEF Lifecycle!Pay
  <2>3. CASE UNCHANGED Lifecycle!vars
    BY <2>3 DEF Lifecycle!vars
  <2> QED  BY <1>1, <2>1, <2>2, <2>3 DEF Lifecycle!Next
<1>5. /\ messages'[d] >= messages[d]
      /\ d \in paid' => d \in paid \/ messages[d] > 0
  BY <1>2, MessagesStay
<1>6. messages[d] > 0 => messages'[d] > 0
  BY <1>3, <1>5
<1> QED  BY <1>4, <1>5, <1>6 DEF Earned

LEMMA AlwaysEarned == ReportSpec => [](\A c \in Cases : Earned(c))
<1> DEFINE AllEarned == \A c \in Cases : Earned(c)
<1>1. ReportInit => AllEarned
  BY DEF ReportInit, Init, Earned
<1>2. AgentInv /\ AgentInv' /\ AllEarned /\ [ReportNext]_reportVars => AllEarned'
  BY EarnedStep, ReportsWatch
<1> HIDE DEF AllEarned
<1>3. ReportSpec => []AllEarned
  BY <1>1, <1>2, ReportsKeep, PTL DEF ReportSpec
<1> QED  BY <1>3 DEF AllEarned

(* calibration.py:1: a case counts as recovered only if it was paid, and where the
   diagnosis had no authority to act, only if a person had a hand in it: without one no
   message carried the link it was paid through. *)
THEOREM RecoveriesAlwaysEarned == ReportSpec => []RecoveriesAreEarned
<1>1. AgentInv /\ (\A c \in Cases : Earned(c)) => RecoveriesAreEarned
  <2> SUFFICES ASSUME AgentInv, \A c \in Cases : Earned(c)
               PROVE  RecoveriesAreEarned
    OBVIOUS
  <2>1. diagnosed \subseteq Cases
    BY DEF AgentInv, TypeOK
  <2>2. \A c \in diagnosed \ paid : caseState[c] # "recovered"
    BY <2>1 DEF Earned
  <2>3. ASSUME NEW c \in RecoveredIn("hold-for-human"), c \notin approved
        PROVE  FALSE
    <3>1. /\ c \in Cases /\ caseState[c] = "recovered"
          /\ Authority(DiagnosisOf[c]) = "hold-for-human"
      BY <2>1, <2>3 DEF RecoveredIn, BandRecovered, BandCases
    <3>2. ~(Lookup(SignalOf[c]).confidence >= ActsFrom)
      BY <3>1 DEF Authority, DiagnosisOf
    <3>3. c \notin Confident
      BY <3>2 DEF Confident, Acts
    <3>4. messages[c] > 0
      BY <3>1 DEF Earned
    <3>5. messages[c] = 0
      BY <2>3, <3>1, <3>3, DarkIsQuiet DEF InTheDark
    <3> QED  BY <3>4, <3>5
  <2> QED  BY <2>2, <2>3 DEF RecoveriesAreEarned
<1> QED  BY <1>1, ReportsKeep, AlwaysEarned, PTL

(* outcomes.py:110: what customers paid without a person's help is counted in the
   exposure and not among the money whose consent was withdrawn; what class it has, the
   agent could act on.  The sums of the ceiling are over these cases. *)
THEOREM PaymentsAreWithinReach ==
  ReportSpec => [](\A c \in paid \ approved :
                     /\ c \in diagnosed /\ c \in Confident
                     /\ ReachOf(ClassOf[c]) = "contested")
<1>1. /\ AgentInv /\ (\A c \in Cases : Spared(c)) /\ (\A c \in Cases : Earned(c))
      => \A c \in paid \ approved :
           /\ c \in diagnosed /\ c \in Confident
           /\ ReachOf(ClassOf[c]) = "contested"
  <2> SUFFICES ASSUME AgentInv, \A c \in Cases : Spared(c), \A c \in Cases : Earned(c),
                      NEW c \in paid \ approved
               PROVE  /\ c \in diagnosed /\ c \in Confident
                      /\ ReachOf(ClassOf[c]) = "contested"
    OBVIOUS
  <2>1. c \in Cases /\ messages[c] > 0
    BY DEF Earned, AgentInv, TypeOK
  <2>2. ~OutOfReach(c)
    BY <2>1 DEF Spared
  <2>3. c \in Confident
    BY <2>1, DarkIsQuiet DEF InTheDark
  <2>4. c \in diagnosed /\ EntryRung(ClassOf[c]) \in {SilentRetry, Nudge}
    BY <2>2 DEF OutOfReach
  <2>5. ClassOf[c] \notin {"mandate-state-broken", "customer-intent-revoked", "unknown"}
    BY <2>4 DEF EntryRung, SilentRetry, Nudge, Reauthorisation, NoRung
  <2> QED  BY <2>3, <2>4, <2>5 DEF ReachOf
<1> QED  BY <1>1, ReportsKeep, AlwaysSpared, AlwaysEarned, PTL

-----------------------------------------------------------------------------
(* Sums over finite sets: a fold takes the members in an order of its own, *)
(* which is shown not to matter.                                           *)

AnyOf(set) == CHOOSE c \in set : TRUE

Total(a, S) == MapThenSumSet(LAMBDA c : a[c], S)

(* the members have weights that add up *)
Counts(a, S) == \A c \in S : a[c] \in Nat

(* g adds up a over every part of S *)
Adds(a, g, S) ==
  \A part \in SUBSET S :
    g[part] = IF part = {} THEN 0 ELSE a[AnyOf(part)] + g[part \ {AnyOf(part)}]

(* whichever member is taken first *)
AnyFirst(a, g, part) == \A c \in part : g[part] = a[c] + g[part \ {c}]

(* Of some parts of a finite set there is one that has no other within it. *)
LEMMA SmallestPart ==
  ASSUME NEW S, IsFiniteSet(S), NEW T, T \subseteq SUBSET S, T # {}
  PROVE  \E A \in T : \A B \in T : B \subseteq A => B = A
<1>1. IsWellFoundedOn(StrictSubsetOrdering(S), SUBSET S)
  BY FS_FiniteSubsetsOfFinite, FS_StrictSubsetOrderingWellFounded
<1>2. PICK A \in T : \A B \in T : <<B, A>> \notin StrictSubsetOrdering(S)
  BY <1>1, WFMin
<1>3. \A B \in T : B \subseteq A => B = A
  BY <1>2 DEF StrictSubsetOrdering
<1> QED  BY <1>3

LEMMA SumsAgree ==
  ASSUME NEW S, IsFiniteSet(S), NEW a, NEW g, NEW h, Adds(a, g, S), Adds(a, h, S)
  PROVE  \A part \in SUBSET S : g[part] = h[part]
<1> DEFINE T == {part \in SUBSET S : g[part] # h[part]}
<1> SUFFICES ASSUME T # {} PROVE FALSE
  OBVIOUS
<1>1. PICK A \in T : \A B \in T : B \subseteq A => B = A
  <2>1. T \subseteq SUBSET S
    OBVIOUS
  <2> HIDE DEF T
  <2> QED  BY <2>1, SmallestPart
<1>2. A # {}
  BY <1>1 DEF Adds
<1>3. AnyOf(A) \in A
  BY <1>2 DEF AnyOf
<1> DEFINE B == A \ {AnyOf(A)}
<1>4. B \in SUBSET S /\ B \subseteq A /\ B # A
  BY <1>1, <1>3
<1>5. g[B] = h[B]
  BY <1>1, <1>4
<1>6. g[A] = a[AnyOf(A)] + g[B] /\ h[A] = a[AnyOf(A)] + h[B]
  BY <1>1, <1>2 DEF Adds
<1> QED  BY <1>1, <1>5, <1>6

LEMMA SumExists ==
  ASSUME NEW S, IsFiniteSet(S), NEW a, Counts(a, S)
  PROVE  \E g \in [SUBSET S -> Nat] : Adds(a, g, S)
<1> DEFINE Has(U) == \E g \in [SUBSET U -> Nat] : Adds(a, g, U)
           T == {U \in SUBSET S : ~Has(U)}
<1> SUFFICES ASSUME T # {} PROVE FALSE
  OBVIOUS
<1>1. PICK U \in T : \A V \in T : V \subseteq U => V = U
  <2>1. T \subseteq SUBSET S
    OBVIOUS
  <2> HIDE DEF T
  <2> QED  BY <2>1, SmallestPart
<1> DEFINE sumOf(V) == CHOOSE g \in [SUBSET V -> Nat] : Adds(a, g, V)
           of(V) == sumOf(V)[V]
           x == AnyOf(U)
           g == [V \in SUBSET U |->
                  IF V # U THEN of(V) ELSE IF U = {} THEN 0 ELSE a[x] + of(U \ {x})]
<1>2. ASSUME NEW V \in SUBSET U, V # U
      PROVE  /\ sumOf(V) \in [SUBSET V -> Nat] /\ Adds(a, sumOf(V), V)
             /\ of(V) \in Nat
  <2>1. Has(V)
    BY <1>1, <1>2
  <2>2. sumOf(V) \in [SUBSET V -> Nat] /\ Adds(a, sumOf(V), V)
    BY <2>1
  <2> HIDE DEF sumOf
  <2> QED  BY <2>2
<1>3. U # {} => x \in U /\ a[x] \in Nat /\ U \ {x} \in SUBSET U /\ U \ {x} # U
  BY <1>1 DEF AnyOf, Counts
<1>4. ASSUME NEW V \in SUBSET U
      PROVE  g[V] \in Nat
  <2> HIDE DEF sumOf, x
  <2>1. CASE V # U
    BY <1>2, <2>1
  <2>2. CASE V = U /\ U = {}
    BY <2>2
  <2>3. CASE V = U /\ U # {}
    <3>1. of(U \ {x}) \in Nat /\ a[x] \in Nat
      BY <1>2, <1>3, <2>3
    <3>2. g[V] = a[x] + of(U \ {x})
      BY <2>3
    <3> HIDE DEF of, g
    <3> QED  BY <3>1, <3>2
  <2> QED  BY <2>1, <2>2, <2>3
<1>5. ASSUME NEW V \in SUBSET U
      PROVE  g[V] = IF V = {} THEN 0 ELSE a[AnyOf(V)] + g[V \ {AnyOf(V)}]
  <2> DEFINE y == AnyOf(V)
             W == V \ {y}
  <2>1. V # {} => y \in V /\ W \in SUBSET V /\ W \in SUBSET U /\ W # V /\ W # U
    BY DEF AnyOf
  <2> HIDE DEF sumOf, y, W, x
  <2>2. CASE V = {}
    <3>1. U # {} => sumOf({})[{}] = 0
      <4>1. U # {} => Adds(a, sumOf({}), {})
        BY <1>2
      <4> QED  BY <4>1 DEF Adds
    <3> QED  BY <2>2, <3>1
  <2>3. CASE V # {} /\ V # U
    <3>1. g[V] = sumOf(V)[V] /\ g[W] = sumOf(W)[W]
      BY <2>1, <2>3
    <3>2. Adds(a, sumOf(V), V) /\ Adds(a, sumOf(W), W)
      BY <1>2, <2>1, <2>3
    <3>3. sumOf(V)[V] = a[y] + sumOf(V)[W]
      BY <2>3, <3>2 DEF Adds, y, W
    <3>4. Adds(a, sumOf(V), W)
      BY <2>1, <2>3, <3>2 DEF Adds
    <3>5. IsFiniteSet(W)
      BY <1>1, <2>1, <2>3, FS_Subset
    <3>6. sumOf(V)[W] = sumOf(W)[W]
      BY <3>2, <3>4, <3>5, SumsAgree
    <3> HIDE DEF g
    <3> QED  BY <2>3, <3>1, <3>3, <3>6 DEF y, W
  <2>4. CASE V # {} /\ V = U
    <3>1. x = y /\ U \ {x} = W
      BY <2>4 DEF x, y, W
    <3>2. g[V] = a[x] + of(W) /\ g[W] = of(W)
      BY <2>1, <2>4, <3>1
    <3> HIDE DEF g, of
    <3> QED  BY <2>4, <3>1, <3>2 DEF y, W
  <2> QED  BY <2>2, <2>3, <2>4
<1>6. g \in [SUBSET U -> Nat] /\ Adds(a, g, U)
  <2>1. g \in [SUBSET U -> Nat]
    BY <1>4
  <2>2. Adds(a, g, U)
    <3> HIDE DEF g
    <3> QED  BY <1>5 DEF Adds
  <2> QED  BY <2>1, <2>2
<1>7. Has(U)
  <2> HIDE DEF g
  <2> QED  BY <1>6
<1> QED  BY <1>1, <1>7

(* the fold is such a sum, also of a part *)
LEMMA TotalIsSum ==
  ASSUME NEW S, IsFiniteSet(S), NEW a, Counts(a, S),
         NEW g, Adds(a, g, S)
  PROVE  Total(a, S) = g[S]
<1> DEFINE Step(f) == [part \in SUBSET S |->
              IF part = {} THEN 0 ELSE a[AnyOf(part)] + f[part \ {AnyOf(part)}]]
           total == CHOOSE f : f = Step(f)
<1>1. Total(a, S) = total[S]
  BY DEF Total, MapThenSumSet, MapThenFoldSet, AnyOf
<1>2. PICK h \in [SUBSET S -> Nat] : Adds(a, h, S)
  BY SumExists
<1>3. h = Step(h)
  BY <1>2 DEF Adds
<1>4. total = Step(total)
  <2> HIDE DEF Step
  <2> QED  BY <1>3
<1>5. Adds(a, total, S)
  <2>1. \A f : f = Step(f) => Adds(a, f, S)
    BY DEF Adds
  <2> HIDE DEF Step, total
  <2> QED  BY <1>4, <2>1
<1> HIDE DEF total
<1> QED  BY <1>1, <1>5, SumsAgree

(* Whichever member is taken first, the rest adds up to the same. *)
LEMMA AnyOrder ==
  ASSUME NEW S, IsFiniteSet(S), NEW a, Counts(a, S),
         NEW g \in [SUBSET S -> Nat], Adds(a, g, S)
  PROVE  \A part \in SUBSET S : AnyFirst(a, g, part)
<1> DEFINE T == {U \in SUBSET S : ~AnyFirst(a, g, U)}
<1> SUFFICES ASSUME T # {} PROVE FALSE
  OBVIOUS
<1>1. PICK A \in T : \A B \in T : B \subseteq A => B = A
  <2>1. T \subseteq SUBSET S
    OBVIOUS
  <2> HIDE DEF T
  <2> QED  BY <2>1, SmallestPart
<1>2. PICK e \in A : g[A] # a[e] + g[A \ {e}]
  BY <1>1 DEF AnyFirst
<1> DEFINE d == AnyOf(A)
           B == A \ {d}
           C == A \ {e}
<1>3. d \in A /\ g[A] = a[d] + g[B]
  BY <1>1, <1>2 DEF AnyOf, Adds
<1> HIDE DEF d
<1>4. d # e /\ e \in B /\ d \in C /\ B \in SUBSET S /\ C \in SUBSET S /\ B # A /\ C # A
  BY <1>1, <1>2, <1>3
<1>5. B \notin T /\ C \notin T
  BY <1>1, <1>4
<1>6. g[B] = a[e] + g[B \ {e}] /\ g[C] = a[d] + g[C \ {d}]
  BY <1>4, <1>5 DEF AnyFirst
<1>7. B \ {e} = C \ {d} /\ B \ {e} \in SUBSET S
  BY <1>4
<1>8. a[e] \in Nat /\ a[d] \in Nat /\ g[B \ {e}] \in Nat
  BY <1>1, <1>3, <1>7 DEF Counts
<1>9. a[d] + (a[e] + g[B \ {e}]) = a[e] + (a[d] + g[B \ {e}])
  BY <1>8
<1>10. g[A] = a[e] + g[C]
  BY <1>3, <1>6, <1>7, <1>9
<1> QED  BY <1>2, <1>10

(* Of less there is less. *)
LEMMA TotalGrows ==
  ASSUME NEW S, IsFiniteSet(S), NEW a, Counts(a, S), NEW part \in SUBSET S
  PROVE  Total(a, part) \in Nat /\ Total(a, S) \in Nat /\ Total(a, part) <= Total(a, S)
<1>1. PICK g \in [SUBSET S -> Nat] : Adds(a, g, S)
  BY SumExists
<1>2. IsFiniteSet(part) /\ Adds(a, g, part) /\ Counts(a, part)
  BY <1>1, FS_Subset DEF Adds, Counts
<1>3. Total(a, S) = g[S] /\ Total(a, part) = g[part]
  BY <1>1, <1>2, TotalIsSum
<1>0. \A U \in SUBSET S : AnyFirst(a, g, U)
  <2>1. g \in [SUBSET S -> Nat] /\ Adds(a, g, S)
    BY <1>1
  <2> QED  BY <2>1, AnyOrder
<1> DEFINE T == {whole \in SUBSET S : part \subseteq whole /\ ~(g[part] <= g[whole])}
<1>4. T = {}
  <2> SUFFICES ASSUME T # {} PROVE FALSE
    OBVIOUS
  <2>1. PICK A \in T : \A B \in T : B \subseteq A => B = A
    <3>1. T \subseteq SUBSET S
      OBVIOUS
    <3> HIDE DEF T
    <3> QED  BY <3>1, SmallestPart
  <2>2. PICK c \in A : c \notin part
    <3>1. A # part
      BY <1>1, <2>1
    <3> QED  BY <2>1, <3>1
  <2>3. A \ {c} \in SUBSET S /\ A \ {c} # A /\ part \subseteq A \ {c} /\ A \ {c} \subseteq A
    BY <2>1, <2>2
  <2>4. g[part] <= g[A \ {c}]
    BY <2>1, <2>3
  <2>5. g[A] = a[c] + g[A \ {c}] /\ a[c] \in Nat /\ A \in SUBSET S
    <3>1. A \in SUBSET S /\ a[c] \in Nat
      BY <2>1, <2>2 DEF Counts
    <3> HIDE DEF T
    <3> QED  BY <1>0, <2>2, <3>1 DEF AnyFirst
  <2>6. g[part] \in Nat /\ g[A \ {c}] \in Nat
    BY <1>1, <2>3
  <2>7. g[part] <= g[A]
    BY <2>4, <2>5, <2>6
  <2> QED  BY <2>1, <2>7
<1>5. g[part] <= g[S]
  BY <1>4
<1> QED  BY <1>1, <1>3, <1>5

LEMMA NothingIsNothing == \A a : Total(a, {}) = 0
<1> SUFFICES ASSUME NEW a  PROVE Total(a, {}) = 0
  OBVIOUS
<1>1. IsFiniteSet({}) /\ Counts(a, {})
  BY FS_EmptySet DEF Counts
<1>2. PICK g \in [SUBSET {} -> Nat] : Adds(a, g, {})
  BY <1>1, SumExists
<1>3. Total(a, {}) = g[{}] /\ g[{}] = 0
  BY <1>1, <1>2, TotalIsSum DEF Adds
<1> QED  BY <1>3

-----------------------------------------------------------------------------
(* The ceiling. *)

(* cases are diagnosed one at a time *)
LEMMA FewDiagnosed == ReportSpec => []IsFiniteSet(diagnosed)
<1> DEFINE Few == IsFiniteSet(diagnosed)
<1>1. ReportInit => Few
  BY FS_EmptySet DEF ReportInit, Init
<1>2. TypeOK /\ TypeOK' /\ Few /\ [ReportNext]_reportVars => Few'
  <2> SUFFICES ASSUME TypeOK, TypeOK', IsFiniteSet(diagnosed), [ReportNext]_reportVars
               PROVE  IsFiniteSet(diagnosed')
    OBVIOUS
  <2>1. ASSUME NEW c \in Cases, NEW check, Failed(c, check)
        PROVE  IsFiniteSet(diagnosed')
    <3>1. diagnosed' = diagnosed \/ diagnosed' = diagnosed \cup {c}
      BY <2>1, FailureKeeps DEF Failed
    <3>2. IsFiniteSet(diagnosed \cup {c})
      BY FS_AddElement
    <3> QED  BY <3>1, <3>2
  <2>2. ASSUME NEW c \in Cases,
               (\E calls \in Replies : Replied(c, calls)) \/ Cleared(c)
        PROVE  diagnosed' = diagnosed
    BY <2>2, ReplyIsNoted, ReviewIsNoted DEF Replied, Cleared
  <2>3. CASE Unreported
    <3>1. CASE Cases = {}
      <4>1. diagnosed' = diagnosed
        BY <3>1 DEF TypeOK
      <4> QED  BY <4>1
    <3>2. CASE Cases # {}
      BY <2>3, <3>2, UnreportedIsFree
    <3> QED  BY <3>1, <3>2
  <2>4. CASE UNCHANGED reportVars
    BY <2>4 DEF reportVars, vars
  <2> QED  BY <2>1, <2>2, <2>3, <2>4 DEF ReportNext
<1> HIDE DEF Few
<1>3. ReportSpec => []Few
  BY <1>1, <1>2, ReportsKeep, PTL DEF ReportSpec, AgentInv
<1> QED  BY <1>3 DEF Few

Reached(cases, class, reach) == {c \in cases : ReachOf(class[c]) = reach}

LEMMA MoneyAddsUp ==
  ASSUME NEW cases, NEW amount, NEW class, NEW reach \in Reaches
  PROVE  Exposure(cases, amount, class)[reach].money
           = Total(amount, Reached(cases, class, reach))
  BY DEF Exposure, Total, Reached

(* outcomes.py:110: "the most either policy could recover".  What customers pay with no
   person's help, added up, is no more than the ceiling, added up over every diagnosed
   case that can be reached; none of it is money whose consent was withdrawn. *)
THEOREM CeilingAlwaysHolds == ReportSpec => []CeilingHolds
<1> DEFINE WithinReach ==
      \A c \in paid \ approved : /\ c \in diagnosed /\ c \in Confident
                                 /\ ReachOf(ClassOf[c]) = "contested"
<1>1. ASSUME TypeOK, IsFiniteSet(diagnosed), WithinReach
      PROVE  CeilingHolds
  <2> DEFINE taken == Exposure(paid \ approved, AmountOf, ClassOf)
  <2>1. /\ {"contested", "unclassified", "unreachable", "must-not-take"} \subseteq Reaches
        /\ "contested" \notin {"unclassified", "unreachable", "must-not-take"}
    BY DEF Reaches
  <2>2. /\ Reached(paid \ approved, ClassOf, "contested") \subseteq Reached(diagnosed, ClassOf, "contested")
        /\ \A reach \in {"unclassified", "unreachable", "must-not-take"} :
             Reached(paid \ approved, ClassOf, reach) = {}
    BY <1>1, <2>1 DEF Reached
  <2>3. \A reach \in Reaches : IsFiniteSet(Reached(diagnosed, ClassOf, reach))
                               /\ Counts(AmountOf, Reached(diagnosed, ClassOf, reach))
    <3> SUFFICES ASSUME NEW reach \in Reaches
                 PROVE  IsFiniteSet(Reached(diagnosed, ClassOf, reach))
                        /\ Counts(AmountOf, Reached(diagnosed, ClassOf, reach))
      OBVIOUS
    <3>1. Reached(diagnosed, ClassOf, reach) \subseteq diagnosed /\ diagnosed \subseteq Cases
      BY <1>1 DEF TypeOK, Reached
    <3>2. \A c \in Cases : AmountOf[c] \in Nat
      BY AgentAssumption DEF AgentAssumption
    <3> QED  BY <1>1, <3>1, <3>2, FS_Subset DEF Counts
  <2>4. \A reach \in Reaches : Money[reach].money = Total(AmountOf, Reached(diagnosed, ClassOf, reach))
    BY MoneyAddsUp DEF Money
  <2>5. \A reach \in Reaches :
          taken[reach].money = Total(AmountOf, Reached(paid \ approved, ClassOf, reach))
    BY MoneyAddsUp
  <2> HIDE DEF taken
  <2>6. /\ taken["contested"].money \in Nat /\ Money["contested"].money \in Nat
        /\ taken["contested"].money <= Money["contested"].money
    BY <2>1, <2>2, <2>3, <2>4, <2>5, TotalGrows
  <2>7. \A reach \in Reaches : Money[reach].money \in Nat
    <3> SUFFICES ASSUME NEW reach \in Reaches
                 PROVE  Money[reach].money \in Nat
      OBVIOUS
    <3>1. Total(AmountOf, Reached(diagnosed, ClassOf, reach)) \in Nat
      BY <2>3, TotalGrows
    <3> QED  BY <2>4, <3>1
  <2>8. \A reach \in {"unclassified", "unreachable", "must-not-take"} :
          taken[reach].money = 0
    BY <2>1, <2>2, <2>5, NothingIsNothing
  <2>9. /\ Money["unclassified"].money \in Nat /\ Money["unreachable"].money \in Nat
        /\ taken["unclassified"].money = 0 /\ taken["unreachable"].money = 0
        /\ taken["must-not-take"].money = 0
    BY <2>1, <2>7, <2>8
  <2>10. BaselineCeiling(taken) + taken["unreachable"].money + taken["must-not-take"].money
           <= AgentCeiling(Money)
    <3> DEFINE most == Money["contested"].money  some == taken["contested"].money
    <3> HIDE DEF most, some
    <3>1. /\ some \in Nat /\ most \in Nat /\ some <= most
          /\ BaselineCeiling(taken) = some + 0
          /\ AgentCeiling(Money)
               = (most + Money["unclassified"].money) + Money["unreachable"].money
      BY <2>6, <2>9 DEF most, some, BaselineCeiling, AgentCeiling
    <3> QED  BY <2>9, <3>1
  <2> QED  BY <2>10 DEF CeilingHolds, taken
<1> HIDE DEF WithinReach
<1>2. ReportSpec => []WithinReach
  BY PaymentsAreWithinReach DEF WithinReach
<1> QED  BY <1>1, <1>2, FewDiagnosed, ReportsKeep, PTL DEF AgentInv
===============================================================================
