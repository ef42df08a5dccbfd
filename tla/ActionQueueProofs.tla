-------------------------- MODULE ActionQueueProofs --------------------------
(***************************************************************************)
(* What the action queue keeps true for every number of rows, passes,      *)
(* cases and customers, every batch size, lease and shape of the day.      *)
(*                                                                         *)
(* QueueInv is inductive: one lemma per conjunct shows that a step         *)
(* preserves it, and the theorems follow from it.                          *)
(***************************************************************************)
EXTENDS ActionQueue, ExecutionBandsProofs, FiniteSetTheorems

USE QueueAssumption DEF QueueAssumption

(* execute_nudge defers to a time of the clock, or not at all. *)
LEMMA DeferralType ==
  ASSUME TypeOK, NEW w \in Workers, cur[w] \in Actions
  PROVE  /\ NudgeDeferral(w) \in Outcomes
         /\ NudgeDeferral(w) = NoOutcome \/ NudgeDeferral(w).state = "pending"
<1> DEFINE t == passNow[w]
           c == CaseOf[cur[w]]
           recent == ContactsSince(CustomerOf[c], t - ContactWindow)
<1>1. t \in Nat /\ c \in Cases /\ nudges_suspended_until[c] \in Nat
  BY DEF TypeOK
<1>2. \A r \in recent : r.at \in Nat
  BY DEF ContactsSince, TypeOK, Executions
<1>3. ~BudgetAllowed(recent, t) => BudgetFreeAt(recent, t) \in Nat
  <2> HIDE DEF recent, t, c
  <2> QED
    BY <1>1, <1>2, BudgetFreesLater
<1>4. NextAllowedContact(t) \in Nat
  BY <1>1, NextAllowedContactSound
<1>5. Combine(nudges_suspended_until[c], ContactOpen) \in Nat
  BY <1>1, CombineSplits, ContactAssumption DEF ContactAssumption
<1> QED
  BY <1>3, <1>4, <1>5 DEF NudgeDeferral, Deferred, NoOutcome, Outcomes

(* Past its re-read, a pass has a row in hand. *)
LEMMA RowInHand ==
  ASSUME TypeOK, PassesConsistent, NEW w \in Workers,
         pc[w] \notin {"idle", "claim", "next"}
  PROVE  cur[w] \in Actions
<1>1. cur[w] # None /\ cur[w] \in Actions \cup {None}
  BY DEF PassesConsistent, TypeOK
<1> QED
  BY <1>1

(* The columns and local variables keep their types. *)
LEMMA TypeStep ==
  ASSUME TypeOK, PassesConsistent, [Next]_vars
  PROVE  TypeOK'
<1>1. ASSUME NEW a \in Actions, NEW d \in Delays, Schedule(a, now + d)
      PROVE  TypeOK'
  <2>1. DueTime(a, now + d) \in Nat
    BY RetryTimeSound DEF DueTime, TypeOK
  <2> QED
    BY <1>1, <2>1 DEF Schedule, TypeOK, table, local, caseVars, States
<1>2. ASSUME NEW s \in Cancellable, Cancel(s)
      PROVE  TypeOK'
  BY <1>2 DEF Cancel, CancelRows, TypeOK, table, local, caseVars, States
<1>3. ASSUME NEW s \in Scopes, Suppress(s)
      PROVE  TypeOK'
  BY <1>3 DEF Suppress, TypeOK, table, local, caseVars
<1>4. ASSUME NEW s \in Scopes, Lift(s)
      PROVE  TypeOK'
  BY <1>4 DEF Lift, TypeOK, table, local, caseVars
<1>5. ASSUME NEW c \in Cases, NEW d \in Promises, Promise(c, d)
      PROVE  TypeOK'
  BY <1>5 DEF Promise, TypeOK, table, local, caseVars
<1>6. ASSUME NEW c \in Payable, RecoverCancel(c)
      PROVE  TypeOK'
  BY <1>6 DEF RecoverCancel, CancelRows, TypeOK, table, local, caseVars, States
<1>7. ASSUME NEW c \in Payable, RecoverClose(c)
      PROVE  TypeOK'
  BY <1>7 DEF RecoverClose, TypeOK, table, local, caseVars, CaseStates
<1>7a. ASSUME NEW c \in Cases, NEW st \in Diversions, Divert(c, st)
      PROVE  TypeOK'
  BY <1>7a DEF Divert, TypeOK, table, local, caseVars, CaseStates
<1>7b. ASSUME NEW c \in Cases, Approve(c)
      PROVE  TypeOK'
  BY <1>7b DEF Approve, RecordsOf, TypeOK, table, local, caseVars, CaseStates
<1>7c. ASSUME NEW c \in Cases, Reject(c)
      PROVE  TypeOK'
  BY <1>7c DEF Reject, Divert, TypeOK, table, local, caseVars, CaseStates
<1>8. ASSUME Tick
      PROVE  TypeOK'
  BY <1>8 DEF Tick, TypeOK, table, local, caseVars
<1>9. ASSUME NEW w \in Workers, Reclaim(w)
      PROVE  TypeOK'
  <2>1. state' \in [Actions -> States]
    BY <1>9 DEF Reclaim, TypeOK, States
  <2>2. leased_until' \in [Actions -> Nat \cup {None}]
    BY <1>9 DEF Reclaim, TypeOK
  <2>3. worker' \in [Actions -> Workers \cup {None}]
    BY <1>9 DEF Reclaim, TypeOK
  <2>4. pc' \in [Workers -> Points]
    BY <1>9 DEF Reclaim, TypeOK, Points
  <2>5. passNow' \in [Workers -> Nat]
    BY <1>9 DEF Reclaim, TypeOK
  <2> QED
    BY <1>9, <2>1, <2>2, <2>3, <2>4, <2>5 DEF Reclaim, TypeOK, table, caseVars, local
<1>10. ASSUME NEW w \in Workers, NEW rows \in SUBSET Due(passNow[w]), Claim(w, rows)
      PROVE  TypeOK'
  <2>1. state' \in [Actions -> States]
    BY <1>10 DEF Claim, TypeOK, States
  <2>2. leased_until' \in [Actions -> Nat \cup {None}]
    BY <1>10 DEF Claim, TypeOK, Expiry
  <2>3. worker' \in [Actions -> Workers \cup {None}]
    BY <1>10 DEF Claim, TypeOK
  <2>4. attempts' \in [Actions -> Nat]
    BY <1>10 DEF Claim, TypeOK
  <2>5. rows \subseteq Actions
    BY <1>10 DEF Claim, TypeOK, IsBatch, Due
  <2>6. todo' \in [Workers -> SUBSET Actions]
    BY <1>10, <2>5 DEF Claim, TypeOK
  <2>7. claimNo' \in [Workers -> [Actions -> Nat]]
    BY <1>10 DEF Claim, TypeOK
  <2>8. pc' \in [Workers -> Points]
    BY <1>10 DEF Claim, TypeOK, Points
  <2> QED
    BY <1>10, <2>1, <2>2, <2>3, <2>4, <2>5, <2>6, <2>7, <2>8 DEF Claim, TypeOK, table, caseVars, local
<1>11. ASSUME NEW w \in Workers, NEW a \in todo[w], Recheck(w, a)
      PROVE  TypeOK'
  <2>1. a \in Actions
    BY <1>11 DEF Recheck, TypeOK
  <2>2. todo' \in [Workers -> SUBSET Actions]
    BY <1>11 DEF Recheck, TypeOK
  <2>3. cur' = cur \/ cur' = [cur EXCEPT ![w] = a]
    BY <1>11 DEF Recheck, TypeOK
  <2>4. pc' = pc \/ pc' = [pc EXCEPT ![w] = "gate"]
    BY <1>11 DEF Recheck, TypeOK
  <2>5. pc' \in [Workers -> Points]
    BY <1>11, <2>4 DEF Recheck, TypeOK, Points
  <2>6. cur' \in [Workers -> Actions \cup {None}]
    BY <1>11, <2>1, <2>3 DEF Recheck, TypeOK
  <2> QED
    BY <1>11, <2>1, <2>2, <2>3, <2>4, <2>5, <2>6 DEF Recheck, TypeOK, table, caseVars, local
<1>12. ASSUME NEW w \in Workers, Gate(w)
      PROVE  TypeOK'
  <2>1. Closed("cancelled", FALSE) \in Outcomes /\ Closed("no-adapter", FALSE) \in Outcomes
    BY <1>12 DEF Gate, TypeOK, Closed, Outcomes
  <2>2. \/ outcome' = outcome
         \/ outcome' = [outcome EXCEPT ![w] = Closed("cancelled", FALSE)]
         \/ outcome' = [outcome EXCEPT ![w] = Closed("no-adapter", FALSE)]
    BY <1>12 DEF Gate, TypeOK
  <2>3. outcome' \in [Workers -> Outcomes]
    BY <1>12, <2>1, <2>2 DEF Gate, TypeOK
  <2>4. pc' \in [Workers -> Points]
    BY <1>12 DEF Gate, TypeOK, Points
  <2> QED
    BY <1>12, <2>1, <2>2, <2>3, <2>4 DEF Gate, TypeOK, table, caseVars, local
<1>13. ASSUME NEW w \in Workers, ExecuteRetry(w)
      PROVE  TypeOK'
  <2>1. pc' \in [Workers -> Points]
    BY <1>13 DEF ExecuteRetry, RetryOutcome, TypeOK, Points
  <2>2. outcome' \in [Workers -> Outcomes]
    BY <1>13 DEF ExecuteRetry, RetryOutcome, TypeOK, Closed, Outcomes
  <2> QED
    BY <1>13, <2>1, <2>2 DEF ExecuteRetry, RetryOutcome, TypeOK, table, caseVars, local
<1>14. ASSUME NEW w \in Workers, ExecuteNudge(w)
      PROVE  TypeOK'
  <2>1. cur[w] \in Actions
    BY <1>14, RowInHand DEF ExecuteNudge
  <2>2. NudgeDeferral(w) \in Outcomes
    BY <1>14, <2>1, DeferralType DEF ExecuteNudge, TypeOK
  <2>3. pc' \in [Workers -> Points]
    BY <1>14 DEF ExecuteNudge, TypeOK, Points
  <2>4. outcome' \in [Workers -> Outcomes]
    BY <1>14, <2>2 DEF ExecuteNudge, TypeOK
  <2> QED
    BY <1>14, <2>1, <2>2, <2>3, <2>4 DEF ExecuteNudge, TypeOK, table, caseVars, local
<1>15. ASSUME NEW w \in Workers, Send(w)
      PROVE  TypeOK'
  <2>1. cur[w] \in Actions
    BY <1>15, RowInHand DEF Send
  <2>2. pc' \in [Workers -> Points]
    BY <1>15 DEF Send, TypeOK, Points
  <2>3. outcome' \in [Workers -> Outcomes]
    BY <1>15 DEF Send, TypeOK, Closed, Outcomes
  <2>4. sent' \subseteq Messages
    BY <1>15, <2>1 DEF Send, TypeOK, Messages
  <2> QED
    BY <1>15, <2>1, <2>2, <2>3, <2>4 DEF Send, TypeOK, table, caseVars, local
<1>16. ASSUME NEW w \in Workers, Raise(w)
      PROVE  TypeOK'
  <2>1. pc' \in [Workers -> Points]
    BY <1>16 DEF Raise, TypeOK, Points
  <2>2. outcome' \in [Workers -> Outcomes]
    BY <1>16 DEF Raise, TypeOK, Closed, Outcomes
  <2> QED
    BY <1>16, <2>1, <2>2 DEF Raise, TypeOK, table, caseVars, local
<1>17. ASSUME NEW w \in Workers, Record(w)
      PROVE  TypeOK'
  <2>1. cur[w] \in Actions /\ outcome[w].state \in {"pending", "done", "no-adapter"}
    BY <1>17 DEF Record, TypeOK, PassesConsistent
  <2>2. pc' \in [Workers -> Points]
    BY <1>17 DEF Record, TypeOK, Points
  <2>3. audit' \subseteq Executions
    BY <1>17, <2>1 DEF Record, TypeOK, ExecutionRecord, Executions
  <2> QED
    BY <1>17, <2>1, <2>2, <2>3 DEF Record, TypeOK, table, caseVars, local
<1>18. ASSUME NEW w \in Workers, Count(w)
      PROVE  TypeOK'
  <2>1. cur[w] \in Actions
    BY <1>18, RowInHand DEF Count
  <2>2. pc' \in [Workers -> Points]
    BY <1>18 DEF Count, TypeOK, Points
  <2>3. retry_count' \in [Cases -> Nat]
    BY <1>18, <2>1 DEF Count, TypeOK, Charged
  <2> QED
    BY <1>18, <2>1, <2>2, <2>3 DEF Count, TypeOK, table, caseVars, local
<1>19. ASSUME NEW w \in Workers, Settle(w)
      PROVE  TypeOK'
  <2>1. outcome[w].retry_at \in Nat /\ outcome[w].state \in States
    BY <1>19 DEF Settle, TypeOK, PassesConsistent, Outcomes, States
  <2>2. state' \in [Actions -> States]
    BY <1>19, <2>1 DEF Settle, TypeOK
  <2>3. leased_until' \in [Actions -> Nat \cup {None}]
    BY <1>19 DEF Settle, TypeOK
  <2>4. worker' \in [Actions -> Workers \cup {None}]
    BY <1>19 DEF Settle, TypeOK
  <2>5. scheduled_for' \in [Actions -> Nat]
    BY <1>19, <2>1 DEF Settle, TypeOK
  <2>6. pc' \in [Workers -> Points]
    <3>1. pc' = [pc EXCEPT ![w] = "hold"] \/ pc' = [pc EXCEPT ![w] = "next"]
      BY <1>19 DEF Settle
    <3>2. "hold" \in Points /\ "next" \in Points
      BY DEF Points
    <3> QED
      BY <3>1, <3>2 DEF TypeOK
  <2>7. cur' \in [Workers -> Actions \cup {None}]
    <3>1. cur' = cur \/ cur' = [cur EXCEPT ![w] = None]
      BY <1>19 DEF Settle
    <3> QED
      BY <3>1 DEF TypeOK
  <2>8. outcome' \in [Workers -> Outcomes]
    BY <1>19 DEF Settle, TypeOK, NoOutcome, Outcomes
  <2> QED
    BY <1>19, <2>1, <2>2, <2>3, <2>4, <2>5, <2>6, <2>7, <2>8 DEF Settle, TypeOK, table, caseVars, local
<1>20. ASSUME NEW w \in Workers, Hold(w)
      PROVE  TypeOK'
  <2>1. caseState' \in [Cases -> CaseStates]
    BY <1>20 DEF Hold, TypeOK, CaseStates
  <2>2. pc' \in [Workers -> Points]
    BY <1>20 DEF Hold, TypeOK, Points
  <2>3. cur' \in [Workers -> Actions \cup {None}]
    BY <1>20 DEF Hold, TypeOK
  <2> QED
    BY <1>20, <2>1, <2>2, <2>3 DEF Hold, TypeOK, table, caseVars, local
<1>21. ASSUME NEW w \in Workers, EndPass(w)
      PROVE  TypeOK'
  <2>1. pc' \in [Workers -> Points]
    BY <1>21 DEF EndPass, TypeOK, Forget, Points
  <2>2. passNow' \in [Workers -> Nat]
    BY <1>21 DEF EndPass, TypeOK, Forget
  <2>3. todo' \in [Workers -> SUBSET Actions]
    BY <1>21 DEF EndPass, TypeOK, Forget
  <2>4. cur' \in [Workers -> Actions \cup {None}]
    BY <1>21 DEF EndPass, TypeOK, Forget
  <2>5. claimNo' \in [Workers -> [Actions -> Nat]]
    BY <1>21 DEF EndPass, TypeOK, Forget
  <2>6. outcome' \in [Workers -> Outcomes]
    BY <1>21 DEF EndPass, TypeOK, Forget, NoOutcome, Outcomes
  <2> QED
    BY <1>21, <2>1, <2>2, <2>3, <2>4, <2>5, <2>6 DEF EndPass, Forget, TypeOK, table, caseVars, local
<1>22. ASSUME NEW w \in Workers, Crash(w)
      PROVE  TypeOK'
  <2>1. pc' \in [Workers -> Points]
    BY <1>22 DEF Crash, TypeOK, Forget, Points
  <2>2. passNow' \in [Workers -> Nat]
    BY <1>22 DEF Crash, TypeOK, Forget
  <2>3. todo' \in [Workers -> SUBSET Actions]
    BY <1>22 DEF Crash, TypeOK, Forget
  <2>4. cur' \in [Workers -> Actions \cup {None}]
    BY <1>22 DEF Crash, TypeOK, Forget
  <2>5. claimNo' \in [Workers -> [Actions -> Nat]]
    BY <1>22 DEF Crash, TypeOK, Forget
  <2>6. outcome' \in [Workers -> Outcomes]
    BY <1>22 DEF Crash, TypeOK, Forget, NoOutcome, Outcomes
  <2> QED
    BY <1>22, <2>1, <2>2, <2>3, <2>4, <2>5, <2>6 DEF Crash, Forget, TypeOK, table, caseVars, local
<1>23. CASE UNCHANGED vars
  BY <1>23 DEF vars, TypeOK, table, local, caseVars
<1> QED
  BY <1>1, <1>2, <1>3, <1>4, <1>5, <1>6, <1>7, <1>7a, <1>7b, <1>7c, <1>8, <1>9, <1>10, <1>11, <1>12,
     <1>13, <1>14, <1>15, <1>16, <1>17, <1>18, <1>19, <1>20, <1>21, <1>22, <1>23 DEF Next, Pass

(* The row in hand, the batch and the outcome keep fitting the point reached. *)
LEMMA PassesStep ==
  ASSUME TypeOK, PassesConsistent, [Next]_vars
  PROVE  PassesConsistent'
<1>1. ASSUME NEW a \in Actions, NEW d \in Delays, Schedule(a, now + d)
      PROVE  PassesConsistent'
  BY <1>1 DEF Schedule, PassesConsistent, TypeOK, table, local, caseVars
<1>2. ASSUME NEW s \in Cancellable, Cancel(s)
      PROVE  PassesConsistent'
  BY <1>2 DEF Cancel, PassesConsistent, TypeOK, table, local, caseVars
<1>3. ASSUME NEW s \in Scopes, Suppress(s)
      PROVE  PassesConsistent'
  BY <1>3 DEF Suppress, PassesConsistent, TypeOK, table, local, caseVars
<1>4. ASSUME NEW s \in Scopes, Lift(s)
      PROVE  PassesConsistent'
  BY <1>4 DEF Lift, PassesConsistent, TypeOK, table, local, caseVars
<1>5. ASSUME NEW c \in Cases, NEW d \in Promises, Promise(c, d)
      PROVE  PassesConsistent'
  BY <1>5 DEF Promise, PassesConsistent, TypeOK, table, local, caseVars
<1>6. ASSUME NEW c \in Payable, RecoverCancel(c)
      PROVE  PassesConsistent'
  BY <1>6 DEF RecoverCancel, PassesConsistent, TypeOK, table, local, caseVars
<1>7. ASSUME NEW c \in Payable, RecoverClose(c)
      PROVE  PassesConsistent'
  BY <1>7 DEF RecoverClose, PassesConsistent, TypeOK, table, local, caseVars
<1>7a. ASSUME NEW c \in Cases, NEW st \in Diversions, Divert(c, st)
      PROVE  PassesConsistent'
  BY <1>7a DEF Divert, PassesConsistent, TypeOK, table, local, caseVars
<1>7b. ASSUME NEW c \in Cases, Approve(c)
      PROVE  PassesConsistent'
  BY <1>7b DEF Approve, RecordsOf, PassesConsistent, TypeOK, table, local, caseVars
<1>7c. ASSUME NEW c \in Cases, Reject(c)
      PROVE  PassesConsistent'
  BY <1>7c DEF Reject, Divert, PassesConsistent, TypeOK, table, local, caseVars
<1>8. ASSUME Tick
      PROVE  PassesConsistent'
  BY <1>8 DEF Tick, PassesConsistent, TypeOK, table, local, caseVars
<1>9. ASSUME NEW w \in Workers, Reclaim(w)
      PROVE  PassesConsistent'
  BY <1>9 DEF Reclaim, PassesConsistent, TypeOK, table, local, caseVars
<1>10. ASSUME NEW w \in Workers, NEW rows \in SUBSET Due(passNow[w]), Claim(w, rows)
      PROVE  PassesConsistent'
  BY <1>10 DEF Claim, IsBatch, Due, PassesConsistent, TypeOK, table, local, caseVars
<1>11. ASSUME NEW w \in Workers, NEW a \in todo[w], Recheck(w, a)
      PROVE  PassesConsistent'
  BY <1>11 DEF Recheck, PassesConsistent, TypeOK, table, local, caseVars
<1>12. ASSUME NEW w \in Workers, Gate(w)
      PROVE  PassesConsistent'
  BY <1>12 DEF Gate, Closed, PassesConsistent, TypeOK, table, local, caseVars
<1>13. ASSUME NEW w \in Workers, ExecuteRetry(w)
      PROVE  PassesConsistent'
  BY <1>13 DEF ExecuteRetry, RetryOutcome, Closed, PassesConsistent, TypeOK, table, local, caseVars
<1>14. ASSUME NEW w \in Workers, ExecuteNudge(w)
      PROVE  PassesConsistent'
  <2>1. cur[w] \in Actions
    BY <1>14, RowInHand DEF ExecuteNudge
  <2>2. NudgeDeferral(w) # NoOutcome => NudgeDeferral(w).state = "pending"
    BY <2>1, DeferralType
  <2> QED
    BY <1>14, <2>2 DEF ExecuteNudge, PassesConsistent, TypeOK, table, local, caseVars
<1>15. ASSUME NEW w \in Workers, Send(w)
      PROVE  PassesConsistent'
  BY <1>15 DEF Send, Closed, PassesConsistent, TypeOK, table, local, caseVars
<1>16. ASSUME NEW w \in Workers, Raise(w)
      PROVE  PassesConsistent'
  BY <1>16 DEF Raise, Closed, PassesConsistent, TypeOK, table, local, caseVars
<1>17. ASSUME NEW w \in Workers, Record(w)
      PROVE  PassesConsistent'
  BY <1>17 DEF Record, PassesConsistent, TypeOK, table, local, caseVars
<1>18. ASSUME NEW w \in Workers, Count(w)
      PROVE  PassesConsistent'
  BY <1>18 DEF Count, PassesConsistent, TypeOK, table, local, caseVars
<1>19. ASSUME NEW w \in Workers, Settle(w)
      PROVE  PassesConsistent'
  BY <1>19 DEF Settle, NoOutcome, PassesConsistent, TypeOK, table, local, caseVars
<1>20. ASSUME NEW w \in Workers, Hold(w)
      PROVE  PassesConsistent'
  BY <1>20 DEF Hold, PassesConsistent, TypeOK, table, local, caseVars
<1>21. ASSUME NEW w \in Workers, EndPass(w)
      PROVE  PassesConsistent'
  BY <1>21 DEF EndPass, Forget, NoOutcome, PassesConsistent, TypeOK, table, local, caseVars
<1>22. ASSUME NEW w \in Workers, Crash(w)
      PROVE  PassesConsistent'
  BY <1>22 DEF Crash, Forget, NoOutcome, PassesConsistent, TypeOK, table, local, caseVars
<1>23. CASE UNCHANGED vars
  BY <1>23 DEF vars, PassesConsistent, TypeOK, table, local, caseVars
<1> QED
  BY <1>1, <1>2, <1>3, <1>4, <1>5, <1>6, <1>7, <1>7a, <1>7b, <1>7c, <1>8, <1>9, <1>10, <1>11, <1>12,
     <1>13, <1>14, <1>15, <1>16, <1>17, <1>18, <1>19, <1>20, <1>21, <1>22, <1>23 DEF Next, Pass

(* A leased row keeps a holder and an expiry within reach. *)
LEMMA LeasesStep ==
  ASSUME TypeOK, PassesConsistent, LeasesExpire, [Next]_vars
  PROVE  LeasesExpire'
<1>1. ASSUME NEW a \in Actions, NEW d \in Delays, Schedule(a, now + d)
      PROVE  LeasesExpire'
  BY <1>1 DEF Schedule, LeasesExpire, TypeOK, table, local, caseVars
<1>2. ASSUME NEW s \in Cancellable, Cancel(s)
      PROVE  LeasesExpire'
  BY <1>2 DEF Cancel, CancelRows, LeasesExpire, TypeOK, table, local, caseVars
<1>3. ASSUME NEW s \in Scopes, Suppress(s)
      PROVE  LeasesExpire'
  BY <1>3 DEF Suppress, LeasesExpire, TypeOK, table, local, caseVars
<1>4. ASSUME NEW s \in Scopes, Lift(s)
      PROVE  LeasesExpire'
  BY <1>4 DEF Lift, LeasesExpire, TypeOK, table, local, caseVars
<1>5. ASSUME NEW c \in Cases, NEW d \in Promises, Promise(c, d)
      PROVE  LeasesExpire'
  BY <1>5 DEF Promise, LeasesExpire, TypeOK, table, local, caseVars
<1>6. ASSUME NEW c \in Payable, RecoverCancel(c)
      PROVE  LeasesExpire'
  BY <1>6 DEF RecoverCancel, CancelRows, LeasesExpire, TypeOK, table, local, caseVars
<1>7. ASSUME NEW c \in Payable, RecoverClose(c)
      PROVE  LeasesExpire'
  BY <1>7 DEF RecoverClose, LeasesExpire, TypeOK, table, local, caseVars
<1>7a. ASSUME NEW c \in Cases, NEW st \in Diversions, Divert(c, st)
      PROVE  LeasesExpire'
  BY <1>7a DEF Divert, LeasesExpire, TypeOK, table, local, caseVars
<1>7b. ASSUME NEW c \in Cases, Approve(c)
      PROVE  LeasesExpire'
  BY <1>7b DEF Approve, RecordsOf, LeasesExpire, TypeOK, table, local, caseVars
<1>7c. ASSUME NEW c \in Cases, Reject(c)
      PROVE  LeasesExpire'
  BY <1>7c DEF Reject, Divert, LeasesExpire, TypeOK, table, local, caseVars
<1>8. ASSUME Tick
      PROVE  LeasesExpire'
  BY <1>8 DEF Tick, LeasesExpire, TypeOK, table, local, caseVars
<1>9. ASSUME NEW w \in Workers, Reclaim(w)
      PROVE  LeasesExpire'
  BY <1>9 DEF Reclaim, Expired, LeasesExpire, TypeOK, table, local, caseVars
<1>10. ASSUME NEW w \in Workers, NEW rows \in SUBSET Due(passNow[w]), Claim(w, rows)
      PROVE  LeasesExpire'
  BY <1>10 DEF Claim, IsBatch, Due, Expiry, PassesConsistent, LeasesExpire, TypeOK, table, local, caseVars
<1>11. ASSUME NEW w \in Workers, NEW a \in todo[w], Recheck(w, a)
      PROVE  LeasesExpire'
  BY <1>11 DEF Recheck, LeasesExpire, TypeOK, table, local, caseVars
<1>12. ASSUME NEW w \in Workers, Gate(w)
      PROVE  LeasesExpire'
  BY <1>12 DEF Gate, LeasesExpire, TypeOK, table, local, caseVars
<1>13. ASSUME NEW w \in Workers, ExecuteRetry(w)
      PROVE  LeasesExpire'
  BY <1>13 DEF ExecuteRetry, RetryOutcome, LeasesExpire, TypeOK, table, local, caseVars
<1>14. ASSUME NEW w \in Workers, ExecuteNudge(w)
      PROVE  LeasesExpire'
  BY <1>14 DEF ExecuteNudge, LeasesExpire, TypeOK, table, local, caseVars
<1>15. ASSUME NEW w \in Workers, Send(w)
      PROVE  LeasesExpire'
  BY <1>15 DEF Send, LeasesExpire, TypeOK, table, local, caseVars
<1>16. ASSUME NEW w \in Workers, Raise(w)
      PROVE  LeasesExpire'
  BY <1>16 DEF Raise, LeasesExpire, TypeOK, table, local, caseVars
<1>17. ASSUME NEW w \in Workers, Record(w)
      PROVE  LeasesExpire'
  BY <1>17 DEF Record, LeasesExpire, TypeOK, table, local, caseVars
<1>18. ASSUME NEW w \in Workers, Count(w)
      PROVE  LeasesExpire'
  BY <1>18 DEF Count, LeasesExpire, TypeOK, table, local, caseVars
<1>19. ASSUME NEW w \in Workers, Settle(w)
      PROVE  LeasesExpire'
  <2>1. /\ cur[w] \in Actions
        /\ outcome[w].state \in {"pending", "cancelled", "done", "failed", "no-adapter"}
    BY <1>19 DEF Settle, PassesConsistent, Outcomes, TypeOK
  <2> SUFFICES ASSUME NEW a \in Actions
               PROVE  /\ state'[a] = "leased" => /\ worker'[a] \in Workers
                                                /\ leased_until'[a] \in Nat
                                                /\ leased_until'[a] <= now' + Lease
                      /\ state'[a] \in {"absent", "pending"} =>
                           worker'[a] = None /\ leased_until'[a] = None
    BY DEF LeasesExpire
  <2>2. CASE a = cur[w]
    BY <1>19, <2>1, <2>2 DEF Settle, TypeOK
  <2>3. CASE a # cur[w]
    <3>1. /\ state'[a] = state[a] /\ leased_until'[a] = leased_until[a]
          /\ worker'[a] = worker[a] /\ now' = now
      BY <1>19, <2>3 DEF Settle, TypeOK
    <3> QED
      BY <3>1 DEF LeasesExpire
  <2> QED
    BY <2>2, <2>3
<1>20. ASSUME NEW w \in Workers, Hold(w)
      PROVE  LeasesExpire'
  BY <1>20 DEF Hold, LeasesExpire, TypeOK, table, local, caseVars
<1>21. ASSUME NEW w \in Workers, EndPass(w)
      PROVE  LeasesExpire'
  BY <1>21 DEF EndPass, Forget, LeasesExpire, TypeOK, table, local, caseVars
<1>22. ASSUME NEW w \in Workers, Crash(w)
      PROVE  LeasesExpire'
  BY <1>22 DEF Crash, Forget, LeasesExpire, TypeOK, table, local, caseVars
<1>23. CASE UNCHANGED vars
  BY <1>23 DEF vars, LeasesExpire, TypeOK, table, local, caseVars
<1> QED
  BY <1>1, <1>2, <1>3, <1>4, <1>5, <1>6, <1>7, <1>7a, <1>7b, <1>7c, <1>8, <1>9, <1>10, <1>11, <1>12,
     <1>13, <1>14, <1>15, <1>16, <1>17, <1>18, <1>19, <1>20, <1>21, <1>22, <1>23 DEF Next, Pass

(* A pass keeps holding rows under attempts issued to it alone. *)
LEMMA ClaimsStep ==
  ASSUME TypeOK, PassesConsistent, ClaimsDistinct, [Next]_vars
  PROVE  ClaimsDistinct'
<1>1. ASSUME NEW a \in Actions, NEW d \in Delays, Schedule(a, now + d)
      PROVE  ClaimsDistinct'
  BY <1>1 DEF Schedule, ClaimsDistinct, Holds, TypeOK, table, local, caseVars
<1>2. ASSUME NEW s \in Cancellable, Cancel(s)
      PROVE  ClaimsDistinct'
  BY <1>2 DEF Cancel, CancelRows, ClaimsDistinct, Holds, TypeOK, table, local, caseVars
<1>3. ASSUME NEW s \in Scopes, Suppress(s)
      PROVE  ClaimsDistinct'
  BY <1>3 DEF Suppress, ClaimsDistinct, Holds, TypeOK, table, local, caseVars
<1>4. ASSUME NEW s \in Scopes, Lift(s)
      PROVE  ClaimsDistinct'
  BY <1>4 DEF Lift, ClaimsDistinct, Holds, TypeOK, table, local, caseVars
<1>5. ASSUME NEW c \in Cases, NEW d \in Promises, Promise(c, d)
      PROVE  ClaimsDistinct'
  BY <1>5 DEF Promise, ClaimsDistinct, Holds, TypeOK, table, local, caseVars
<1>6. ASSUME NEW c \in Payable, RecoverCancel(c)
      PROVE  ClaimsDistinct'
  BY <1>6 DEF RecoverCancel, CancelRows, ClaimsDistinct, Holds, TypeOK, table, local, caseVars
<1>7. ASSUME NEW c \in Payable, RecoverClose(c)
      PROVE  ClaimsDistinct'
  BY <1>7 DEF RecoverClose, ClaimsDistinct, Holds, TypeOK, table, local, caseVars
<1>7a. ASSUME NEW c \in Cases, NEW st \in Diversions, Divert(c, st)
      PROVE  ClaimsDistinct'
  BY <1>7a DEF Divert, ClaimsDistinct, Holds, TypeOK, table, local, caseVars
<1>7b. ASSUME NEW c \in Cases, Approve(c)
      PROVE  ClaimsDistinct'
  BY <1>7b DEF Approve, RecordsOf, ClaimsDistinct, Holds, TypeOK, table, local, caseVars
<1>7c. ASSUME NEW c \in Cases, Reject(c)
      PROVE  ClaimsDistinct'
  BY <1>7c DEF Reject, Divert, ClaimsDistinct, Holds, TypeOK, table, local, caseVars
<1>8. ASSUME Tick
      PROVE  ClaimsDistinct'
  BY <1>8 DEF Tick, ClaimsDistinct, Holds, TypeOK, table, local, caseVars
<1>9. ASSUME NEW w \in Workers, Reclaim(w)
      PROVE  ClaimsDistinct'
  BY <1>9 DEF Reclaim, ClaimsDistinct, Holds, TypeOK, table, local, caseVars
<1>10. ASSUME NEW w \in Workers, NEW rows \in SUBSET Due(passNow[w]), Claim(w, rows)
      PROVE  ClaimsDistinct'
  BY <1>10 DEF Claim, IsBatch, Due, PassesConsistent, ClaimsDistinct, Holds, TypeOK, table, local, caseVars
<1>11. ASSUME NEW w \in Workers, NEW a \in todo[w], Recheck(w, a)
      PROVE  ClaimsDistinct'
  BY <1>11 DEF Recheck, ClaimsDistinct, Holds, TypeOK, table, local, caseVars
<1>12. ASSUME NEW w \in Workers, Gate(w)
      PROVE  ClaimsDistinct'
  BY <1>12 DEF Gate, ClaimsDistinct, Holds, TypeOK, table, local, caseVars
<1>13. ASSUME NEW w \in Workers, ExecuteRetry(w)
      PROVE  ClaimsDistinct'
  BY <1>13 DEF ExecuteRetry, RetryOutcome, ClaimsDistinct, Holds, TypeOK, table, local, caseVars
<1>14. ASSUME NEW w \in Workers, ExecuteNudge(w)
      PROVE  ClaimsDistinct'
  BY <1>14 DEF ExecuteNudge, ClaimsDistinct, Holds, TypeOK, table, local, caseVars
<1>15. ASSUME NEW w \in Workers, Send(w)
      PROVE  ClaimsDistinct'
  BY <1>15 DEF Send, ClaimsDistinct, Holds, TypeOK, table, local, caseVars
<1>16. ASSUME NEW w \in Workers, Raise(w)
      PROVE  ClaimsDistinct'
  BY <1>16 DEF Raise, ClaimsDistinct, Holds, TypeOK, table, local, caseVars
<1>17. ASSUME NEW w \in Workers, Record(w)
      PROVE  ClaimsDistinct'
  BY <1>17 DEF Record, ClaimsDistinct, Holds, TypeOK, table, local, caseVars
<1>18. ASSUME NEW w \in Workers, Count(w)
      PROVE  ClaimsDistinct'
  BY <1>18 DEF Count, ClaimsDistinct, Holds, TypeOK, table, local, caseVars
<1>19. ASSUME NEW w \in Workers, Settle(w)
      PROVE  ClaimsDistinct'
  <2>1. /\ cur[w] \in Actions /\ outcome[w].state # "absent"
        /\ state' = [state EXCEPT ![cur[w]] = outcome[w].state]
        /\ cur' = cur \/ cur' = [cur EXCEPT ![w] = None]
        /\ UNCHANGED <<todo, claimNo, attempts>>
    BY <1>19 DEF Settle, PassesConsistent, Outcomes, TypeOK
  <2>2. ASSUME NEW v \in Workers, NEW a \in Actions, Holds(v, a)'
        PROVE  Holds(v, a)
    BY <2>1, <2>2 DEF Holds, TypeOK
  <2>3. ASSUME NEW a \in Actions, state[a] # "absent"
        PROVE  state'[a] # "absent"
    BY <2>1, <2>3 DEF TypeOK
  <2> QED
    BY <2>1, <2>2, <2>3 DEF ClaimsDistinct
<1>20. ASSUME NEW w \in Workers, Hold(w)
      PROVE  ClaimsDistinct'
  BY <1>20 DEF Hold, ClaimsDistinct, Holds, TypeOK, table, local, caseVars
<1>21. ASSUME NEW w \in Workers, EndPass(w)
      PROVE  ClaimsDistinct'
  BY <1>21 DEF EndPass, Forget, ClaimsDistinct, Holds, TypeOK, table, local, caseVars
<1>22. ASSUME NEW w \in Workers, Crash(w)
      PROVE  ClaimsDistinct'
  BY <1>22 DEF Crash, Forget, ClaimsDistinct, Holds, TypeOK, table, local, caseVars
<1>23. CASE UNCHANGED vars
  BY <1>23 DEF vars, ClaimsDistinct, Holds, TypeOK, table, local, caseVars
<1> QED
  BY <1>1, <1>2, <1>3, <1>4, <1>5, <1>6, <1>7, <1>7a, <1>7b, <1>7c, <1>8, <1>9, <1>10, <1>11, <1>12,
     <1>13, <1>14, <1>15, <1>16, <1>17, <1>18, <1>19, <1>20, <1>21, <1>22, <1>23 DEF Next, Pass

(* What a pass has still to write or send stays out of the trail and unsent. *)
LEMMA UnspentStep ==
  ASSUME TypeOK, PassesConsistent, ClaimsDistinct, ClaimsUnspent, AttemptsAreSpentOnce, [Next]_vars
  PROVE  ClaimsUnspent'
<1>1. ASSUME NEW a \in Actions, NEW d \in Delays, Schedule(a, now + d)
      PROVE  ClaimsUnspent'
  BY <1>1 DEF Schedule, ClaimsUnspent, Unrecorded, Unsent, TypeOK, table, local, caseVars
<1>2. ASSUME NEW s \in Cancellable, Cancel(s)
      PROVE  ClaimsUnspent'
  BY <1>2 DEF Cancel, ClaimsUnspent, Unrecorded, Unsent, TypeOK, table, local, caseVars
<1>3. ASSUME NEW s \in Scopes, Suppress(s)
      PROVE  ClaimsUnspent'
  BY <1>3 DEF Suppress, ClaimsUnspent, Unrecorded, Unsent, TypeOK, table, local, caseVars
<1>4. ASSUME NEW s \in Scopes, Lift(s)
      PROVE  ClaimsUnspent'
  BY <1>4 DEF Lift, ClaimsUnspent, Unrecorded, Unsent, TypeOK, table, local, caseVars
<1>5. ASSUME NEW c \in Cases, NEW d \in Promises, Promise(c, d)
      PROVE  ClaimsUnspent'
  BY <1>5 DEF Promise, ClaimsUnspent, Unrecorded, Unsent, TypeOK, table, local, caseVars
<1>6. ASSUME NEW c \in Payable, RecoverCancel(c)
      PROVE  ClaimsUnspent'
  BY <1>6 DEF RecoverCancel, ClaimsUnspent, Unrecorded, Unsent, TypeOK, table, local, caseVars
<1>7. ASSUME NEW c \in Payable, RecoverClose(c)
      PROVE  ClaimsUnspent'
  BY <1>7 DEF RecoverClose, ClaimsUnspent, Unrecorded, Unsent, TypeOK, table, local, caseVars
<1>7a. ASSUME NEW c \in Cases, NEW st \in Diversions, Divert(c, st)
      PROVE  ClaimsUnspent'
  BY <1>7a DEF Divert, ClaimsUnspent, Unrecorded, Unsent, TypeOK, table, local, caseVars
<1>7b. ASSUME NEW c \in Cases, Approve(c)
      PROVE  ClaimsUnspent'
  BY <1>7b DEF Approve, RecordsOf, ClaimsUnspent, Unrecorded, Unsent, TypeOK, table, local, caseVars
<1>7c. ASSUME NEW c \in Cases, Reject(c)
      PROVE  ClaimsUnspent'
  BY <1>7c DEF Reject, Divert, ClaimsUnspent, Unrecorded, Unsent, TypeOK, table, local, caseVars
<1>8. ASSUME Tick
      PROVE  ClaimsUnspent'
  BY <1>8 DEF Tick, ClaimsUnspent, Unrecorded, Unsent, TypeOK, table, local, caseVars
<1>9. ASSUME NEW w \in Workers, Reclaim(w)
      PROVE  ClaimsUnspent'
  BY <1>9 DEF Reclaim, PassesConsistent, ClaimsUnspent, Unrecorded, Unsent, TypeOK, table, local, caseVars
<1>10. ASSUME NEW w \in Workers, NEW rows \in SUBSET Due(passNow[w]), Claim(w, rows)
      PROVE  ClaimsUnspent'
  <2>1. /\ cur[w] = None
        /\ cur' = cur /\ audit' = audit /\ sent' = sent
        /\ pc' = [pc EXCEPT ![w] = "next"]
        /\ todo' = [todo EXCEPT ![w] = rows]
        /\ claimNo' = [claimNo EXCEPT ![w] =
             [a \in Actions |-> IF a \in rows THEN attempts[a] + 1 ELSE 0]]
    BY <1>10 DEF Claim, PassesConsistent, TypeOK
  <2>2. rows \subseteq Actions
    BY <1>10 DEF Claim, IsBatch, Due
  <2>3. ASSUME NEW a \in rows
        PROVE  claimNo'[w][a] = attempts[a] + 1
    BY <2>1, <2>2, <2>3 DEF TypeOK
  <2>4. ASSUME NEW r \in audit \cup sent, r.action \in rows
        PROVE  claimNo'[w][r.action] # r.attempt
    <3>1. r.attempt \in Nat /\ r.attempt <= attempts[r.action] /\ attempts[r.action] \in Nat
      BY <2>2, <2>4 DEF AttemptsAreSpentOnce, TypeOK, Executions, Messages
    <3> QED
      BY <2>3, <2>4, <3>1
  <2>5. \A a \in Actions : Unrecorded(w, a)' \/ Unsent(w, a)' => a \in rows
    BY <2>1 DEF Unrecorded, Unsent, TypeOK
  <2>6. \A r \in audit \cup sent : r.action \in Actions
    BY DEF TypeOK, Executions, Messages
  <2>7. ASSUME NEW v \in Workers, v # w, NEW a \in Actions
        PROVE  /\ Unrecorded(v, a)' <=> Unrecorded(v, a)
               /\ Unsent(v, a)' <=> Unsent(v, a)
               /\ claimNo'[v] = claimNo[v]
    BY <2>1, <2>7 DEF Unrecorded, Unsent, TypeOK
  <2> QED
    BY <2>1, <2>4, <2>5, <2>6, <2>7 DEF ClaimsUnspent
<1>11. ASSUME NEW w \in Workers, NEW a \in todo[w], Recheck(w, a)
      PROVE  ClaimsUnspent'
  BY <1>11 DEF Recheck, PassesConsistent, ClaimsUnspent, Unrecorded, Unsent, TypeOK, table, local, caseVars
<1>12. ASSUME NEW w \in Workers, Gate(w)
      PROVE  ClaimsUnspent'
  <2>1. /\ pc[w] = "gate" /\ UNCHANGED <<cur, todo, claimNo, audit, sent>>
        /\ pc' = [pc EXCEPT ![w] = "settle"] \/ pc' = [pc EXCEPT ![w] = "execute"]
    BY <1>12 DEF Gate
  <2>2. \A v \in Workers, a \in Actions : /\ Unrecorded(v, a)' => Unrecorded(v, a)
                                          /\ Unsent(v, a)' => Unsent(v, a)
    BY <2>1 DEF Unrecorded, Unsent, TypeOK
  <2>3. \A r \in audit \cup sent : r.action \in Actions
    BY DEF TypeOK, Executions, Messages
  <2> QED
    BY <2>1, <2>2, <2>3 DEF ClaimsUnspent
<1>13. ASSUME NEW w \in Workers, ExecuteRetry(w)
      PROVE  ClaimsUnspent'
  BY <1>13 DEF ExecuteRetry, RetryOutcome, ClaimsUnspent, Unrecorded, Unsent, TypeOK, table, local, caseVars
<1>14. ASSUME NEW w \in Workers, ExecuteNudge(w)
      PROVE  ClaimsUnspent'
  BY <1>14 DEF ExecuteNudge, ClaimsUnspent, Unrecorded, Unsent, TypeOK, table, local, caseVars
<1>15. ASSUME NEW w \in Workers, Send(w)
      PROVE  ClaimsUnspent'
  <2> DEFINE m == [action |-> cur[w], attempt |-> claimNo[w][cur[w]],
                   worker |-> w, clock |-> passNow[w], at |-> now]
  <2>1. /\ pc[w] \in {"send", "record"} /\ cur[w] \in Actions /\ cur[w] \notin todo[w]
        /\ UNCHANGED <<cur, todo, claimNo, audit>> /\ sent' = sent \cup {m}
    BY <1>15 DEF Send, PassesConsistent, TypeOK
  <2>2. m.action = cur[w] /\ m.attempt = claimNo[w][cur[w]]
    BY DEF ExecutionRecord
  <2>3. ~Unsent(w, cur[w])'
    BY <1>15, <2>1 DEF Send, Unsent, TypeOK
  <2>4. ASSUME NEW v \in Workers, NEW a \in Actions
        PROVE  /\ Unrecorded(v, a)' => Unrecorded(v, a)
               /\ Unsent(v, a)' => Unsent(v, a)
    BY <1>15, <2>1 DEF Send, Unrecorded, Unsent, TypeOK
  <2>5. ASSUME NEW v \in Workers, Unsent(v, cur[w])'
        PROVE  claimNo[v][cur[w]] # m.attempt
    <3>1. v # w /\ Holds(v, cur[w]) /\ Holds(w, cur[w])
      BY <2>1, <2>3, <2>4, <2>5 DEF Unsent, Holds
    <3> QED
      BY <2>1, <2>2, <3>1 DEF ClaimsDistinct
  <2>6. \A r \in audit \cup sent : r.action \in Actions
    BY DEF TypeOK, Executions, Messages
  <2> HIDE DEF m
  <2> QED
    BY <2>1, <2>2, <2>4, <2>5, <2>6 DEF ClaimsUnspent
<1>16. ASSUME NEW w \in Workers, Raise(w)
      PROVE  ClaimsUnspent'
  BY <1>16 DEF Raise, ClaimsUnspent, Unrecorded, Unsent, TypeOK, table, local, caseVars
<1>17. ASSUME NEW w \in Workers, Record(w)
      PROVE  ClaimsUnspent'
  <2>1. /\ pc[w] \in {"send", "record"} /\ cur[w] \in Actions /\ cur[w] \notin todo[w]
        /\ UNCHANGED <<cur, todo, claimNo, sent>> /\ audit' = audit \cup {ExecutionRecord(w)}
    BY <1>17 DEF Record, PassesConsistent, TypeOK
  <2>2. ExecutionRecord(w).action = cur[w] /\ ExecutionRecord(w).attempt = claimNo[w][cur[w]]
    BY DEF ExecutionRecord
  <2>3. ~Unrecorded(w, cur[w])'
    BY <1>17, <2>1 DEF Record, Unrecorded, TypeOK
  <2>4. ASSUME NEW v \in Workers, NEW a \in Actions
        PROVE  /\ Unrecorded(v, a)' => Unrecorded(v, a)
               /\ Unsent(v, a)' => Unsent(v, a)
    BY <1>17, <2>1 DEF Record, Unrecorded, Unsent, TypeOK
  <2>5. ASSUME NEW v \in Workers, Unrecorded(v, cur[w])'
        PROVE  claimNo[v][cur[w]] # ExecutionRecord(w).attempt
    <3>1. v # w /\ Holds(v, cur[w]) /\ Holds(w, cur[w])
      BY <2>1, <2>3, <2>4, <2>5 DEF Unrecorded, Holds
    <3> QED
      BY <2>1, <2>2, <3>1 DEF ClaimsDistinct
  <2>6. \A r \in audit \cup sent : r.action \in Actions
    BY DEF TypeOK, Executions, Messages
  <2> QED
    BY <2>1, <2>2, <2>4, <2>5, <2>6 DEF ClaimsUnspent
<1>18. ASSUME NEW w \in Workers, Count(w)
      PROVE  ClaimsUnspent'
  BY <1>18 DEF Count, PassesConsistent, ClaimsUnspent, Unrecorded, Unsent, TypeOK, table, local, caseVars
<1>19. ASSUME NEW w \in Workers, Settle(w)
      PROVE  ClaimsUnspent'
  BY <1>19 DEF Settle, PassesConsistent, ClaimsUnspent, Unrecorded, Unsent, TypeOK, table, local, caseVars
<1>20. ASSUME NEW w \in Workers, Hold(w)
      PROVE  ClaimsUnspent'
  BY <1>20 DEF Hold, PassesConsistent, ClaimsUnspent, Unrecorded, Unsent, TypeOK, table, local, caseVars
<1>21. ASSUME NEW w \in Workers, EndPass(w)
      PROVE  ClaimsUnspent'
  BY <1>21 DEF EndPass, Forget, ClaimsUnspent, Unrecorded, Unsent, TypeOK, table, local, caseVars
<1>22. ASSUME NEW w \in Workers, Crash(w)
      PROVE  ClaimsUnspent'
  BY <1>22 DEF Crash, Forget, ClaimsUnspent, Unrecorded, Unsent, TypeOK, table, local, caseVars
<1>23. CASE UNCHANGED vars
  BY <1>23 DEF vars, ClaimsUnspent, Unrecorded, Unsent, TypeOK, table, local, caseVars
<1> QED
  BY <1>1, <1>2, <1>3, <1>4, <1>5, <1>6, <1>7, <1>7a, <1>7b, <1>7c, <1>8, <1>9, <1>10, <1>11, <1>12,
     <1>13, <1>14, <1>15, <1>16, <1>17, <1>18, <1>19, <1>20, <1>21, <1>22, <1>23 DEF Next, Pass

(* No attempt is executed, and no message of an attempt sent, a second time. *)
LEMMA AttemptsStep ==
  ASSUME TypeOK, PassesConsistent, ClaimsDistinct, ClaimsUnspent, AttemptsAreSpentOnce, [Next]_vars
  PROVE  AttemptsAreSpentOnce'
<1>1. ASSUME NEW a \in Actions, NEW d \in Delays, Schedule(a, now + d)
      PROVE  AttemptsAreSpentOnce'
  BY <1>1 DEF Schedule, AttemptsAreSpentOnce, TypeOK, table, local, caseVars
<1>2. ASSUME NEW s \in Cancellable, Cancel(s)
      PROVE  AttemptsAreSpentOnce'
  BY <1>2 DEF Cancel, AttemptsAreSpentOnce, TypeOK, table, local, caseVars
<1>3. ASSUME NEW s \in Scopes, Suppress(s)
      PROVE  AttemptsAreSpentOnce'
  BY <1>3 DEF Suppress, AttemptsAreSpentOnce, TypeOK, table, local, caseVars
<1>4. ASSUME NEW s \in Scopes, Lift(s)
      PROVE  AttemptsAreSpentOnce'
  BY <1>4 DEF Lift, AttemptsAreSpentOnce, TypeOK, table, local, caseVars
<1>5. ASSUME NEW c \in Cases, NEW d \in Promises, Promise(c, d)
      PROVE  AttemptsAreSpentOnce'
  BY <1>5 DEF Promise, AttemptsAreSpentOnce, TypeOK, table, local, caseVars
<1>6. ASSUME NEW c \in Payable, RecoverCancel(c)
      PROVE  AttemptsAreSpentOnce'
  BY <1>6 DEF RecoverCancel, AttemptsAreSpentOnce, TypeOK, table, local, caseVars
<1>7. ASSUME NEW c \in Payable, RecoverClose(c)
      PROVE  AttemptsAreSpentOnce'
  BY <1>7 DEF RecoverClose, AttemptsAreSpentOnce, TypeOK, table, local, caseVars
<1>7a. ASSUME NEW c \in Cases, NEW st \in Diversions, Divert(c, st)
      PROVE  AttemptsAreSpentOnce'
  BY <1>7a DEF Divert, AttemptsAreSpentOnce, TypeOK, table, local, caseVars
<1>7b. ASSUME NEW c \in Cases, Approve(c)
      PROVE  AttemptsAreSpentOnce'
  BY <1>7b DEF Approve, RecordsOf, AttemptsAreSpentOnce, TypeOK, table, local, caseVars
<1>7c. ASSUME NEW c \in Cases, Reject(c)
      PROVE  AttemptsAreSpentOnce'
  BY <1>7c DEF Reject, Divert, AttemptsAreSpentOnce, TypeOK, table, local, caseVars
<1>8. ASSUME Tick
      PROVE  AttemptsAreSpentOnce'
  BY <1>8 DEF Tick, AttemptsAreSpentOnce, TypeOK, table, local, caseVars
<1>9. ASSUME NEW w \in Workers, Reclaim(w)
      PROVE  AttemptsAreSpentOnce'
  BY <1>9 DEF Reclaim, AttemptsAreSpentOnce, TypeOK, table, local, caseVars
<1>10. ASSUME NEW w \in Workers, NEW rows \in SUBSET Due(passNow[w]), Claim(w, rows)
      PROVE  AttemptsAreSpentOnce'
  <2>1. audit' = audit /\ sent' = sent
    BY <1>10 DEF Claim
  <2>2. \A a \in Actions : attempts[a] \in Nat /\ attempts'[a] \in Nat /\ attempts[a] <= attempts'[a]
    BY <1>10 DEF Claim, TypeOK
  <2>3. \A r \in audit \cup sent : r.action \in Actions /\ r.attempt \in Nat
    BY DEF TypeOK, Executions, Messages
  <2> QED
    BY <2>1, <2>2, <2>3 DEF AttemptsAreSpentOnce
<1>11. ASSUME NEW w \in Workers, NEW a \in todo[w], Recheck(w, a)
      PROVE  AttemptsAreSpentOnce'
  BY <1>11 DEF Recheck, AttemptsAreSpentOnce, TypeOK, table, local, caseVars
<1>12. ASSUME NEW w \in Workers, Gate(w)
      PROVE  AttemptsAreSpentOnce'
  BY <1>12 DEF Gate, AttemptsAreSpentOnce, TypeOK, table, local, caseVars
<1>13. ASSUME NEW w \in Workers, ExecuteRetry(w)
      PROVE  AttemptsAreSpentOnce'
  BY <1>13 DEF ExecuteRetry, RetryOutcome, AttemptsAreSpentOnce, TypeOK, table, local, caseVars
<1>14. ASSUME NEW w \in Workers, ExecuteNudge(w)
      PROVE  AttemptsAreSpentOnce'
  BY <1>14 DEF ExecuteNudge, AttemptsAreSpentOnce, TypeOK, table, local, caseVars
<1>15. ASSUME NEW w \in Workers, Send(w)
      PROVE  AttemptsAreSpentOnce'
  <2> DEFINE m == [action |-> cur[w], attempt |-> claimNo[w][cur[w]],
                   worker |-> w, clock |-> passNow[w], at |-> now]
  <2>1. /\ cur[w] \in Actions /\ Holds(w, cur[w]) /\ Unsent(w, cur[w])
        /\ sent' = sent \cup {m} /\ audit' = audit /\ attempts' = attempts
    BY <1>15 DEF Send, PassesConsistent, Holds, Unsent, table, TypeOK
  <2>2. m.action = cur[w] /\ m.attempt = claimNo[w][cur[w]]
    BY DEF TypeOK
  <2>3. 1 <= m.attempt /\ m.attempt <= attempts[cur[w]]
    BY <2>1, <2>2 DEF ClaimsDistinct
  <2>4. \A r \in sent : r.action = cur[w] => r.attempt # m.attempt
    BY <2>1, <2>2 DEF ClaimsUnspent
  <2> HIDE DEF m
  <2> QED
    BY <2>1, <2>2, <2>3, <2>4 DEF AttemptsAreSpentOnce
<1>16. ASSUME NEW w \in Workers, Raise(w)
      PROVE  AttemptsAreSpentOnce'
  BY <1>16 DEF Raise, AttemptsAreSpentOnce, TypeOK, table, local, caseVars
<1>17. ASSUME NEW w \in Workers, Record(w)
      PROVE  AttemptsAreSpentOnce'
  <2>1. /\ cur[w] \in Actions /\ Holds(w, cur[w]) /\ Unrecorded(w, cur[w])
        /\ audit' = audit \cup {ExecutionRecord(w)} /\ sent' = sent /\ attempts' = attempts
    BY <1>17 DEF Record, PassesConsistent, Holds, Unrecorded, table, TypeOK
  <2>2. ExecutionRecord(w).action = cur[w] /\ ExecutionRecord(w).attempt = claimNo[w][cur[w]]
    BY DEF ExecutionRecord, TypeOK
  <2>3. 1 <= ExecutionRecord(w).attempt /\ ExecutionRecord(w).attempt <= attempts[cur[w]]
    BY <2>1, <2>2 DEF ClaimsDistinct
  <2>4. \A r \in audit : r.action = cur[w] => r.attempt # ExecutionRecord(w).attempt
    BY <2>1, <2>2 DEF ClaimsUnspent
  <2> QED
    BY <2>1, <2>2, <2>3, <2>4 DEF AttemptsAreSpentOnce
<1>18. ASSUME NEW w \in Workers, Count(w)
      PROVE  AttemptsAreSpentOnce'
  BY <1>18 DEF Count, AttemptsAreSpentOnce, TypeOK, table, local, caseVars
<1>19. ASSUME NEW w \in Workers, Settle(w)
      PROVE  AttemptsAreSpentOnce'
  BY <1>19 DEF Settle, AttemptsAreSpentOnce, TypeOK, table, local, caseVars
<1>20. ASSUME NEW w \in Workers, Hold(w)
      PROVE  AttemptsAreSpentOnce'
  BY <1>20 DEF Hold, AttemptsAreSpentOnce, TypeOK, table, local, caseVars
<1>21. ASSUME NEW w \in Workers, EndPass(w)
      PROVE  AttemptsAreSpentOnce'
  BY <1>21 DEF EndPass, Forget, AttemptsAreSpentOnce, TypeOK, table, local, caseVars
<1>22. ASSUME NEW w \in Workers, Crash(w)
      PROVE  AttemptsAreSpentOnce'
  BY <1>22 DEF Crash, Forget, AttemptsAreSpentOnce, TypeOK, table, local, caseVars
<1>23. CASE UNCHANGED vars
  BY <1>23 DEF vars, AttemptsAreSpentOnce, TypeOK, table, local, caseVars
<1> QED
  BY <1>1, <1>2, <1>3, <1>4, <1>5, <1>6, <1>7, <1>7a, <1>7b, <1>7c, <1>8, <1>9, <1>10, <1>11, <1>12,
     <1>13, <1>14, <1>15, <1>16, <1>17, <1>18, <1>19, <1>20, <1>21, <1>22, <1>23 DEF Next, Pass

(* Before anything is scheduled, the invariant holds. *)
LEMMA QueueInvInit == Init => QueueInv
<1> SUFFICES ASSUME Init
             PROVE  QueueInv
  OBVIOUS
<1>1. TypeOK
  BY DEF Init, TypeOK, States, CaseStates, Points, NoOutcome, Outcomes
<1>2. PassesConsistent
  BY DEF Init, PassesConsistent
<1>3. LeasesExpire
  BY DEF Init, LeasesExpire
<1>4. ClaimsDistinct /\ ClaimsUnspent /\ AttemptsAreSpentOnce
  BY DEF Init, ClaimsDistinct, ClaimsUnspent, AttemptsAreSpentOnce, Holds
<1> QED
  BY <1>1, <1>2, <1>3, <1>4 DEF QueueInv

(* Every step preserves it. *)
LEMMA QueueInvStep == QueueInv /\ [Next]_vars => QueueInv'
  BY TypeStep, PassesStep, LeasesStep, ClaimsStep, UnspentStep, AttemptsStep DEF QueueInv

(* The invariant of the action queue. *)
THEOREM QueueInvariant == Spec => []QueueInv
  BY QueueInvInit, QueueInvStep, PTL DEF Spec

(* Every column of pending_actions and every local variable of run_due holds a
   value of its type, however passes interleave and die. *)
THEOREM QueueTypes == Spec => []TypeOK
<1>1. QueueInv => TypeOK
  BY DEF QueueInv
<1> QED
  BY <1>1, QueueInvariant, PTL

(* store.py, release_expired_leases: no row is ever leased without a holder, or
   beyond Lease from now, so no row is out of reach of the next reclaim. *)
THEOREM LeasesAlwaysExpire == Spec => []LeasesExpire
<1>1. QueueInv => LeasesExpire
  BY DEF QueueInv
<1> QED
  BY <1>1, QueueInvariant, PTL

(* store.py, lease_due_actions: at-least-once delivery never spends one attempt
   twice, in the trail or towards the customer, with any number of passes. *)
THEOREM AttemptsAlwaysSpentOnce == Spec => []AttemptsAreSpentOnce
<1>1. QueueInv => AttemptsAreSpentOnce
  BY DEF QueueInv
<1> QED
  BY <1>1, QueueInvariant, PTL

(* store.py, cancel_pending: no step brings back a cancelled row that no pass
   has in hand. *)
LEMMA DeadRowStep ==
  ASSUME QueueInv, [Next]_vars, NEW x \in Actions, DeadRow(x)
  PROVE  DeadRow(x)'
<1>1. ASSUME NEW a \in Actions, NEW d \in Delays, Schedule(a, now + d)
      PROVE  DeadRow(x)'
  BY <1>1 DEF Schedule, DeadRow, QueueInv, TypeOK, table, local, caseVars
<1>2. ASSUME NEW s \in Cancellable, Cancel(s)
      PROVE  DeadRow(x)'
  BY <1>2 DEF Cancel, CancelRows, DeadRow, QueueInv, TypeOK, table, local, caseVars
<1>3. ASSUME NEW s \in Scopes, Suppress(s)
      PROVE  DeadRow(x)'
  BY <1>3 DEF Suppress, DeadRow, QueueInv, TypeOK, table, local, caseVars
<1>4. ASSUME NEW s \in Scopes, Lift(s)
      PROVE  DeadRow(x)'
  BY <1>4 DEF Lift, DeadRow, QueueInv, TypeOK, table, local, caseVars
<1>5. ASSUME NEW c \in Cases, NEW d \in Promises, Promise(c, d)
      PROVE  DeadRow(x)'
  BY <1>5 DEF Promise, DeadRow, QueueInv, TypeOK, table, local, caseVars
<1>6. ASSUME NEW c \in Payable, RecoverCancel(c)
      PROVE  DeadRow(x)'
  BY <1>6 DEF RecoverCancel, CancelRows, DeadRow, QueueInv, TypeOK, table, local, caseVars
<1>7. ASSUME NEW c \in Payable, RecoverClose(c)
      PROVE  DeadRow(x)'
  BY <1>7 DEF RecoverClose, DeadRow, QueueInv, TypeOK, table, local, caseVars
<1>7a. ASSUME NEW c \in Cases, NEW st \in Diversions, Divert(c, st)
      PROVE  DeadRow(x)'
  BY <1>7a DEF Divert, DeadRow, QueueInv, TypeOK, table, local, caseVars
<1>7b. ASSUME NEW c \in Cases, Approve(c)
      PROVE  DeadRow(x)'
  BY <1>7b DEF Approve, RecordsOf, DeadRow, QueueInv, TypeOK, table, local, caseVars
<1>7c. ASSUME NEW c \in Cases, Reject(c)
      PROVE  DeadRow(x)'
  BY <1>7c DEF Reject, Divert, DeadRow, QueueInv, TypeOK, table, local, caseVars
<1>8. ASSUME Tick
      PROVE  DeadRow(x)'
  BY <1>8 DEF Tick, DeadRow, QueueInv, TypeOK, table, local, caseVars
<1>9. ASSUME NEW w \in Workers, Reclaim(w)
      PROVE  DeadRow(x)'
  BY <1>9 DEF Reclaim, Expired, DeadRow, QueueInv, TypeOK, table, local, caseVars
<1>10. ASSUME NEW w \in Workers, NEW rows \in SUBSET Due(passNow[w]), Claim(w, rows)
      PROVE  DeadRow(x)'
  BY <1>10 DEF Claim, IsBatch, Due, DeadRow, QueueInv, TypeOK, table, local, caseVars
<1>11. ASSUME NEW w \in Workers, NEW a \in todo[w], Recheck(w, a)
      PROVE  DeadRow(x)'
  BY <1>11 DEF Recheck, DeadRow, QueueInv, TypeOK, table, local, caseVars
<1>12. ASSUME NEW w \in Workers, Gate(w)
      PROVE  DeadRow(x)'
  BY <1>12 DEF Gate, DeadRow, QueueInv, TypeOK, table, local, caseVars
<1>13. ASSUME NEW w \in Workers, ExecuteRetry(w)
      PROVE  DeadRow(x)'
  BY <1>13 DEF ExecuteRetry, RetryOutcome, DeadRow, QueueInv, TypeOK, table, local, caseVars
<1>14. ASSUME NEW w \in Workers, ExecuteNudge(w)
      PROVE  DeadRow(x)'
  BY <1>14 DEF ExecuteNudge, DeadRow, QueueInv, TypeOK, table, local, caseVars
<1>15. ASSUME NEW w \in Workers, Send(w)
      PROVE  DeadRow(x)'
  BY <1>15 DEF Send, DeadRow, QueueInv, TypeOK, table, local, caseVars
<1>16. ASSUME NEW w \in Workers, Raise(w)
      PROVE  DeadRow(x)'
  BY <1>16 DEF Raise, DeadRow, QueueInv, TypeOK, table, local, caseVars
<1>17. ASSUME NEW w \in Workers, Record(w)
      PROVE  DeadRow(x)'
  BY <1>17 DEF Record, DeadRow, QueueInv, TypeOK, table, local, caseVars
<1>18. ASSUME NEW w \in Workers, Count(w)
      PROVE  DeadRow(x)'
  BY <1>18 DEF Count, DeadRow, QueueInv, TypeOK, table, local, caseVars
<1>19. ASSUME NEW w \in Workers, Settle(w)
      PROVE  DeadRow(x)'
  <2>1. cur[w] # x /\ state' = [state EXCEPT ![cur[w]] = outcome[w].state]
        /\ (cur' = cur \/ cur' = [cur EXCEPT ![w] = None])
    BY <1>19 DEF Settle, DeadRow
  <2> QED
    BY <2>1 DEF DeadRow, QueueInv, TypeOK
<1>20. ASSUME NEW w \in Workers, Hold(w)
      PROVE  DeadRow(x)'
  BY <1>20 DEF Hold, DeadRow, QueueInv, TypeOK, table, local, caseVars
<1>21. ASSUME NEW w \in Workers, EndPass(w)
      PROVE  DeadRow(x)'
  BY <1>21 DEF EndPass, Forget, DeadRow, QueueInv, TypeOK, table, local, caseVars
<1>22. ASSUME NEW w \in Workers, Crash(w)
      PROVE  DeadRow(x)'
  BY <1>22 DEF Crash, Forget, DeadRow, QueueInv, TypeOK, table, local, caseVars
<1>23. CASE UNCHANGED vars
  BY <1>23 DEF vars, DeadRow, QueueInv, TypeOK, table, local, caseVars
<1> QED
  BY <1>1, <1>2, <1>3, <1>4, <1>5, <1>6, <1>7, <1>7a, <1>7b, <1>7c, <1>8, <1>9, <1>10, <1>11, <1>12,
     <1>13, <1>14, <1>15, <1>16, <1>17, <1>18, <1>19, <1>20, <1>21, <1>22, <1>23 DEF Next, Pass

(* Cancellation is final for every row that no pass has past its re-read. *)
THEOREM CancellationAlwaysSticks == Spec => CancellationSticks
<1>1. QueueInv /\ [Next]_vars => [\A a \in Actions : DeadRow(a) => DeadRow(a)']_vars
  BY DeadRowStep
<1> QED
  BY <1>1, QueueInvariant, PTL DEF Spec, CancellationSticks

(* A pass that defers has a nudge in hand, until it settles it. *)
LEMMA DeferralsStep ==
  ASSUME TypeOK, PassesConsistent, DeferralsAreNudges, [Next]_vars
  PROVE  DeferralsAreNudges'
<1>1. ASSUME NEW a \in Actions, NEW d \in Delays, Schedule(a, now + d)
      PROVE  DeferralsAreNudges'
  BY <1>1 DEF Schedule, DeferralsAreNudges, TypeOK, table, local, caseVars
<1>2. ASSUME NEW s \in Cancellable, Cancel(s)
      PROVE  DeferralsAreNudges'
  BY <1>2 DEF Cancel, DeferralsAreNudges, TypeOK, table, local, caseVars
<1>3. ASSUME NEW s \in Scopes, Suppress(s)
      PROVE  DeferralsAreNudges'
  BY <1>3 DEF Suppress, DeferralsAreNudges, TypeOK, table, local, caseVars
<1>4. ASSUME NEW s \in Scopes, Lift(s)
      PROVE  DeferralsAreNudges'
  BY <1>4 DEF Lift, DeferralsAreNudges, TypeOK, table, local, caseVars
<1>5. ASSUME NEW c \in Cases, NEW d \in Promises, Promise(c, d)
      PROVE  DeferralsAreNudges'
  BY <1>5 DEF Promise, DeferralsAreNudges, TypeOK, table, local, caseVars
<1>6. ASSUME NEW c \in Payable, RecoverCancel(c)
      PROVE  DeferralsAreNudges'
  BY <1>6 DEF RecoverCancel, DeferralsAreNudges, TypeOK, table, local, caseVars
<1>7. ASSUME NEW c \in Payable, RecoverClose(c)
      PROVE  DeferralsAreNudges'
  BY <1>7 DEF RecoverClose, DeferralsAreNudges, TypeOK, table, local, caseVars
<1>7a. ASSUME NEW c \in Cases, NEW st \in Diversions, Divert(c, st)
      PROVE  DeferralsAreNudges'
  BY <1>7a DEF Divert, DeferralsAreNudges, TypeOK, table, local, caseVars
<1>7b. ASSUME NEW c \in Cases, Approve(c)
      PROVE  DeferralsAreNudges'
  BY <1>7b DEF Approve, RecordsOf, DeferralsAreNudges, TypeOK, table, local, caseVars
<1>7c. ASSUME NEW c \in Cases, Reject(c)
      PROVE  DeferralsAreNudges'
  BY <1>7c DEF Reject, Divert, DeferralsAreNudges, TypeOK, table, local, caseVars
<1>8. ASSUME Tick
      PROVE  DeferralsAreNudges'
  BY <1>8 DEF Tick, DeferralsAreNudges, TypeOK, table, local, caseVars
<1>9. ASSUME NEW w \in Workers, Reclaim(w)
      PROVE  DeferralsAreNudges'
  BY <1>9 DEF Reclaim, DeferralsAreNudges, TypeOK, table, local, caseVars
<1>10. ASSUME NEW w \in Workers, NEW rows \in SUBSET Due(passNow[w]), Claim(w, rows)
      PROVE  DeferralsAreNudges'
  BY <1>10 DEF Claim, DeferralsAreNudges, TypeOK, table, local, caseVars
<1>11. ASSUME NEW w \in Workers, NEW a \in todo[w], Recheck(w, a)
      PROVE  DeferralsAreNudges'
  BY <1>11 DEF Recheck, DeferralsAreNudges, TypeOK, table, local, caseVars
<1>12. ASSUME NEW w \in Workers, Gate(w)
      PROVE  DeferralsAreNudges'
  <2>1. /\ cur' = cur /\ pc[w] = "gate"
        /\ \/ pc' = [pc EXCEPT ![w] = "execute"] /\ outcome' = outcome
           \/ outcome' = [outcome EXCEPT ![w] = Closed("cancelled", FALSE)]
                /\ pc' = [pc EXCEPT ![w] = "settle"]
           \/ outcome' = [outcome EXCEPT ![w] = Closed("no-adapter", FALSE)]
                /\ pc' = [pc EXCEPT ![w] = "settle"]
    BY <1>12 DEF Gate
  <2>2. /\ \A v \in Workers \ {w} : outcome'[v] = outcome[v] /\ pc'[v] = pc[v]
        /\ \/ outcome'[w] = outcome[w]
           \/ outcome'[w].state \in {"cancelled", "no-adapter"}
    BY <2>1 DEF Closed, TypeOK
  <2>3. outcome[w].state # "pending"
    BY <2>1 DEF DeferralsAreNudges
  <2> QED
    BY <2>1, <2>2, <2>3 DEF DeferralsAreNudges
<1>13. ASSUME NEW w \in Workers, ExecuteRetry(w)
      PROVE  DeferralsAreNudges'
  BY <1>13 DEF ExecuteRetry, RetryOutcome, Closed, DeferralsAreNudges, TypeOK, table, local, caseVars
<1>14. ASSUME NEW w \in Workers, ExecuteNudge(w)
      PROVE  DeferralsAreNudges'
  <2>1. NudgeDeferral(w) = NoOutcome => NudgeDeferral(w).state # "pending"
    BY DEF NoOutcome
  <2> QED
    BY <1>14, <2>1 DEF ExecuteNudge, DeferralsAreNudges, TypeOK, table, local, caseVars
<1>15. ASSUME NEW w \in Workers, Send(w)
      PROVE  DeferralsAreNudges'
  BY <1>15 DEF Send, Closed, DeferralsAreNudges, TypeOK, table, local, caseVars
<1>16. ASSUME NEW w \in Workers, Raise(w)
      PROVE  DeferralsAreNudges'
  BY <1>16 DEF Raise, Closed, DeferralsAreNudges, TypeOK, table, local, caseVars
<1>17. ASSUME NEW w \in Workers, Record(w)
      PROVE  DeferralsAreNudges'
  BY <1>17 DEF Record, IsDebitAttempt, DeferralsAreNudges, TypeOK, table, local, caseVars
<1>18. ASSUME NEW w \in Workers, Count(w)
      PROVE  DeferralsAreNudges'
  BY <1>18 DEF Count, DeferralsAreNudges, TypeOK, table, local, caseVars
<1>19. ASSUME NEW w \in Workers, Settle(w)
      PROVE  DeferralsAreNudges'
  BY <1>19 DEF Settle, NoOutcome, DeferralsAreNudges, TypeOK, table, local, caseVars
<1>20. ASSUME NEW w \in Workers, Hold(w)
      PROVE  DeferralsAreNudges'
  BY <1>20 DEF Hold, DeferralsAreNudges, TypeOK, table, local, caseVars
<1>21. ASSUME NEW w \in Workers, EndPass(w)
      PROVE  DeferralsAreNudges'
  BY <1>21 DEF EndPass, Forget, NoOutcome, DeferralsAreNudges, TypeOK, table, local, caseVars
<1>22. ASSUME NEW w \in Workers, Crash(w)
      PROVE  DeferralsAreNudges'
  BY <1>22 DEF Crash, Forget, NoOutcome, DeferralsAreNudges, TypeOK, table, local, caseVars
<1>23. CASE UNCHANGED vars
  BY <1>23 DEF vars, DeferralsAreNudges, TypeOK, table, local, caseVars
<1> QED
  BY <1>1, <1>2, <1>3, <1>4, <1>5, <1>6, <1>7, <1>7a, <1>7b, <1>7c, <1>8, <1>9, <1>10, <1>11, <1>12,
     <1>13, <1>14, <1>15, <1>16, <1>17, <1>18, <1>19, <1>20, <1>21, <1>22, <1>23 DEF Next, Pass

(* A retry is scheduled outside the bands, and no later write to its row
   moves it: the only writer of a due time is a deferral, and that is of a nudge. *)
LEMMA BandsStep ==
  ASSUME TypeOK, PassesConsistent, DeferralsAreNudges,
         RetriesLandOutsideBands, [Next]_vars
  PROVE  RetriesLandOutsideBands'
<1>1. ASSUME NEW a \in Actions, NEW d \in Delays, Schedule(a, now + d)
      PROVE  RetriesLandOutsideBands'
  <2>1. KindOf[a] = "retry" =>
          IsExecutionAllowed(DueTime(a, now + d), MethodOf[CaseOf[a]])
    BY RetryTimeSound DEF DueTime, TypeOK
  <2> QED
    BY <1>1, <2>1 DEF Schedule, RetriesLandOutsideBands, TypeOK
<1>2. ASSUME NEW s \in Cancellable, Cancel(s)
      PROVE  RetriesLandOutsideBands'
  BY <1>2 DEF Cancel, CancelRows, RetriesLandOutsideBands, TypeOK, table, local, caseVars
<1>3. ASSUME NEW s \in Scopes, Suppress(s)
      PROVE  RetriesLandOutsideBands'
  BY <1>3 DEF Suppress, RetriesLandOutsideBands, TypeOK, table, local, caseVars
<1>4. ASSUME NEW s \in Scopes, Lift(s)
      PROVE  RetriesLandOutsideBands'
  BY <1>4 DEF Lift, RetriesLandOutsideBands, TypeOK, table, local, caseVars
<1>5. ASSUME NEW c \in Cases, NEW d \in Promises, Promise(c, d)
      PROVE  RetriesLandOutsideBands'
  BY <1>5 DEF Promise, RetriesLandOutsideBands, TypeOK, table, local, caseVars
<1>6. ASSUME NEW c \in Payable, RecoverCancel(c)
      PROVE  RetriesLandOutsideBands'
  BY <1>6 DEF RecoverCancel, CancelRows, RetriesLandOutsideBands, TypeOK, table, local, caseVars
<1>7. ASSUME NEW c \in Payable, RecoverClose(c)
      PROVE  RetriesLandOutsideBands'
  BY <1>7 DEF RecoverClose, RetriesLandOutsideBands, TypeOK, table, local, caseVars
<1>7a. ASSUME NEW c \in Cases, NEW st \in Diversions, Divert(c, st)
      PROVE  RetriesLandOutsideBands'
  BY <1>7a DEF Divert, RetriesLandOutsideBands, TypeOK, table, local, caseVars
<1>7b. ASSUME NEW c \in Cases, Approve(c)
      PROVE  RetriesLandOutsideBands'
  BY <1>7b DEF Approve, RecordsOf, RetriesLandOutsideBands, TypeOK, table, local, caseVars
<1>7c. ASSUME NEW c \in Cases, Reject(c)
      PROVE  RetriesLandOutsideBands'
  BY <1>7c DEF Reject, Divert, RetriesLandOutsideBands, TypeOK, table, local, caseVars
<1>8. ASSUME Tick
      PROVE  RetriesLandOutsideBands'
  BY <1>8 DEF Tick, RetriesLandOutsideBands, TypeOK, table, local, caseVars
<1>9. ASSUME NEW w \in Workers, Reclaim(w)
      PROVE  RetriesLandOutsideBands'
  BY <1>9 DEF Reclaim, Expired, RetriesLandOutsideBands, TypeOK, table, local, caseVars
<1>10. ASSUME NEW w \in Workers, NEW rows \in SUBSET Due(passNow[w]), Claim(w, rows)
      PROVE  RetriesLandOutsideBands'
  BY <1>10 DEF Claim, IsBatch, Due, RetriesLandOutsideBands, TypeOK, table, local, caseVars
<1>11. ASSUME NEW w \in Workers, NEW a \in todo[w], Recheck(w, a)
      PROVE  RetriesLandOutsideBands'
  BY <1>11 DEF Recheck, RetriesLandOutsideBands, TypeOK, table, local, caseVars
<1>12. ASSUME NEW w \in Workers, Gate(w)
      PROVE  RetriesLandOutsideBands'
  BY <1>12 DEF Gate, RetriesLandOutsideBands, TypeOK, table, local, caseVars
<1>13. ASSUME NEW w \in Workers, ExecuteRetry(w)
      PROVE  RetriesLandOutsideBands'
  BY <1>13 DEF ExecuteRetry, RetryOutcome, RetriesLandOutsideBands, TypeOK, table, local, caseVars
<1>14. ASSUME NEW w \in Workers, ExecuteNudge(w)
      PROVE  RetriesLandOutsideBands'
  BY <1>14 DEF ExecuteNudge, RetriesLandOutsideBands, TypeOK, table, local, caseVars
<1>15. ASSUME NEW w \in Workers, Send(w)
      PROVE  RetriesLandOutsideBands'
  BY <1>15 DEF Send, RetriesLandOutsideBands, TypeOK, table, local, caseVars
<1>16. ASSUME NEW w \in Workers, Raise(w)
      PROVE  RetriesLandOutsideBands'
  BY <1>16 DEF Raise, RetriesLandOutsideBands, TypeOK, table, local, caseVars
<1>17. ASSUME NEW w \in Workers, Record(w)
      PROVE  RetriesLandOutsideBands'
  BY <1>17 DEF Record, RetriesLandOutsideBands, TypeOK, table, local, caseVars
<1>18. ASSUME NEW w \in Workers, Count(w)
      PROVE  RetriesLandOutsideBands'
  BY <1>18 DEF Count, RetriesLandOutsideBands, TypeOK, table, local, caseVars
<1>19. ASSUME NEW w \in Workers, Settle(w)
      PROVE  RetriesLandOutsideBands'
  <2>1. /\ cur[w] \in Actions
        /\ outcome[w].state \in {"pending", "leased"} => KindOf[cur[w]] = "nudge"
    <3>1. outcome[w].state # "leased"
      BY DEF Outcomes, TypeOK
    <3> QED
      BY <1>19, <3>1, RowInHand DEF Settle, DeferralsAreNudges
  <2>2. \A a \in Actions \ {cur[w]} :
          state'[a] = state[a] /\ scheduled_for'[a] = scheduled_for[a]
    BY <1>19, <2>1 DEF Settle, TypeOK
  <2>3. state'[cur[w]] = outcome[w].state
    BY <1>19, <2>1 DEF Settle, TypeOK
  <2> QED
    BY <2>1, <2>2, <2>3 DEF RetriesLandOutsideBands
<1>20. ASSUME NEW w \in Workers, Hold(w)
      PROVE  RetriesLandOutsideBands'
  BY <1>20 DEF Hold, RetriesLandOutsideBands, TypeOK, table, local, caseVars
<1>21. ASSUME NEW w \in Workers, EndPass(w)
      PROVE  RetriesLandOutsideBands'
  BY <1>21 DEF EndPass, Forget, RetriesLandOutsideBands, TypeOK, table, local, caseVars
<1>22. ASSUME NEW w \in Workers, Crash(w)
      PROVE  RetriesLandOutsideBands'
  BY <1>22 DEF Crash, Forget, RetriesLandOutsideBands, TypeOK, table, local, caseVars
<1>23. CASE UNCHANGED vars
  BY <1>23 DEF vars, RetriesLandOutsideBands, TypeOK, table, local, caseVars
<1> QED
  BY <1>1, <1>2, <1>3, <1>4, <1>5, <1>6, <1>7, <1>7a, <1>7b, <1>7c, <1>8, <1>9, <1>10, <1>11, <1>12,
     <1>13, <1>14, <1>15, <1>16, <1>17, <1>18, <1>19, <1>20, <1>21, <1>22, <1>23 DEF Next, Pass

(* retry_orchestration.feature:10, "Retry lands only in permitted windows": for
   every set of bands, rail and interleaving, while the row is open. *)
THEOREM RetriesAlwaysLandOutsideBands == Spec => []RetriesLandOutsideBands
<1>1. Init => DeferralsAreNudges /\ RetriesLandOutsideBands
  BY DEF Init, NoOutcome, DeferralsAreNudges, RetriesLandOutsideBands
<1>2. /\ QueueInv /\ [Next]_vars
      /\ DeferralsAreNudges /\ RetriesLandOutsideBands
      => (DeferralsAreNudges /\ RetriesLandOutsideBands)'
  BY DeferralsStep, BandsStep DEF QueueInv
<1> QED
  BY <1>1, <1>2, QueueInvariant, PTL DEF Spec

-----------------------------------------------------------------------------
(* What is on record: messages, debit attempts, cases with nobody to work them. *)

(* Of the points of a pass, those past the execution of the row in hand. *)
Late == {"record", "count", "settle", "hold"}

(* A step that writes no record and no count, opens no case but by a person's decision,
   and leaves every pass that has executed its row where it is. *)
QuietStep ==
  /\ UNCHANGED <<audit, sent, retry_count, crashes>> /\ now <= now'
  /\ cleared \subseteq cleared'
  /\ \A c \in Cases :
       caseState'[c] = "open" => caseState[c] = "open" \/ RecordsOf(c) \subseteq cleared'
  /\ \A w \in Workers :
       /\ pc[w] \in Late =>
            /\ pc'[w] = pc[w] /\ cur'[w] = cur[w] /\ passNow'[w] = passNow[w]
            /\ claimNo'[w] = claimNo[w] /\ outcome'[w] = outcome[w]
       /\ pc'[w] = "count" => pc[w] = "count"
       /\ pc'[w] = "record" /\ pc[w] # "record" =>
            (KindOf[cur'[w]] = "retry" => outcome'[w].hold)
       /\ pc'[w] = "send" =>
            /\ cur'[w] = cur[w] /\ passNow'[w] = passNow[w]
            /\ \/ pc[w] = "send"
               \/ KindOf[cur[w]] = "nudge" /\ NudgeDeferral(w) = NoOutcome
       /\ pc'[w] # "idle" =>
            passNow'[w] = IF pc[w] = "idle" THEN now ELSE passNow[w]

(* The runner's own last steps, a send and a death are all that is not quiet. *)
LEMMA QuietOrLate ==
  ASSUME QueueInv, [Next]_vars
  PROVE  \/ QuietStep
         \/ \E w \in Workers : \/ Send(w) \/ Record(w) \/ Count(w)
                              \/ Settle(w) \/ Hold(w) \/ Crash(w)
<1> USE DEF QueueInv, TypeOK, QuietStep, Late, table, local, caseVars
<1>1. ASSUME NEW a \in Actions, NEW d \in Delays, Schedule(a, now + d)
      PROVE  QuietStep
  BY <1>1 DEF Schedule
<1>2. ASSUME NEW s \in Cancellable, Cancel(s)
      PROVE  QuietStep
  BY <1>2 DEF Cancel
<1>3. ASSUME NEW s \in Scopes, Suppress(s)
      PROVE  QuietStep
  BY <1>3 DEF Suppress
<1>4. ASSUME NEW s \in Scopes, Lift(s)
      PROVE  QuietStep
  BY <1>4 DEF Lift
<1>5. ASSUME NEW c \in Cases, NEW d \in Promises, Promise(c, d)
      PROVE  QuietStep
  BY <1>5 DEF Promise
<1>6. ASSUME NEW c \in Payable, RecoverCancel(c)
      PROVE  QuietStep
  BY <1>6 DEF RecoverCancel
<1>7. ASSUME NEW c \in Payable, RecoverClose(c)
      PROVE  QuietStep
  BY <1>7 DEF RecoverClose
<1>7a. ASSUME NEW c \in Cases, NEW st \in Diversions, Divert(c, st)
      PROVE  QuietStep
  BY <1>7a DEF Divert
<1>7b. ASSUME NEW c \in Cases, Approve(c)
      PROVE  QuietStep
  BY <1>7b DEF Approve, RecordsOf
<1>7c. ASSUME NEW c \in Cases, Reject(c)
      PROVE  QuietStep
  BY <1>7c DEF Reject, Divert
<1>8. ASSUME Tick
      PROVE  QuietStep
  BY <1>8 DEF Tick
<1>9. ASSUME NEW w \in Workers, Reclaim(w)
      PROVE  QuietStep
  BY <1>9 DEF Reclaim
<1>10. ASSUME NEW w \in Workers, NEW rows \in SUBSET Due(passNow[w]), Claim(w, rows)
      PROVE  QuietStep
  BY <1>10 DEF Claim
<1>11. ASSUME NEW w \in Workers, NEW a \in todo[w], Recheck(w, a)
      PROVE  QuietStep
  BY <1>11 DEF Recheck
<1>12. ASSUME NEW w \in Workers, Gate(w)
      PROVE  QuietStep
  <2>1. /\ pc[w] = "gate"
        /\ pc' = [pc EXCEPT ![w] = "execute"] \/ pc' = [pc EXCEPT ![w] = "settle"]
        /\ \A v \in Workers \ {w} : outcome'[v] = outcome[v]
        /\ UNCHANGED <<caseVars, audit, passNow, cur, claimNo, now, crashes, sent>>
    BY <1>12 DEF Gate
  <2> QED
    BY <2>1
<1>13. ASSUME NEW w \in Workers, ExecuteRetry(w)
      PROVE  QuietStep
  BY <1>13 DEF ExecuteRetry, RetryOutcome, Closed
<1>14. ASSUME NEW w \in Workers, ExecuteNudge(w)
      PROVE  QuietStep
  BY <1>14 DEF ExecuteNudge
<1>15. ASSUME NEW w \in Workers, Raise(w)
      PROVE  QuietStep
  <2>1. /\ pc[w] \in {"execute", "send"} /\ pc' = [pc EXCEPT ![w] = "settle"]
        /\ \A v \in Workers \ {w} : outcome'[v] = outcome[v]
        /\ UNCHANGED <<caseVars, audit, passNow, cur, claimNo, now, crashes, sent>>
    BY <1>15 DEF Raise
  <2> QED
    BY <2>1
<1>16. ASSUME NEW w \in Workers, EndPass(w)
      PROVE  QuietStep
  BY <1>16 DEF EndPass, Forget
<1>17. CASE UNCHANGED vars
  <2>1. QuietStep
    BY <1>17 DEF vars
  <2> QED
    BY <2>1
<1> HIDE DEF QueueInv, TypeOK, QuietStep, Late, table, local, caseVars
<1> QED
  BY <1>1, <1>2, <1>3, <1>4, <1>5, <1>6, <1>7, <1>7a, <1>7b, <1>7c, <1>8, <1>9, <1>10, <1>11, <1>12, <1>13, <1>14, <1>15, <1>16, <1>17 DEF Next, Pass

(* Of cardinalities: one element more, one element less. *)
LEMMA OneMore ==
  ASSUME NEW S, NEW T, NEW x, IsFiniteSet(S), T = S \cup {x}
  PROVE  /\ IsFiniteSet(T) /\ Cardinality(S) \in Nat /\ Cardinality(T) \in Nat
         /\ x \notin S => Cardinality(T) = Cardinality(S) + 1
         /\ Cardinality(T) <= Cardinality(S) + 1
<1>1. /\ IsFiniteSet(T)
      /\ Cardinality(T) = IF x \in S THEN Cardinality(S) ELSE Cardinality(S) + 1
  BY FS_AddElement
<1>2. Cardinality(S) \in Nat
  BY FS_CardinalityType
<1> QED
  BY <1>1, <1>2

LEMMA OneLess ==
  ASSUME NEW S, NEW T, NEW x, IsFiniteSet(S), T = S \ {x}
  PROVE  /\ IsFiniteSet(T) /\ Cardinality(S) \in Nat /\ Cardinality(T) \in Nat
         /\ x \in S => Cardinality(T) = Cardinality(S) - 1
         /\ Cardinality(T) <= Cardinality(S)
<1>1. /\ IsFiniteSet(T)
      /\ Cardinality(T) = IF x \in S THEN Cardinality(S) - 1 ELSE Cardinality(S)
  BY FS_RemoveElement
<1>2. Cardinality(S) \in Nat /\ Cardinality(T) \in Nat
  BY <1>1, FS_CardinalityType
<1> QED
  BY <1>1, <1>2

(* A set that grows by no more than one element with each death stays within the deaths. *)
LEMMA NoMore ==
  ASSUME NEW S, NEW T, NEW n \in Nat, IsFiniteSet(S), Cardinality(S) <= n, T \subseteq S
  PROVE  IsFiniteSet(T) /\ Cardinality(T) <= n
<1>1. IsFiniteSet(T) /\ Cardinality(T) <= Cardinality(S)
  BY FS_Subset
<1>2. Cardinality(T) \in Nat /\ Cardinality(S) \in Nat
  BY <1>1, FS_CardinalityType
<1> QED
  BY <1>1, <1>2

LEMMA AtMostOneMore ==
  ASSUME NEW S, NEW T, NEW x, NEW n \in Nat, IsFiniteSet(S), Cardinality(S) <= n,
         T \subseteq S \cup {x}
  PROVE  IsFiniteSet(T) /\ Cardinality(T) <= n + 1
<1> DEFINE all == S \cup {x}
<1>1. IsFiniteSet(all) /\ Cardinality(all) <= n + 1
  <2>1. /\ IsFiniteSet(all) /\ Cardinality(S) \in Nat /\ Cardinality(all) \in Nat
        /\ Cardinality(all) <= Cardinality(S) + 1
    BY OneMore
  <2> HIDE DEF all
  <2> QED
    BY <2>1
<1> HIDE DEF all
<1>2. T \subseteq all
  BY DEF all
<1> QED
  BY <1>1, <1>2, NoMore

(* Of the messages that left, those with no record are at most as many as the dead. *)
FewUntraced == IsFiniteSet(Untraced) /\ Cardinality(Untraced) <= crashes

(* A message that is out stays traced: by its record, by its sender, or by a death. *)
LEMMA UntracedStep ==
  ASSUME QueueInv, [Next]_vars
  PROVE  \/ Untraced' \subseteq Untraced /\ crashes' = crashes
         \/ crashes' = crashes + 1 /\ \E x : Untraced' \subseteq Untraced \cup {x}
<1> USE DEF QueueInv, TypeOK
<1>1. ASSUME NEW m \in sent, OnRecord(m), audit \subseteq audit'
      PROVE  OnRecord(m)'
  BY <1>1 DEF OnRecord
<1>2. CASE QuietStep
  <2>1. sent' = sent /\ audit' = audit /\ crashes' = crashes
    BY <1>2 DEF QuietStep
  <2>2. ASSUME NEW v \in Workers, NEW m \in sent, BeingRecorded(v, m)
        PROVE  BeingRecorded(v, m)'
    BY <1>2, <2>2 DEF QuietStep, Late, BeingRecorded
  <2> QED
    BY <1>1, <2>1, <2>2 DEF Untraced
<1>3. ASSUME NEW w \in Workers, Send(w)
      PROVE  Untraced' \subseteq Untraced /\ crashes' = crashes
  <2>0. PICK new : new = [action |-> cur[w], attempt |-> claimNo[w][cur[w]],
                          worker |-> w, clock |-> passNow[w], at |-> now]
    OBVIOUS
  <2>1. cur[w] \in Actions /\ sent' = sent \cup {new} /\ audit' = audit /\ crashes' = crashes
    BY <1>3, <2>0, RowInHand DEF Send
  <2>2. BeingRecorded(w, new)'
    BY <1>3, <2>0, <2>1 DEF Send, Closed, BeingRecorded
  <2>3. ASSUME NEW v \in Workers, NEW m \in sent, BeingRecorded(v, m)
        PROVE  BeingRecorded(v, m)'
    BY <1>3, <2>3 DEF Send, BeingRecorded
  <2> QED
    BY <1>1, <2>1, <2>2, <2>3 DEF Untraced
<1>4. ASSUME NEW w \in Workers, Record(w)
      PROVE  Untraced' \subseteq Untraced /\ crashes' = crashes
  <2>1. sent' = sent /\ audit' = audit \cup {ExecutionRecord(w)} /\ crashes' = crashes
    BY <1>4 DEF Record
  <2>2. ASSUME NEW m \in sent, BeingRecorded(w, m)
        PROVE  OnRecord(m)'
    <3> DEFINE r == ExecutionRecord(w)
    <3>1. /\ r.action = m.action /\ r.attempt = m.attempt
          /\ r.state = "done" /\ r.at = m.clock
      BY <2>2 DEF BeingRecorded, ExecutionRecord
    <3>2. r \in audit'
      BY <2>1
    <3> HIDE DEF r
    <3> QED
      BY <3>1, <3>2 DEF OnRecord
  <2>3. ASSUME NEW v \in Workers \ {w}, NEW m \in sent, BeingRecorded(v, m)
        PROVE  BeingRecorded(v, m)'
    BY <1>4, <2>3 DEF Record, BeingRecorded
  <2> QED
    BY <1>1, <2>1, <2>2, <2>3 DEF Untraced
<1>5. ASSUME NEW w \in Workers, Count(w) \/ Settle(w) \/ Hold(w)
      PROVE  Untraced' \subseteq Untraced /\ crashes' = crashes
  <2>1. /\ sent' = sent /\ audit' = audit /\ crashes' = crashes /\ pc[w] # "record"
        /\ UNCHANGED <<passNow, claimNo>>
        /\ \A v \in Workers \ {w} : pc'[v] = pc[v] /\ cur'[v] = cur[v] /\ outcome'[v] = outcome[v]
    BY <1>5 DEF Count, Settle, Hold, caseVars
  <2>2. ASSUME NEW v \in Workers, NEW m \in sent, BeingRecorded(v, m)
        PROVE  BeingRecorded(v, m)'
    BY <2>1, <2>2 DEF BeingRecorded
  <2> QED
    BY <1>1, <2>1, <2>2 DEF Untraced
<1>6. ASSUME NEW w \in Workers, Crash(w)
      PROVE  crashes' = crashes + 1 /\ \E x : Untraced' \subseteq Untraced \cup {x}
  <2>1. /\ UNCHANGED <<sent, audit>> /\ crashes' = crashes + 1
        /\ \A v \in Workers \ {w} :
             /\ pc'[v] = pc[v] /\ cur'[v] = cur[v] /\ outcome'[v] = outcome[v]
             /\ passNow'[v] = passNow[v] /\ claimNo'[v] = claimNo[v]
    BY <1>6 DEF Crash, Forget
  <2>2. ASSUME NEW m \in Untraced', m \notin Untraced
        PROVE  m \in sent /\ BeingRecorded(w, m)
    <3>1. m \in sent /\ ~OnRecord(m) /\ ~\E v \in Workers : BeingRecorded(v, m)'
      BY <2>1 DEF Untraced, OnRecord
    <3>2. PICK v \in Workers : BeingRecorded(v, m)
      BY <2>2, <3>1 DEF Untraced
    <3>3. v = w
      BY <2>1, <3>1, <3>2 DEF BeingRecorded
    <3> QED
      BY <3>1, <3>2, <3>3
  <2>3. ASSUME NEW m \in sent, NEW q \in sent, BeingRecorded(w, m), BeingRecorded(w, q)
        PROVE  m = q
    <3>1. m.action = q.action /\ m.attempt = q.attempt
      BY <2>3 DEF BeingRecorded
    <3> HIDE DEF QueueInv, TypeOK
    <3> QED
      BY <3>1 DEF QueueInv, AttemptsAreSpentOnce
  <2>4. \E x : Untraced' \subseteq Untraced \cup {x}
    <3>1. CASE Untraced' \subseteq Untraced
      BY <3>1
    <3>2. ASSUME NEW x \in Untraced', x \notin Untraced
          PROVE  Untraced' \subseteq Untraced \cup {x}
      BY <2>2, <2>3, <3>2
    <3> QED
      BY <3>1, <3>2
  <2> QED
    BY <2>1, <2>4
<1> HIDE DEF QueueInv, TypeOK
<1> QED
  BY <1>2, <1>3, <1>4, <1>5, <1>6, QuietOrLate

LEMMA FewUntracedStep ==
  ASSUME QueueInv, FewUntraced, [Next]_vars
  PROVE  FewUntraced'
<1>1. crashes \in Nat /\ IsFiniteSet(Untraced) /\ Cardinality(Untraced) <= crashes
  BY DEF QueueInv, TypeOK, FewUntraced
<1>2. CASE Untraced' \subseteq Untraced /\ crashes' = crashes
  BY <1>1, <1>2, NoMore DEF FewUntraced
<1>3. ASSUME NEW x, Untraced' \subseteq Untraced \cup {x}, crashes' = crashes + 1
      PROVE  FewUntraced'
  BY <1>1, <1>3, AtMostOneMore DEF FewUntraced
<1> QED
  BY <1>2, <1>3, UntracedStep

LEMMA FewUntracedInit == Init => FewUntraced
<1>1. SUFFICES ASSUME Init
               PROVE  FewUntraced
  OBVIOUS
<1>2. Untraced = {} /\ crashes = 0
  BY <1>1 DEF Init, Untraced
<1> QED
  BY <1>2, FS_EmptySet DEF FewUntraced

(* The trail the contact ceiling reads misses a message only while its sender is on the
   way from execute_nudge to _record, and one more for each pass that died there. *)
THEOREM SentAlwaysOnRecord == Spec => []SentIsOnRecord
<1>1. FewUntraced => SentIsOnRecord
  BY DEF FewUntraced, SentIsOnRecord
<1> QED
  BY <1>1, FewUntracedInit, FewUntracedStep, QueueInvariant, PTL DEF Spec

-----------------------------------------------------------------------------
(* Debit attempts: every record of a retry is counted once, by the pass that
   wrote it, between the record and the end of its row. *)

RetriesAreCounted ==
  /\ IsFiniteSet(audit)
  /\ \A c \in Cases :
       /\ IsFiniteSet(Counting(c))
       /\ retry_count[c] + Cardinality(Counting(c)) <= Cardinality(RetriesOnRecord(c))
       /\ crashes = 0 =>
            retry_count[c] + Cardinality(Counting(c)) = Cardinality(RetriesOnRecord(c))

(* A quiet step, a send, a settlement and a hold neither record nor count. *)
LEMMA CountedElsewhere ==
  ASSUME RetriesAreCounted, UNCHANGED <<audit, retry_count, crashes>>,
         \A w \in Workers : pc[w] = "count" => pc'[w] = "count" /\ cur'[w] = cur[w],
         \A w \in Workers : pc'[w] = "count" => pc[w] = "count"
  PROVE  RetriesAreCounted'
<1>1. \A c \in Cases : Counting(c)' = Counting(c) /\ RetriesOnRecord(c)' = RetriesOnRecord(c)
  BY DEF Counting, RetriesOnRecord
<1> QED
  BY <1>1 DEF RetriesAreCounted

LEMMA CountedInit == Init => RetriesAreCounted
<1>1. SUFFICES ASSUME Init
               PROVE  RetriesAreCounted
  OBVIOUS
<1>2. audit = {}
  BY <1>1 DEF Init
<1>3. \A c \in Cases : Counting(c) = {} /\ RetriesOnRecord(c) = {} /\ retry_count[c] = 0
  BY <1>1, <1>2 DEF Init, Counting, RetriesOnRecord
<1>4. IsFiniteSet({}) /\ Cardinality({}) = 0
  BY FS_EmptySet
<1>5. ASSUME NEW c \in Cases
      PROVE  /\ IsFiniteSet(Counting(c))
             /\ retry_count[c] + Cardinality(Counting(c)) = Cardinality(RetriesOnRecord(c))
             /\ retry_count[c] + Cardinality(Counting(c)) <= Cardinality(RetriesOnRecord(c))
  <2>1. Counting(c) = {} /\ RetriesOnRecord(c) = {} /\ retry_count[c] = 0
    BY <1>3
  <2>2. /\ IsFiniteSet(Counting(c)) /\ Cardinality(Counting(c)) = 0
        /\ Cardinality(RetriesOnRecord(c)) = 0
    BY <1>4, <2>1, Zenon
  <2> QED
    BY <2>1, <2>2
<1> QED
  BY <1>2, <1>4, <1>5 DEF RetriesAreCounted

LEMMA CountedStep ==
  ASSUME QueueInv, RetriesAreCounted, [Next]_vars
  PROVE  RetriesAreCounted'
<1> USE DEF QueueInv, TypeOK
<1>1. CASE QuietStep
  BY <1>1, CountedElsewhere DEF QuietStep, Late
<1>2. ASSUME NEW w \in Workers, Send(w) \/ Settle(w) \/ Hold(w)
      PROVE  RetriesAreCounted'
  <2>1. /\ UNCHANGED <<audit, retry_count, crashes>> /\ pc[w] # "count" /\ pc'[w] # "count"
        /\ \A v \in Workers \ {w} : pc'[v] = pc[v] /\ cur'[v] = cur[v]
    <3>1. CASE Send(w)
      BY <3>1 DEF Send, caseVars
    <3>2. CASE Settle(w)
      BY <3>2 DEF Settle, caseVars
    <3>3. CASE Hold(w)
      BY <3>3 DEF Hold, caseVars
    <3> QED
      BY <1>2, <3>1, <3>2, <3>3
  <2> QED
    BY <2>1, CountedElsewhere
<1>3. ASSUME NEW w \in Workers, Record(w)
      PROVE  RetriesAreCounted'
  <2> DEFINE r == ExecutionRecord(w)
  <2>1. /\ cur[w] \in Actions /\ CaseOf[cur[w]] \in Cases
        /\ pc[w] = "record" /\ audit' = audit \cup {r} /\ cur' = cur
        /\ pc' = [pc EXCEPT ![w] = IF IsDebitAttempt(cur[w]) THEN "count" ELSE "settle"]
        /\ UNCHANGED <<retry_count, crashes>>
    BY <1>3, RowInHand DEF Record, caseVars
  <2>2. r.action = cur[w] /\ r.attempt = claimNo[w][cur[w]]
    BY DEF ExecutionRecord
  <2>3. r \notin audit
    BY <2>1, <2>2 DEF ClaimsUnspent, Unrecorded
  <2>4. IsFiniteSet(audit')
    BY <2>1, FS_AddElement DEF RetriesAreCounted
  <2>5. CASE KindOf[cur[w]] # "retry"
    <3>1. /\ \A c \in Cases : Counting(c)' = Counting(c)
          /\ \A c \in Cases : RetriesOnRecord(c)' = RetriesOnRecord(c)
      BY <2>1, <2>2, <2>5 DEF Counting, RetriesOnRecord, IsDebitAttempt
    <3> QED
      BY <2>1, <2>4, <3>1 DEF RetriesAreCounted
  <2>6. CASE KindOf[cur[w]] = "retry"
    <3>0. PICK d \in Cases : d = CaseOf[cur[w]]
      BY <2>1
    <3>1. \A c \in Cases \ {d} :
            Counting(c)' = Counting(c) /\ RetriesOnRecord(c)' = RetriesOnRecord(c)
      BY <2>1, <2>2, <2>6, <3>0 DEF Counting, RetriesOnRecord, IsDebitAttempt
    <3>2. Counting(d)' = Counting(d) \cup {w} /\ w \notin Counting(d)
      BY <2>1, <2>6, <3>0 DEF Counting, IsDebitAttempt
    <3>3. RetriesOnRecord(d)' = RetriesOnRecord(d) \cup {r} /\ r \notin RetriesOnRecord(d)
      BY <2>1, <2>2, <2>3, <2>6, <3>0 DEF RetriesOnRecord
    <3>4. IsFiniteSet(RetriesOnRecord(d)) /\ IsFiniteSet(Counting(d))
      BY FS_Subset DEF RetriesAreCounted, RetriesOnRecord
    <3>5. /\ IsFiniteSet(Counting(d)') /\ Cardinality(Counting(d)) \in Nat
          /\ Cardinality(Counting(d)') = Cardinality(Counting(d)) + 1
      BY <3>2, <3>4, OneMore
    <3>6. /\ Cardinality(RetriesOnRecord(d)) \in Nat
          /\ Cardinality(RetriesOnRecord(d)') = Cardinality(RetriesOnRecord(d)) + 1
      BY <3>3, <3>4, OneMore
    <3>7. \A c \in Cases : retry_count'[c] = retry_count[c] /\ retry_count[c] \in Nat
      BY <2>1
    <3>8. /\ retry_count'[d] + Cardinality(Counting(d)') <= Cardinality(RetriesOnRecord(d)')
          /\ crashes = 0 => retry_count'[d] + Cardinality(Counting(d)')
                              = Cardinality(RetriesOnRecord(d)')
      <4>1. /\ retry_count[d] + Cardinality(Counting(d)) <= Cardinality(RetriesOnRecord(d))
            /\ crashes = 0 => retry_count[d] + Cardinality(Counting(d))
                                = Cardinality(RetriesOnRecord(d))
        BY DEF RetriesAreCounted
      <4> HIDE DEF QueueInv, TypeOK
      <4> QED
        BY <3>5, <3>6, <3>7, <4>1
    <3> QED
      <4>1. ASSUME NEW c \in Cases
            PROVE  /\ IsFiniteSet(Counting(c)')
                   /\ retry_count'[c] + Cardinality(Counting(c)')
                        <= Cardinality(RetriesOnRecord(c)')
                   /\ crashes = 0 => retry_count'[c] + Cardinality(Counting(c)')
                                       = Cardinality(RetriesOnRecord(c)')
        <5>1. CASE c = d
          BY <3>5, <3>8, <5>1
        <5>2. CASE c # d
          BY <3>1, <3>7, <5>2 DEF RetriesAreCounted
        <5> QED
          BY <5>1, <5>2
      <4> HIDE DEF QueueInv, TypeOK
      <4> QED
        BY <2>1, <2>4, <4>1 DEF RetriesAreCounted
  <2> QED
    BY <2>5, <2>6
<1>4. ASSUME NEW w \in Workers, Count(w)
      PROVE  RetriesAreCounted'
  <2>1. cur[w] \in Actions
    BY <1>4, RowInHand DEF Count
  <2>2. PICK d \in Cases : d = CaseOf[cur[w]]
    BY <2>1
  <2>3. /\ pc[w] = "count" /\ cur' = cur
        /\ retry_count' = [retry_count EXCEPT ![d] = retry_count[d] + 1]
        /\ pc' = [pc EXCEPT ![w] = "settle"] /\ UNCHANGED <<audit, crashes>>
    BY <1>4, <2>2 DEF Count, Charged
  <2>4. \A c \in Cases : RetriesOnRecord(c)' = RetriesOnRecord(c)
    BY <2>3 DEF RetriesOnRecord
  <2>5. \A c \in Cases \ {d} : Counting(c)' = Counting(c)
    BY <2>2, <2>3 DEF Counting
  <2>6. Counting(d)' = Counting(d) \ {w} /\ w \in Counting(d) /\ IsFiniteSet(Counting(d))
    BY <2>2, <2>3 DEF Counting, RetriesAreCounted
  <2>7. /\ IsFiniteSet(Counting(d)') /\ Cardinality(Counting(d)) \in Nat
        /\ Cardinality(Counting(d)') = Cardinality(Counting(d)) - 1
    BY <2>6, OneLess
  <2> QED
    BY <2>3, <2>4, <2>5, <2>7 DEF RetriesAreCounted
<1>5. ASSUME NEW w \in Workers, Crash(w)
      PROVE  RetriesAreCounted'
  <2>1. /\ UNCHANGED <<audit, retry_count>> /\ crashes' = crashes + 1
        /\ pc' = [pc EXCEPT ![w] = "idle"] /\ cur' = [cur EXCEPT ![w] = None]
    BY <1>5 DEF Crash, Forget, caseVars
  <2>2. \A c \in Cases : /\ Counting(c)' = Counting(c) \ {w}
                         /\ RetriesOnRecord(c)' = RetriesOnRecord(c)
    BY <2>1 DEF Counting, RetriesOnRecord
  <2>3. ASSUME NEW c \in Cases
        PROVE  /\ IsFiniteSet(Counting(c)')
               /\ Cardinality(Counting(c)') <= Cardinality(Counting(c))
               /\ Cardinality(Counting(c)) \in Nat /\ Cardinality(Counting(c)') \in Nat
    <3>1. IsFiniteSet(Counting(c)) /\ Counting(c)' = Counting(c) \ {w}
      BY <2>2 DEF RetriesAreCounted
    <3> QED
      BY <3>1, OneLess
  <2>4. \A c \in Cases : Cardinality(RetriesOnRecord(c)) \in Nat
    BY FS_Subset, FS_CardinalityType DEF RetriesAreCounted, RetriesOnRecord
  <2>5. crashes' # 0
    BY <2>1
  <2> QED
    BY <2>1, <2>2, <2>3, <2>4, <2>5 DEF RetriesAreCounted
<1> HIDE DEF QueueInv, TypeOK
<1> QED
  BY <1>1, <1>2, <1>3, <1>4, <1>5, QuietOrLate

(* increment_retry_count follows _record in run_due and nothing else calls it: the
   allowance of a case is spent by executions on record, and, unless a pass died
   between the two, by all of them. *)
THEOREM RetryCountAlwaysBacked == Spec => []RetryCountIsBacked
<1>1. Init => RetriesAreCounted
  BY CountedInit
<1>2. QueueInv /\ RetriesAreCounted /\ [Next]_vars => RetriesAreCounted'
  BY CountedStep
<1>3. RetriesAreCounted => RetryCountIsBacked
  BY DEF RetriesAreCounted, RetryCountIsBacked
<1> QED
  BY <1>1, <1>2, <1>3, QueueInvariant, PTL DEF Spec

-----------------------------------------------------------------------------
(* Cases left with nobody to work them. *)

(* Only execute_retry leads a retry to its record, and it always asks for a person. *)
LEMMA HeldStep ==
  ASSUME QueueInv, RetriesAreHeld, [Next]_vars
  PROVE  RetriesAreHeld'
<1> USE DEF QueueInv, TypeOK
<1>1. CASE QuietStep
  <2>1. ASSUME NEW w \in Workers, pc'[w] \in {"record", "count"}, KindOf[cur'[w]] = "retry"
        PROVE  outcome'[w].hold
    <3>1. CASE pc[w] \in {"record", "count"}
      BY <1>1, <2>1, <3>1 DEF QuietStep, Late, RetriesAreHeld
    <3>2. CASE pc[w] \notin {"record", "count"}
      BY <1>1, <2>1, <3>2 DEF QuietStep
    <3> QED
      BY <3>1, <3>2
  <2>2. \A w \in Workers : pc'[w] = "send" => KindOf[cur'[w]] = "nudge"
    BY <1>1 DEF QuietStep, RetriesAreHeld
  <2> QED
    BY <2>1, <2>2 DEF RetriesAreHeld
<1>2. ASSUME NEW w \in Workers, Send(w)
      PROVE  RetriesAreHeld'
  <2>1. KindOf[cur[w]] # "retry"
    BY <1>2 DEF Send, RetriesAreHeld
  <2> QED
    BY <1>2, <2>1 DEF Send, RetriesAreHeld
<1>3. ASSUME NEW w \in Workers, Record(w)
      PROVE  RetriesAreHeld'
  BY <1>3 DEF Record, RetriesAreHeld
<1>4. ASSUME NEW w \in Workers, Count(w) \/ Settle(w) \/ Hold(w)
      PROVE  RetriesAreHeld'
  <2>1. /\ pc'[w] \notin {"record", "count", "send"}
        /\ \A v \in Workers \ {w} : pc'[v] = pc[v] /\ cur'[v] = cur[v] /\ outcome'[v] = outcome[v]
    BY <1>4 DEF Count, Settle, Hold
  <2> QED
    BY <2>1 DEF RetriesAreHeld
<1>5. ASSUME NEW w \in Workers, Crash(w)
      PROVE  RetriesAreHeld'
  BY <1>5 DEF Crash, Forget, RetriesAreHeld
<1> HIDE DEF QueueInv, TypeOK
<1> QED
  BY <1>1, <1>2, <1>3, <1>4, <1>5, QuietOrLate

(* Of the executed retries no person was told of, at most one for each death. *)
FewUnrouted == IsFiniteSet(Unrouted) /\ Cardinality(Unrouted) <= crashes

(* A record that is unrouted after a step was so before, except the one that a pass
   that dies had just written. *)
LEMMA UnroutedStep ==
  ASSUME QueueInv, RetriesAreHeld, [Next]_vars
  PROVE  \/ Unrouted' \subseteq Unrouted /\ crashes' = crashes
         \/ crashes' = crashes + 1 /\ \E x : Unrouted' \subseteq Unrouted \cup {x}
<1> USE DEF QueueInv, TypeOK
<1>1. CASE QuietStep
  <2>1. UNCHANGED <<audit, crashes>> /\ cleared \subseteq cleared'
    BY <1>1 DEF QuietStep
  <2>2. \A v \in Workers, r \in audit : Routing(v, r) => Routing(v, r)'
    BY <1>1 DEF QuietStep, Late, Routing
  <2>3. ASSUME NEW r \in audit, r \notin cleared', caseState'[CaseOf[r.action]] = "open"
        PROVE  caseState[CaseOf[r.action]] = "open"
    <3>1. CaseOf[r.action] \in Cases /\ r \in RecordsOf(CaseOf[r.action])
      BY DEF Executions, RecordsOf
    <3> QED
      BY <1>1, <2>3, <3>1 DEF QuietStep
  <2> QED
    BY <2>1, <2>2, <2>3 DEF Unrouted
<1>2. ASSUME NEW w \in Workers, Send(w) \/ Count(w) \/ Settle(w)
      PROVE  Unrouted' \subseteq Unrouted /\ crashes' = crashes
  <2>1. /\ UNCHANGED <<audit, cleared, crashes, caseState, claimNo>>
        /\ \A v \in Workers \ {w} : pc'[v] = pc[v] /\ cur'[v] = cur[v] /\ outcome'[v] = outcome[v]
    <3>0. /\ pc = [v \in Workers |-> pc[v]] /\ cur = [v \in Workers |-> cur[v]]
          /\ outcome = [v \in Workers |-> outcome[v]]
      OBVIOUS
    <3> HIDE DEF QueueInv, TypeOK
    <3>1. CASE Send(w)
      BY <3>1, <3>0 DEF Send, caseVars
    <3>2. CASE Count(w)
      BY <3>2, <3>0 DEF Count
    <3>3. CASE Settle(w)
      <4>1. /\ UNCHANGED <<audit, cleared, crashes, caseState, claimNo>>
            /\ outcome' = [outcome EXCEPT ![w] = NoOutcome]
        BY <3>3 DEF Settle, caseVars
      <4>2. \/ pc' = [pc EXCEPT ![w] = "hold"] /\ cur' = cur
            \/ pc' = [pc EXCEPT ![w] = "next"] /\ cur' = [cur EXCEPT ![w] = None]
        BY <3>3 DEF Settle
      <4> QED
        BY <4>1, <4>2, <3>0
    <3> QED
      BY <1>2, <3>1, <3>2, <3>3
  <2>2. ASSUME NEW r \in audit, Routing(w, r)
        PROVE  Routing(w, r)'
    <3>1. CASE Send(w)
      BY <2>2, <3>1 DEF Send, Routing
    <3>2. CASE Count(w)
      BY <2>2, <3>2 DEF Count, Routing
    <3>3. CASE Settle(w)
      BY <2>2, <3>3 DEF Settle, Routing
    <3> QED
      BY <1>2, <3>1, <3>2, <3>3
  <2>3. \A v \in Workers \ {w}, r \in audit : Routing(v, r) => Routing(v, r)'
    BY <2>1 DEF Routing
  <2>4. \A v \in Workers, r \in audit : Routing(v, r) => Routing(v, r)'
    BY <2>2, <2>3
  <2> HIDE DEF QueueInv, TypeOK
  <2> QED
    BY <2>1, <2>4 DEF Unrouted
<1>3. ASSUME NEW w \in Workers, Record(w)
      PROVE  Unrouted' \subseteq Unrouted /\ crashes' = crashes
  <2>0. PICK new : new = ExecutionRecord(w)
    OBVIOUS
  <2>1. /\ audit' = audit \cup {new} /\ new.action = cur[w]
        /\ new.attempt = claimNo[w][cur[w]]
        /\ pc[w] = "record" /\ UNCHANGED <<cur, claimNo, outcome, cleared, caseState, crashes>>
        /\ pc' = [pc EXCEPT ![w] = IF IsDebitAttempt(cur[w]) THEN "count" ELSE "settle"]
    BY <1>3, <2>0 DEF Record, ExecutionRecord, caseVars
  <2>2. KindOf[cur[w]] = "retry" => Routing(w, new)'
    BY <2>1 DEF RetriesAreHeld, Routing, IsDebitAttempt
  <2>3. \A v \in Workers, r \in audit : Routing(v, r) => Routing(v, r)'
    BY <2>1 DEF Routing
  <2>4. ASSUME NEW r \in Unrouted'
        PROVE  r \in Unrouted
    <3>1. /\ r \in audit \cup {new} /\ r \notin cleared /\ KindOf[r.action] = "retry"
          /\ caseState[CaseOf[r.action]] = "open"
          /\ \A v \in Workers : ~Routing(v, r)'
      BY <2>1 DEF Unrouted
    <3>2. r # new
      BY <2>1, <2>2, <3>1
    <3> HIDE DEF QueueInv, TypeOK
    <3> QED
      BY <2>3, <3>1, <3>2 DEF Unrouted
  <2> QED
    BY <2>1, <2>4
<1>4. ASSUME NEW w \in Workers, Hold(w)
      PROVE  Unrouted' \subseteq Unrouted /\ crashes' = crashes
  <2>1. cur[w] \in Actions
    BY <1>4, RowInHand DEF Hold
  <2>2. /\ UNCHANGED <<audit, cleared, crashes, claimNo>>
        /\ caseState' = [caseState EXCEPT ![CaseOf[cur[w]]] = "held-for-human"]
        /\ \A v \in Workers \ {w} : pc'[v] = pc[v] /\ cur'[v] = cur[v] /\ outcome'[v] = outcome[v]
    BY <1>4 DEF Hold
  <2>3. ASSUME NEW v \in Workers, NEW r \in audit, Routing(v, r),
               caseState'[CaseOf[r.action]] = "open"
        PROVE  Routing(v, r)'
    <3>1. v # w
      BY <2>1, <2>2, <2>3 DEF Routing
    <3> QED
      BY <2>2, <2>3, <3>1 DEF Routing
  <2>4. \A r \in audit : caseState'[CaseOf[r.action]] = "open" => caseState[CaseOf[r.action]] = "open"
    BY <2>1, <2>2 DEF Executions
  <2> HIDE DEF QueueInv, TypeOK
  <2> QED
    BY <2>2, <2>3, <2>4 DEF Unrouted
<1>5. ASSUME NEW w \in Workers, Crash(w)
      PROVE  crashes' = crashes + 1 /\ \E x : Unrouted' \subseteq Unrouted \cup {x}
  <2>1. /\ UNCHANGED <<audit, cleared, caseState>> /\ crashes' = crashes + 1
        /\ \A v \in Workers \ {w} :
             /\ pc'[v] = pc[v] /\ cur'[v] = cur[v] /\ outcome'[v] = outcome[v]
             /\ claimNo'[v] = claimNo[v]
    BY <1>5 DEF Crash, Forget, caseVars
  <2>2. ASSUME NEW r \in Unrouted', r \notin Unrouted
        PROVE  r \in audit /\ Routing(w, r)
    <3>1. PICK v \in Workers : Routing(v, r)
      BY <2>1, <2>2 DEF Unrouted
    <3>2. v = w
      <4>1. ~Routing(v, r)'
        BY <2>2 DEF Unrouted
      <4> QED
        BY <2>1, <3>1, <4>1 DEF Routing
    <3> QED
      BY <2>1, <3>1, <3>2 DEF Unrouted
  <2>3. ASSUME NEW r \in audit, NEW q \in audit, Routing(w, r), Routing(w, q)
        PROVE  r = q
    <3>1. r.action = q.action /\ r.attempt = q.attempt
      BY <2>3 DEF Routing
    <3> HIDE DEF QueueInv, TypeOK
    <3> QED
      BY <3>1 DEF QueueInv, AttemptsAreSpentOnce
  <2>4. \E x : Unrouted' \subseteq Unrouted \cup {x}
    <3>1. CASE Unrouted' \subseteq Unrouted
      BY <3>1
    <3>2. ASSUME NEW x \in Unrouted', x \notin Unrouted
          PROVE  Unrouted' \subseteq Unrouted \cup {x}
      BY <2>2, <2>3, <3>2
    <3> QED
      BY <3>1, <3>2
  <2> QED
    BY <2>1, <2>4
<1> HIDE DEF QueueInv, TypeOK
<1> QED
  BY <1>1, <1>2, <1>3, <1>4, <1>5, QuietOrLate

LEMMA FewUnroutedStep ==
  ASSUME QueueInv, RetriesAreHeld, FewUnrouted, [Next]_vars
  PROVE  FewUnrouted'
<1>1. crashes \in Nat /\ IsFiniteSet(Unrouted) /\ Cardinality(Unrouted) <= crashes
  BY DEF QueueInv, TypeOK, FewUnrouted
<1>2. CASE Unrouted' \subseteq Unrouted /\ crashes' = crashes
  BY <1>1, <1>2, NoMore DEF FewUnrouted
<1>3. ASSUME NEW x, Unrouted' \subseteq Unrouted \cup {x}, crashes' = crashes + 1
      PROVE  FewUnrouted'
  BY <1>1, <1>3, AtMostOneMore DEF FewUnrouted
<1> QED
  BY <1>2, <1>3, UnroutedStep

(* runner.py:39, "Records why, and routes the case to a person": until a person decides
   about the case, an executed retry is on the way to a hold or its case is out of
   automation, except one for each pass that died between _record and set_state. *)
THEOREM AttemptedAlwaysRouted == Spec => []AttemptedIsRouted
<1>1. Init => RetriesAreHeld /\ FewUnrouted
  <2>1. SUFFICES ASSUME Init
                 PROVE  RetriesAreHeld /\ FewUnrouted
    OBVIOUS
  <2>2. Unrouted = {} /\ crashes = 0 /\ RetriesAreHeld
    BY <2>1 DEF Init, Unrouted, RetriesAreHeld
  <2> QED
    BY <2>2, FS_EmptySet DEF FewUnrouted
<1>2. QueueInv /\ RetriesAreHeld /\ FewUnrouted /\ [Next]_vars
        => (RetriesAreHeld /\ FewUnrouted)'
  BY HeldStep, FewUnroutedStep
<1>3. FewUnrouted => AttemptedIsRouted
  BY DEF FewUnrouted, AttemptedIsRouted
<1> QED
  BY <1>1, <1>2, <1>3, QueueInvariant, PTL DEF Spec

-----------------------------------------------------------------------------
(* The contact ceiling, when passes do not overlap and none dies. *)

NudgesSent(customer, since) ==
  {q \in sent : CustomerOf[CaseOf[q.action]] = customer /\ q.clock > since}

(* What contact_budget counts on the trail is at least what has left. *)
LEMMA TrailCoversSent ==
  ASSUME QueueInv, IsFiniteSet(audit), NEW k, NEW t \in Nat,
         \A m \in sent : OnRecord(m) /\ KindOf[m.action] = "nudge"
  PROVE  LET S == NudgesSent(k, t - ContactWindow)
             T == InsideWindow(ContactsSince(k, t - ContactWindow), t)
         IN  /\ IsFiniteSet(S) /\ IsFiniteSet(T)
             /\ Cardinality(S) \in Nat /\ Cardinality(T) \in Nat
             /\ Cardinality(S) <= Cardinality(T)
<1> DEFINE S == NudgesSent(k, t - ContactWindow)
           T == InsideWindow(ContactsSince(k, t - ContactWindow), t)
           OfMessage(q, r) == /\ r.action = q.action /\ r.attempt = q.attempt
                              /\ r.state = "done" /\ r.at = q.clock
           f == [q \in S |-> CHOOSE r \in audit : OfMessage(q, r)]
<1>1. IsFiniteSet(T) /\ T \subseteq audit
  BY FS_Subset DEF InsideWindow, ContactsSince
<1>2. ASSUME NEW q \in S
      PROVE  f[q] \in audit /\ OfMessage(q, f[q])
  <2>1. \E r \in audit : OfMessage(q, r)
    BY DEF NudgesSent, OnRecord
  <2> HIDE DEF OfMessage
  <2> QED
    BY <2>1
<1>3. ASSUME NEW q \in S
      PROVE  f[q] \in T
  <2>1. /\ q.clock \in Nat /\ q.clock > t - ContactWindow /\ ContactWindow \in Nat
        /\ CustomerOf[CaseOf[q.action]] = k /\ KindOf[q.action] = "nudge"
    BY ContactAssumption DEF NudgesSent, QueueInv, TypeOK, Messages, ContactAssumption
  <2>2. /\ f[q].at > t - ContactWindow /\ f[q].at >= t - ContactWindow
        /\ CustomerOf[CaseOf[f[q].action]] = k /\ KindOf[f[q].action] = "nudge"
    <3> HIDE DEF f, S, T
    <3> QED
      BY <1>2, <2>1
  <2> HIDE DEF f, S
  <2> QED
    BY <1>2, <2>2 DEF InsideWindow, ContactsSince
<1>4. ASSUME NEW p \in S, NEW q \in S, f[p] = f[q]
      PROVE  p = q
  <2>1. p \in sent /\ q \in sent
    BY DEF NudgesSent
  <2>2. p.action = q.action /\ p.attempt = q.attempt
    <3> HIDE DEF f, S
    <3> QED
      BY <1>2, <1>4
  <2> QED
    BY <2>1, <2>2 DEF QueueInv, AttemptsAreSpentOnce
<1>5. f \in Injection(S, T)
  <2>1. f \in [S -> T]
    BY <1>3
  <2> QED
    BY <1>4, <2>1 DEF Injection, IsInjective
<1>6. IsFiniteSet(S) /\ Cardinality(S) <= Cardinality(T)
  <2> HIDE DEF f, S, T
  <2> QED
    BY <1>1, <1>5, FS_Injection
<1> QED
  BY <1>1, <1>6, FS_CardinalityType

(* With one pass, the trail at the send is the trail the budget was asked of, and
   every message so far left under a clock no later than that of the pass. *)
LoneSender(w) ==
  /\ SendsAreBudgeted
  /\ \A m \in sent : /\ KindOf[m.action] = "nudge" /\ m.clock <= now
                     /\ pc[w] # "idle" => m.clock <= passNow[w]

LEMMA LoneSenderStep ==
  ASSUME QueueInv, RetriesAreHeld, NEW w \in Workers, Workers = {w}, LoneSender(w), [Next]_vars
  PROVE  LoneSender(w)'
<1> USE DEF QueueInv, TypeOK
<1>1. CASE QuietStep
  <2>1. ASSUME pc'[w] = "send"
        PROVE  BudgetAllowed(ContactsSince(CustomerOf[CaseOf[cur[w]]],
                                           passNow[w] - ContactWindow), passNow[w])
    <3>1. CASE pc[w] = "send"
      BY <3>1 DEF LoneSender, SendsAreBudgeted
    <3>2. CASE NudgeDeferral(w) = NoOutcome
      BY <3>2 DEF NudgeDeferral, NoOutcome, Deferred
    <3> QED
      BY <1>1, <2>1, <3>1, <3>2 DEF QuietStep
  <2>2. SendsAreBudgeted'
    <3>1. /\ \A customer, since : ContactsSince(customer, since)' = ContactsSince(customer, since)
          /\ pc'[w] = "send" => cur'[w] = cur[w] /\ passNow'[w] = passNow[w]
      BY <1>1 DEF QuietStep, ContactsSince
    <3> QED
      BY <2>1, <3>1 DEF SendsAreBudgeted
  <2>3. ASSUME NEW m \in sent
        PROVE  /\ m.clock <= now'
               /\ pc'[w] # "idle" => m.clock <= passNow'[w]
    <3>1. m.clock \in Nat /\ m.clock <= now /\ (pc[w] # "idle" => m.clock <= passNow[w])
      BY DEF LoneSender, Messages
    <3>2. /\ now <= now' /\ now' \in Nat
          /\ pc'[w] # "idle" => passNow'[w] = IF pc[w] = "idle" THEN now ELSE passNow[w]
      BY <1>1, TypeStep DEF QuietStep
    <3> QED
      BY <3>1, <3>2
  <2> QED
    BY <1>1, <2>2, <2>3 DEF QuietStep, LoneSender
<1>2. ASSUME Send(w)
      PROVE  LoneSender(w)'
  <2>0. PICK new : new = [action |-> cur[w], attempt |-> claimNo[w][cur[w]],
                          worker |-> w, clock |-> passNow[w], at |-> now]
    OBVIOUS
  <2>1. /\ sent' = sent \cup {new} /\ KindOf[new.action] = "nudge"
        /\ new.clock = passNow[w] /\ passNow[w] <= now
        /\ pc'[w] = "record" /\ passNow' = passNow /\ now' = now /\ pc[w] # "idle"
    BY <1>2, <2>0 DEF Send, RetriesAreHeld, PassesConsistent
  <2> QED
    BY <2>1 DEF LoneSender, SendsAreBudgeted
<1>3. ASSUME Record(w) \/ Count(w) \/ Settle(w) \/ Hold(w)
      PROVE  LoneSender(w)'
  <2>1. pc'[w] # "send" /\ sent' = sent /\ now' = now /\ passNow' = passNow /\ pc[w] # "idle"
    BY <1>3 DEF Record, Count, Settle, Hold
  <2> QED
    BY <2>1 DEF LoneSender, SendsAreBudgeted
<1>4. ASSUME Crash(w)
      PROVE  LoneSender(w)'
  <2>1. pc'[w] = "idle" /\ sent' = sent /\ now' = now
    BY <1>4 DEF Crash, Forget
  <2> QED
    BY <2>1 DEF LoneSender, SendsAreBudgeted
<1> HIDE DEF QueueInv, TypeOK
<1> QED
  BY <1>1, <1>2, <1>3, <1>4, QuietOrLate

(* A send adds one message to a window that the budget found short of the ceiling. *)
LEMMA CeilingStep ==
  ASSUME QueueInv, RetriesAreHeld, FewUntraced, IsFiniteSet(audit),
         NEW w \in Workers, Workers = {w}, LoneSender(w),
         crashes = 0 => ContactCeiling, crashes' = 0, [Next]_vars
  PROVE  ContactCeiling'
<1> USE DEF QueueInv, TypeOK
<1>1. CASE sent' = sent /\ crashes = 0
  BY <1>1 DEF ContactCeiling
<1>2. ASSUME Send(w)
      PROVE  ContactCeiling'
  <2>0. PICK new : new = [action |-> cur[w], attempt |-> claimNo[w][cur[w]],
                          worker |-> w, clock |-> passNow[w], at |-> now]
    OBVIOUS
  <2>1. PICK k : k = CustomerOf[CaseOf[cur[w]]]
    OBVIOUS
  <2>2. PICK t \in Nat : t = passNow[w]
    OBVIOUS
  <2>3. /\ sent' = sent \cup {new} /\ new.clock = t /\ CustomerOf[CaseOf[new.action]] = k
        /\ pc[w] = "send" /\ crashes = 0
    BY <1>2, <2>0, <2>1, <2>2 DEF Send
  <2> DEFINE S == NudgesSent(k, t - ContactWindow)
             T == InsideWindow(ContactsSince(k, t - ContactWindow), t)
             Window(m) == {q \in sent : /\ CustomerOf[CaseOf[q.action]] = CustomerOf[CaseOf[m.action]]
                                        /\ q.clock <= m.clock
                                        /\ q.clock > m.clock - ContactWindow}
             After(m) == {q \in sent \cup {new} :
                            /\ CustomerOf[CaseOf[q.action]] = CustomerOf[CaseOf[m.action]]
                            /\ q.clock <= m.clock
                            /\ q.clock > m.clock - ContactWindow}
  <2>4. \A m \in sent : OnRecord(m) /\ KindOf[m.action] = "nudge" /\ m.clock <= t /\ m.clock \in Nat
    <3>1. Untraced = {}
      BY <2>3, FS_EmptySet, FS_CardinalityType DEF FewUntraced
    <3> QED
      BY <2>2, <2>3, <3>1 DEF Untraced, BeingRecorded, LoneSender, Messages
  <2>5. /\ IsFiniteSet(S) /\ IsFiniteSet(T)
        /\ Cardinality(S) \in Nat /\ Cardinality(T) \in Nat
        /\ Cardinality(S) <= Cardinality(T)
    <3> HIDE DEF QueueInv, TypeOK
    <3> QED
      BY <2>4, TrailCoversSent
  <2>6. Cardinality(T) < ContactMax
    BY <2>1, <2>2, <2>3 DEF LoneSender, SendsAreBudgeted, BudgetAllowed
  <2>7. ContactMax \in Nat /\ ContactWindow \in Nat \ {0}
    BY ContactAssumption DEF ContactAssumption
  <2>8. IsFiniteSet(S \cup {new}) /\ Cardinality(S \cup {new}) <= ContactMax
    <3>1. IsFiniteSet(S \cup {new}) /\ Cardinality(S \cup {new}) \in Nat
          /\ Cardinality(S \cup {new}) <= Cardinality(S) + 1
      <4> HIDE DEF S, T
      <4> QED
        BY <2>5, OneMore
    <3> HIDE DEF S, T
    <3> QED
      BY <2>5, <2>6, <2>7, <3>1
  <2>9. ASSUME NEW m \in sent \cup {new}
        PROVE  Cardinality(After(m)) <= ContactMax
    <3>1. CASE m.clock = t /\ CustomerOf[CaseOf[m.action]] = k
      <4>1. After(m) \subseteq S \cup {new}
        BY <3>1 DEF NudgesSent
      <4>2. /\ Cardinality(After(m)) <= Cardinality(S \cup {new})
            /\ Cardinality(After(m)) \in Nat /\ Cardinality(S \cup {new}) \in Nat
        BY <2>8, <4>1, FS_Subset, FS_CardinalityType
      <4> HIDE DEF S, After
      <4> QED
        BY <2>7, <2>8, <4>2
    <3>2. CASE ~(m.clock = t /\ CustomerOf[CaseOf[m.action]] = k)
      <4>1. m \in sent
        BY <2>3, <3>2
      <4>2. m.clock \in Nat /\ m.clock <= t
        BY <2>4, <4>1
      <4>3. ~(new.clock <= m.clock /\ CustomerOf[CaseOf[new.action]] = CustomerOf[CaseOf[m.action]])
        BY <2>3, <3>2, <4>2
      <4>4. After(m) = Window(m)
        BY <4>3
      <4>5. Cardinality(Window(m)) <= ContactMax
        BY <2>3, <4>1 DEF ContactCeiling
      <4> QED
        BY <4>4, <4>5
    <3> QED
      BY <3>1, <3>2
  <2> QED
    BY <2>3, <2>9 DEF ContactCeiling
<1>3. (sent' = sent /\ crashes = 0) \/ Send(w)
  <2>1. CASE QuietStep
    BY <2>1 DEF QuietStep
  <2>2. CASE Record(w) \/ Count(w) \/ Settle(w) \/ Hold(w)
    BY <2>2 DEF Record, Count, Settle, Hold
  <2>3. CASE Crash(w)
    BY <2>3 DEF Crash
  <2> HIDE DEF QueueInv, TypeOK
  <2> QED
    BY <2>1, <2>2, <2>3, QuietOrLate
<1> QED
  BY <1>1, <1>2, <1>3

(* windows.py contact_budget and _record in execute_nudge: as long as passes of
   run_due do not overlap and none has died, no customer receives more than
   ContactMax messages in any window, whichever of their cases they are about.
   (The run ceiling_race shows that two overlapping passes can exceed it.) *)
THEOREM LonePassKeepsCeiling ==
  ASSUME NEW w, Workers = {w}
  PROVE  Spec => [](crashes = 0 => ContactCeiling)
<1> DEFINE CeilingInv == /\ RetriesAreHeld /\ FewUntraced /\ RetriesAreCounted
                         /\ LoneSender(w) /\ (crashes = 0 => ContactCeiling)
<1>1. w \in Workers
  OBVIOUS
<1>2. Init => CeilingInv
  <2>1. SUFFICES ASSUME Init
                 PROVE  CeilingInv
    OBVIOUS
  <2>2. sent = {} /\ pc[w] = "idle"
    BY <1>1, <2>1 DEF Init
  <2>3. RetriesAreHeld /\ SendsAreBudgeted
    BY <2>1 DEF Init, RetriesAreHeld, SendsAreBudgeted
  <2> QED
    BY <2>1, <2>2, <2>3, CountedInit, FewUntracedInit DEF LoneSender, ContactCeiling
<1>3. QueueInv /\ CeilingInv /\ [Next]_vars => CeilingInv'
  <2>1. SUFFICES ASSUME QueueInv, CeilingInv, [Next]_vars
                 PROVE  CeilingInv'
    OBVIOUS
  <2>2. RetriesAreHeld' /\ FewUntraced' /\ RetriesAreCounted'
    BY <2>1, HeldStep, FewUntracedStep, CountedStep
  <2>3. LoneSender(w)'
    BY <1>1, <2>1, LoneSenderStep
  <2>4. IsFiniteSet(audit)
    BY <2>1 DEF RetriesAreCounted
  <2>5. crashes' = 0 => ContactCeiling'
    BY <1>1, <2>1, <2>4, CeilingStep
  <2> QED
    BY <2>2, <2>3, <2>5
<1> QED
  BY <1>2, <1>3, QueueInvariant, PTL DEF Spec

-----------------------------------------------------------------------------
(* The queue implements the ledger of attempts. *)

(* An empty table is an empty ledger. *)
LEMMA LedgerInit == Init => Ledger!Init
  BY DEF Init, Ledger!Init

(* A step that touches no column and no record the ledger sees is a stutter. *)
LEMMA LedgerStutter ==
  ASSUME UNCHANGED <<attempts, audit>>,
         \A a \in Actions : state'[a] = "absent" <=> state[a] = "absent"
  PROVE  UNCHANGED Ledger!vars
  BY DEF Ledger!vars

(* schedule_action arms a row, a claim issues attempts, an execution record
   spends one; every other step leaves the ledger as it is. *)
LEMMA LedgerStep ==
  ASSUME QueueInv, [Next]_vars
  PROVE  [Ledger!Next]_(Ledger!vars)
<1>1. ASSUME NEW a \in Actions, NEW d \in Delays, Schedule(a, now + d)
      PROVE  [Ledger!Next]_(Ledger!vars)
  <2>1. /\ {b \in Actions : state'[b] # "absent"} = {b \in Actions : state[b] # "absent"} \cup {a}
        /\ a \notin {b \in Actions : state[b] # "absent"}
        /\ UNCHANGED <<attempts, audit>>
    BY <1>1 DEF Schedule, QueueInv, TypeOK
  <2>2. Ledger!Arm(a)
    BY <2>1 DEF Ledger!Arm
  <2> QED
    BY <2>2 DEF Ledger!Next
<1>2. ASSUME NEW s \in Cancellable, Cancel(s)
      PROVE  [Ledger!Next]_(Ledger!vars)
  BY <1>2, LedgerStutter DEF Cancel, CancelRows, QueueInv, TypeOK, table, local, caseVars
<1>3. ASSUME NEW s \in Scopes, Suppress(s)
      PROVE  [Ledger!Next]_(Ledger!vars)
  BY <1>3, LedgerStutter DEF Suppress, QueueInv, TypeOK, table, local, caseVars
<1>4. ASSUME NEW s \in Scopes, Lift(s)
      PROVE  [Ledger!Next]_(Ledger!vars)
  BY <1>4, LedgerStutter DEF Lift, QueueInv, TypeOK, table, local, caseVars
<1>5. ASSUME NEW c \in Cases, NEW d \in Promises, Promise(c, d)
      PROVE  [Ledger!Next]_(Ledger!vars)
  BY <1>5, LedgerStutter DEF Promise, QueueInv, TypeOK, table, local, caseVars
<1>6. ASSUME NEW c \in Payable, RecoverCancel(c)
      PROVE  [Ledger!Next]_(Ledger!vars)
  BY <1>6, LedgerStutter DEF RecoverCancel, CancelRows, QueueInv, TypeOK, table, local, caseVars
<1>7. ASSUME NEW c \in Payable, RecoverClose(c)
      PROVE  [Ledger!Next]_(Ledger!vars)
  BY <1>7, LedgerStutter DEF RecoverClose, QueueInv, TypeOK, table, local, caseVars
<1>7a. ASSUME NEW c \in Cases, NEW st \in Diversions, Divert(c, st)
      PROVE  [Ledger!Next]_(Ledger!vars)
  BY <1>7a, LedgerStutter DEF Divert, QueueInv, TypeOK, table, local, caseVars
<1>7b. ASSUME NEW c \in Cases, Approve(c)
      PROVE  [Ledger!Next]_(Ledger!vars)
  BY <1>7b, LedgerStutter DEF Approve, RecordsOf, QueueInv, TypeOK, table, local, caseVars
<1>7c. ASSUME NEW c \in Cases, Reject(c)
      PROVE  [Ledger!Next]_(Ledger!vars)
  BY <1>7c, LedgerStutter DEF Reject, Divert, QueueInv, TypeOK, table, local, caseVars
<1>8. ASSUME Tick
      PROVE  [Ledger!Next]_(Ledger!vars)
  BY <1>8, LedgerStutter DEF Tick, QueueInv, TypeOK, table, local, caseVars
<1>9. ASSUME NEW w \in Workers, Reclaim(w)
      PROVE  [Ledger!Next]_(Ledger!vars)
  BY <1>9, LedgerStutter DEF Reclaim, Expired, QueueInv, TypeOK, table, local, caseVars
<1>10. ASSUME NEW w \in Workers, NEW rows \in SUBSET Due(passNow[w]), Claim(w, rows)
      PROVE  [Ledger!Next]_(Ledger!vars)
  <2>1. /\ rows \subseteq {b \in Actions : state[b] # "absent"}
        /\ \A b \in Actions : state'[b] = "absent" <=> state[b] = "absent"
        /\ UNCHANGED audit
        /\ attempts' = [b \in Actions |-> IF b \in rows THEN attempts[b] + 1 ELSE attempts[b]]
    BY <1>10 DEF Claim, IsBatch, Due, QueueInv, TypeOK
  <2>2. Ledger!Issue(rows)
    BY <2>1 DEF Ledger!Issue
  <2>3. rows \in SUBSET Actions
    BY <2>1
  <2> QED
    BY <2>2, <2>3 DEF Ledger!Next
<1>11. ASSUME NEW w \in Workers, NEW a \in todo[w], Recheck(w, a)
      PROVE  [Ledger!Next]_(Ledger!vars)
  BY <1>11, LedgerStutter DEF Recheck, QueueInv, TypeOK, table, local, caseVars
<1>12. ASSUME NEW w \in Workers, Gate(w)
      PROVE  [Ledger!Next]_(Ledger!vars)
  BY <1>12, LedgerStutter DEF Gate, QueueInv, TypeOK, table, local, caseVars
<1>13. ASSUME NEW w \in Workers, ExecuteRetry(w)
      PROVE  [Ledger!Next]_(Ledger!vars)
  BY <1>13, LedgerStutter DEF ExecuteRetry, RetryOutcome, QueueInv, TypeOK, table, local, caseVars
<1>14. ASSUME NEW w \in Workers, ExecuteNudge(w)
      PROVE  [Ledger!Next]_(Ledger!vars)
  BY <1>14, LedgerStutter DEF ExecuteNudge, QueueInv, TypeOK, table, local, caseVars
<1>15. ASSUME NEW w \in Workers, Send(w)
      PROVE  [Ledger!Next]_(Ledger!vars)
  BY <1>15, LedgerStutter DEF Send, QueueInv, TypeOK, table, local, caseVars
<1>16. ASSUME NEW w \in Workers, Raise(w)
      PROVE  [Ledger!Next]_(Ledger!vars)
  BY <1>16, LedgerStutter DEF Raise, QueueInv, TypeOK, table, local, caseVars
<1>17. ASSUME NEW w \in Workers, Record(w)
      PROVE  [Ledger!Next]_(Ledger!vars)
  <2> DEFINE n == claimNo[w][cur[w]]
  <2>1. /\ cur[w] \in Actions /\ Unrecorded(w, cur[w]) /\ Holds(w, cur[w])
        /\ audit' = audit \cup {ExecutionRecord(w)}
        /\ UNCHANGED <<state, attempts>>
    BY <1>17 DEF Record, QueueInv, PassesConsistent, Unrecorded, Holds, TypeOK, table
  <2>2. /\ ExecutionRecord(w).action = cur[w] /\ ExecutionRecord(w).attempt = n
        /\ ExecutionRecord(w).worker = w
    BY DEF ExecutionRecord
  <2>3. n \in 1 .. attempts[cur[w]]
    BY <2>1 DEF QueueInv, ClaimsDistinct, TypeOK
  <2>4. \A r \in audit : r.action = cur[w] => r.attempt # n
    BY <2>1 DEF QueueInv, ClaimsUnspent
  <2>5. \A v \in Workers : <<cur[w], n, v>> \notin {<<r.action, r.attempt, r.worker>> : r \in audit}
    BY <2>4
  <2>6. {<<r.action, r.attempt, r.worker>> : r \in audit'}
          = {<<r.action, r.attempt, r.worker>> : r \in audit} \cup {<<cur[w], n, w>>}
    BY <2>1, <2>2
  <2>7. Ledger!Execute(cur[w], n, w)
    BY <2>1, <2>3, <2>5, <2>6 DEF Ledger!Execute
  <2> QED
    BY <2>1, <2>3, <2>7 DEF Ledger!Next
<1>18. ASSUME NEW w \in Workers, Count(w)
      PROVE  [Ledger!Next]_(Ledger!vars)
  BY <1>18, LedgerStutter DEF Count, QueueInv, TypeOK, table, local, caseVars
<1>19. ASSUME NEW w \in Workers, Settle(w)
      PROVE  [Ledger!Next]_(Ledger!vars)
  <2>1. /\ cur[w] \in Actions /\ Holds(w, cur[w]) /\ outcome[w].state # "absent"
        /\ state' = [state EXCEPT ![cur[w]] = outcome[w].state]
        /\ UNCHANGED <<attempts, audit>>
    BY <1>19 DEF Settle, QueueInv, PassesConsistent, Holds, Outcomes, TypeOK
  <2>2. state[cur[w]] # "absent"
    BY <2>1 DEF QueueInv, ClaimsDistinct
  <2> QED
    BY <2>1, <2>2, LedgerStutter DEF QueueInv, TypeOK
<1>20. ASSUME NEW w \in Workers, Hold(w)
      PROVE  [Ledger!Next]_(Ledger!vars)
  BY <1>20, LedgerStutter DEF Hold, QueueInv, TypeOK, table, local, caseVars
<1>21. ASSUME NEW w \in Workers, EndPass(w)
      PROVE  [Ledger!Next]_(Ledger!vars)
  BY <1>21, LedgerStutter DEF EndPass, Forget, QueueInv, TypeOK, table, local, caseVars
<1>22. ASSUME NEW w \in Workers, Crash(w)
      PROVE  [Ledger!Next]_(Ledger!vars)
  BY <1>22, LedgerStutter DEF Crash, Forget, QueueInv, TypeOK, table, local, caseVars
<1>23. CASE UNCHANGED vars
  BY <1>23, LedgerStutter DEF vars, QueueInv, TypeOK, table, local, caseVars
<1> QED
  BY <1>1, <1>2, <1>3, <1>4, <1>5, <1>6, <1>7, <1>7a, <1>7b, <1>7c, <1>8, <1>9, <1>10, <1>11, <1>12,
     <1>13, <1>14, <1>15, <1>16, <1>17, <1>18, <1>19, <1>20, <1>21, <1>22, <1>23 DEF Next, Pass

(* store.py and runner.py together implement AttemptLedger: an execution is
   always of an armed row, under an issued attempt that nobody executed. *)
THEOREM QueueImplementsLedger == Spec => ImplementsLedger
  BY LedgerInit, LedgerStep, QueueInvariant, PTL DEF Spec, ImplementsLedger, Ledger!Spec
=============================================================================
