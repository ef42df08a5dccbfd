----------------------------- MODULE AmountLimits -----------------------------
(***************************************************************************)
(* Whether an amount may be debited at all (shell/limits.py): what the     *)
(* customer consented to first, then what the rail lets through without    *)
(* them.  bfsi is never passed by the agent and is left out.               *)
(***************************************************************************)
EXTENDS Integers

CONSTANTS FrictionlessUpi, UpiMandateMax, CardRecurringMax, EmandateMax

ASSUME LimitAssumption ==
  /\ FrictionlessUpi \in Nat /\ UpiMandateMax \in Nat
  /\ CardRecurringMax \in Nat /\ EmandateMax \in Nat

NoCeiling == -1   \* no mandate_max_paise on the signal

(* any method without a rule of its own is "other" *)
Methods == {"card", "upi", "emandate", "nach", "netbanking", "other"}

(* mutation: the ceiling the customer agreed to is not asked about *)
NeverExceeds(amount, ceiling) == FALSE

ExceedsMandate(amount, ceiling) == ceiling # NoCeiling /\ amount > ceiling

LimitOutcome(amount, method, ceiling) ==
  CASE amount <= 0 -> "would-fail"
    [] amount > 0 /\ ExceedsMandate(amount, ceiling) -> "exceeds-mandate"
    [] amount > 0 /\ ~ExceedsMandate(amount, ceiling) ->
         CASE method = "card" ->
                IF amount > CardRecurringMax THEN "would-fail" ELSE "permitted"
           [] method = "upi" ->
                IF amount > UpiMandateMax THEN "would-fail"
                ELSE IF amount > FrictionlessUpi THEN "needs-additional-auth"
                ELSE "permitted"
           [] method \in {"emandate", "nach", "netbanking"} ->
                IF amount > EmandateMax THEN "would-fail" ELSE "permitted"
           [] OTHER -> IF amount > FrictionlessUpi THEN "would-fail" ELSE "permitted"

MayAttempt(amount, method, ceiling) ==
  LimitOutcome(amount, method, ceiling) = "permitted"
=============================================================================
