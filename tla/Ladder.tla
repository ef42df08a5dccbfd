-------------------------------- MODULE Ladder --------------------------------
(***************************************************************************)
(* The intervention ladder (shell/ladder.py): where a diagnosis joins it,  *)
(* what comes above a rung, and whether a rung is worth its cost.          *)
(* customer_ltv_paise, refused_channels and success_rates are never passed *)
(* by the agent and are left out.                                          *)
(***************************************************************************)
EXTENDS Integers

CONSTANTS
  Cost,       \* cost of each rung, in rupees
  Success     \* DEFAULT_SUCCESS of each rung, in percent

SilentRetry == 1
Nudge == 2
Reauthorisation == 3
VoiceCall == 4
HumanCallback == 5
Rungs == SilentRetry .. HumanCallback
NoRung == 0

ASSUME LadderAssumption ==
  /\ Cost \in [Rungs -> Nat]
  /\ Success \in [Rungs -> 1 .. 99]

(* SLUG: the kind under which an action of a rung is scheduled *)
Slug(rung) ==
  CASE rung = SilentRetry -> "silent-retry"
    [] rung = Nudge -> "nudge"
    [] rung = Reauthorisation -> "reauthorisation"
    [] rung = VoiceCall -> "voice-call"
    [] rung = HumanCallback -> "human-callback"

(* mutation: everything starts at the bottom *)
EntryAtTheBottom(class) ==
  CASE class \in {"recoverable-technical", "mandate-state-broken"} -> SilentRetry
    [] class \in {"recoverable-balance", "notification-gap"} -> Nudge
    [] OTHER -> NoRung

(* mutation: whatever no intervention applies to gets a message *)
EntryForAll(class) ==
  CASE class = "recoverable-technical" -> SilentRetry
    [] class = "mandate-state-broken" -> Reauthorisation
    [] OTHER -> Nudge

EntryRung(class) ==
  CASE class = "recoverable-technical" -> SilentRetry
    [] class \in {"recoverable-balance", "notification-gap"} -> Nudge
    [] class = "mandate-state-broken" -> Reauthorisation
    [] OTHER -> NoRung

RungsAbove(rung) == {r \in Rungs : r > rung}

(* next_rung, repeated until a rung has an executor: the lowest one above, if any *)
NextExecutable(rung, executors) ==
  LET reachable == {r \in RungsAbove(rung) : rung # NoRung /\ Slug(r) \in executors}
  IN IF reachable = {} THEN NoRung
     ELSE CHOOSE r \in reachable : \A q \in reachable : r <= q

(* evaluate: free, or cheaper than the stake and than what it is expected to bring *)
Approved(rung, stake) ==
  \/ Cost[rung] = 0
  \/ Cost[rung] < stake /\ Success[rung] * stake > 100 * Cost[rung]
=============================================================================
