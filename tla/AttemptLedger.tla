---------------------------- MODULE AttemptLedger ----------------------------
(***************************************************************************)
(* What the action queue promises, without passes, leases or a clock.      *)
(* Delivery is at-least-once (runner.py, "Leasing, not locking"): a row    *)
(* may be executed again and again, but only after it was armed, each time *)
(* under an attempt issued for it, and no attempt is executed twice.       *)
(***************************************************************************)
EXTENDS Integers

CONSTANTS Actions, Workers

VARIABLES
  armed,     \* rows that were scheduled
  issued,    \* attempts issued for each row so far
  executed   \* <<row, attempt, worker>>: who executed which attempt

vars == <<armed, issued, executed>>

Init ==
  /\ armed = {}
  /\ issued = [a \in Actions |-> 0]
  /\ executed = {}

Arm(a) ==
  /\ a \notin armed
  /\ armed' = armed \cup {a}
  /\ UNCHANGED <<issued, executed>>

(* attempts are issued in order, one per row and claim *)
Issue(rows) ==
  /\ rows \subseteq armed
  /\ issued' = [a \in Actions |-> IF a \in rows THEN issued[a] + 1 ELSE issued[a]]
  /\ UNCHANGED <<armed, executed>>

Execute(a, n, w) ==
  /\ n \in 1 .. issued[a]
  /\ \A v \in Workers : <<a, n, v>> \notin executed
  /\ executed' = executed \cup {<<a, n, w>>}
  /\ UNCHANGED <<armed, issued>>

Next ==
  \/ \E a \in Actions : Arm(a)
  \/ \E rows \in SUBSET Actions : Issue(rows)
  \/ \E a \in Actions, w \in Workers : \E n \in 1 .. issued[a] : Execute(a, n, w)

Spec == Init /\ [][Next]_vars
=============================================================================
