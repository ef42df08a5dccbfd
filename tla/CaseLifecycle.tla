---------------------------- MODULE CaseLifecycle ----------------------------
(***************************************************************************)
(* What the agent promises about the state of a case, without diagnoses,   *)
(* stops, replies or a queue.  Automation opens a case once and from then  *)
(* on only takes it further out of its own hands: it is worked on again    *)
(* when a person clears it ("nothing here expires into a yes", review.py), *)
(* never because an event was repeated, a date was named or time passed.   *)
(* "Recovered" is said of a case only with a payment.                      *)
(***************************************************************************)
CONSTANT Cases

VARIABLES
  state,     \* the state of each case
  cleared,   \* cases a person cleared
  settled    \* cases that were paid

vars == <<state, cleared, settled>>

Terminal == {"unrecovered", "closed-revoked", "closed-false-failure"}

Init ==
  /\ state = [c \in Cases |-> "absent"]
  /\ cleared = {}
  /\ settled = {}

(* a failure is seen for the first time *)
Open(c) ==
  /\ state[c] = "absent"
  /\ state' = [state EXCEPT ![c] = "open"]
  /\ UNCHANGED <<cleared, settled>>

(* out of automation: to a person, or to no one *)
Leave(c, s) ==
  /\ s \in Terminal \cup {"held-for-human"}
  /\ state' = [state EXCEPT ![c] = s]
  /\ UNCHANGED <<cleared, settled>>

(* a person decides that work goes on; it may be over again at once *)
Clear(c, s) ==
  /\ state[c] # "absent"
  /\ s \in Terminal \cup {"open", "held-for-human"}
  /\ cleared' = cleared \cup {c}
  /\ state' = [state EXCEPT ![c] = s]
  /\ UNCHANGED settled

(* a payment may be reported more than once *)
Pay(c) ==
  /\ state[c] # "absent"
  /\ settled' = settled \cup {c}
  /\ state' = [state EXCEPT ![c] = "recovered"]
  /\ UNCHANGED cleared

Next ==
  \E c \in Cases :
    \/ Open(c) \/ Pay(c)
    \/ \E s \in Terminal \cup {"held-for-human"} : Leave(c, s)
    \/ \E s \in Terminal \cup {"open", "held-for-human"} : Clear(c, s)

Spec == Init /\ [][Next]_vars
=============================================================================
