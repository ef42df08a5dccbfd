---------------------------- MODULE ContactPolicy ----------------------------
(***************************************************************************)
(* When a customer may be messaged (shell/windows.py): contact hours, and  *)
(* the ceiling of ContactMax messages in ContactWindow counted over every  *)
(* case of the customer.  Time is a natural number of slots; a day is Day  *)
(* slots, and a time is split into a date and a time of day as the code    *)
(* splits a datetime.                                                      *)
(***************************************************************************)
EXTENDS Integers, FiniteSets

CONSTANTS
  Day,            \* slots in a day
  ContactOpen,    \* first slot of the day in which contact is permitted
  ContactClose,   \* first slot of the day in which it no longer is
  ContactWindow,  \* contact_window of policy.yaml, in slots
  ContactMax      \* contact_max_per_window of policy.yaml

ASSUME ContactAssumption ==
  /\ Day \in Nat \ {0}
  /\ ContactOpen \in Nat /\ ContactClose \in Nat
  /\ ContactOpen < ContactClose /\ ContactClose <= Day
  /\ ContactWindow \in Nat \ {0}
  /\ ContactMax \in Nat \ {0}

DateOf(t) == t \div Day
TimeOfDay(t) == t % Day
Combine(date, time) == date * Day + time

IsContactAllowed(t) ==
  ContactOpen <= TimeOfDay(t) /\ TimeOfDay(t) < ContactClose

NextAllowedContact(t) ==
  IF IsContactAllowed(t) THEN t
  ELSE Combine(IF TimeOfDay(t) >= ContactClose THEN DateOf(t) + 1 ELSE DateOf(t),
               ContactOpen)

(***************************************************************************)
(* contact_budget.  "recent" is a set of audit rows with an "at" field:    *)
(* two rows of one instant are two messages.                               *)
(***************************************************************************)
InsideWindow(recent, t) == {r \in recent : r.at > t - ContactWindow}

BudgetAllowed(recent, t) == Cardinality(InsideWindow(recent, t)) < ContactMax

OldestInside(recent, t) ==
  CHOOSE at \in {r.at : r \in InsideWindow(recent, t)} :
    \A r \in InsideWindow(recent, t) : at <= r.at

BudgetFreeAt(recent, t) ==
  NextAllowedContact(OldestInside(recent, t) + ContactWindow)
=============================================================================
