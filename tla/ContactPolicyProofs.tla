------------------------- MODULE ContactPolicyProofs -------------------------
(***************************************************************************)
(* What next_allowed_contact promises, for every shape of the day: the     *)
(* instant it returns is permitted, is not before the one it was given,    *)
(* and no permitted instant lies between the two.                          *)
(***************************************************************************)
EXTENDS ContactPolicy, FiniteSetTheorems, WellFoundedInduction, TLAPS

(* A time is a date and a time of day, in the ranges of datetime. *)
LEMMA Split ==
  ASSUME NEW t \in Nat
  PROVE  /\ DateOf(t) \in Nat /\ TimeOfDay(t) \in 0 .. (Day - 1)
         /\ t = Day * DateOf(t) + TimeOfDay(t)
  BY ContactAssumption DEF DateOf, TimeOfDay, ContactAssumption

(* datetime.combine and its inverses. *)
LEMMA CombineSplits ==
  ASSUME NEW date \in Nat, NEW time \in Nat, time < Day
  PROVE  /\ Combine(date, time) \in Nat
         /\ DateOf(Combine(date, time)) = date
         /\ TimeOfDay(Combine(date, time)) = time
  BY ContactAssumption DEF DateOf, TimeOfDay, Combine, ContactAssumption

(* next_allowed_contact returns a permitted instant, not before the given one. *)
THEOREM NextAllowedContactSound ==
  ASSUME NEW t \in Nat
  PROVE  /\ NextAllowedContact(t) \in Nat
         /\ NextAllowedContact(t) >= t
         /\ IsContactAllowed(NextAllowedContact(t))
<1>1. CASE IsContactAllowed(t)
  BY <1>1 DEF NextAllowedContact
<1>2. CASE ~IsContactAllowed(t) /\ TimeOfDay(t) >= ContactClose
  <2> DEFINE d == DateOf(t) + 1
  <2>1. d \in Nat /\ Combine(d, ContactOpen) = NextAllowedContact(t)
    BY <1>2, Split DEF NextAllowedContact
  <2>2. TimeOfDay(Combine(d, ContactOpen)) = ContactOpen /\ Combine(d, ContactOpen) \in Nat
    BY <2>1, CombineSplits, ContactAssumption DEF ContactAssumption
  <2>3. Combine(d, ContactOpen) >= t
    <3>1. d * Day = Day * DateOf(t) + Day
      BY Split, ContactAssumption DEF ContactAssumption
    <3> QED
      BY <3>1, Split, ContactAssumption DEF Combine, ContactAssumption
  <2> QED
    BY <2>1, <2>2, <2>3, ContactAssumption DEF IsContactAllowed, ContactAssumption
<1>3. CASE ~IsContactAllowed(t) /\ ~(TimeOfDay(t) >= ContactClose)
  <2> DEFINE d == DateOf(t)
  <2>1. d \in Nat /\ Combine(d, ContactOpen) = NextAllowedContact(t)
    BY <1>3, Split DEF NextAllowedContact
  <2>2. TimeOfDay(Combine(d, ContactOpen)) = ContactOpen /\ Combine(d, ContactOpen) \in Nat
    BY <2>1, CombineSplits, ContactAssumption DEF ContactAssumption
  <2>3. TimeOfDay(t) < ContactOpen
    BY <1>3, Split, ContactAssumption DEF IsContactAllowed, ContactAssumption
  <2>4. Combine(d, ContactOpen) >= t
    <3>1. d * Day = Day * DateOf(t)
      BY Split, ContactAssumption DEF ContactAssumption
    <3> QED
      BY <2>3, <3>1, Split, ContactAssumption DEF Combine, ContactAssumption
  <2> QED
    BY <2>1, <2>2, <2>4, ContactAssumption DEF IsContactAllowed, ContactAssumption
<1> QED
  BY <1>1, <1>2, <1>3

(* ... and the first such instant: nothing permitted is skipped. *)
THEOREM NextAllowedContactEarliest ==
  ASSUME NEW t \in Nat, NEW u \in Nat, t <= u, u < NextAllowedContact(t)
  PROVE  ~IsContactAllowed(u)
<1> DEFINE dt == DateOf(t)  du == DateOf(u)
<1> SUFFICES ASSUME IsContactAllowed(u)
             PROVE  FALSE
  OBVIOUS
<1>1. ~IsContactAllowed(t)
  BY DEF NextAllowedContact
<1>2. /\ dt \in Nat /\ du \in Nat
      /\ TimeOfDay(t) \in 0 .. (Day - 1) /\ TimeOfDay(u) \in 0 .. (Day - 1)
      /\ t = Day * dt + TimeOfDay(t) /\ u = Day * du + TimeOfDay(u)
  BY Split
<1>3. dt <= du
  <2> SUFFICES ASSUME du + 1 <= dt
               PROVE  FALSE
    BY <1>2
  <2>1. Day * (du + 1) <= Day * dt
    BY <1>2, ContactAssumption DEF ContactAssumption
  <2>2. Day * (du + 1) = Day * du + Day
    BY <1>2, ContactAssumption DEF ContactAssumption
  <2> HIDE DEF dt, du
  <2> QED
    BY <1>2, <2>1, <2>2, ContactAssumption DEF ContactAssumption
<1>4. CASE TimeOfDay(t) >= ContactClose
  <2>1. u < (dt + 1) * Day + ContactOpen
    BY <1>1, <1>4 DEF NextAllowedContact, Combine
  <2>2. (dt + 1) * Day = Day * dt + Day
    BY <1>2, ContactAssumption DEF ContactAssumption
  <2>3. du = dt \/ du = dt + 1 \/ du >= dt + 2
    BY <1>2, <1>3
  <2>4. CASE du = dt
    BY <1>2, <1>4, <2>4, ContactAssumption DEF IsContactAllowed, ContactAssumption
  <2>5. CASE du = dt + 1
    <3>1. Day * du = Day * dt + Day
      BY <1>2, <2>5, ContactAssumption DEF ContactAssumption
    <3> HIDE DEF dt, du
    <3> QED
      BY <1>2, <2>1, <2>2, <3>1, ContactAssumption DEF IsContactAllowed, ContactAssumption
  <2>6. CASE du >= dt + 2
    <3>1. Day * du >= Day * (dt + 2)
      BY <1>2, <2>6, ContactAssumption DEF ContactAssumption
    <3>2. Day * (dt + 2) = Day * dt + Day + Day
      BY <1>2, ContactAssumption DEF ContactAssumption
    <3> HIDE DEF dt, du
    <3> QED
      BY <1>2, <2>1, <2>2, <3>1, <3>2, ContactAssumption DEF ContactAssumption
  <2> QED
    BY <2>3, <2>4, <2>5, <2>6
<1>5. CASE ~(TimeOfDay(t) >= ContactClose)
  <2>1. u < dt * Day + ContactOpen
    BY <1>1, <1>5 DEF NextAllowedContact, Combine
  <2>2. dt * Day = Day * dt
    BY <1>2, ContactAssumption DEF ContactAssumption
  <2>3. CASE du = dt
    <3> HIDE DEF dt, du
    <3> QED
      BY <1>2, <2>1, <2>2, <2>3, ContactAssumption DEF IsContactAllowed, ContactAssumption
  <2>4. CASE du >= dt + 1
    <3>1. Day * du >= Day * (dt + 1)
      BY <1>2, <2>4, ContactAssumption DEF ContactAssumption
    <3>2. Day * (dt + 1) = Day * dt + Day
      BY <1>2, ContactAssumption DEF ContactAssumption
    <3> HIDE DEF dt, du
    <3> QED
      BY <1>2, <2>1, <2>2, <3>1, <3>2, ContactAssumption DEF ContactAssumption
  <2> QED
    BY <1>2, <1>3, <2>3, <2>4
<1> QED
  BY <1>4, <1>5

(* A nonempty set of times has an earliest one. *)
LEMMA EarliestExists ==
  ASSUME NEW T, T \subseteq Nat, T # {}
  PROVE  \E x \in T : \A y \in T : x <= y
<1> DEFINE R == {p \in Nat \X Nat : p[1] < p[2]}
<1>1. IsWellFoundedOn(R, Nat)
  BY NatLessThanWellFounded DEF OpToRel
<1>2. PICK x \in T : \A y \in T : ~ (<<y, x>> \in R)
  <2> HIDE DEF R
  <2> QED
    BY <1>1, WFMin
<1>3. ASSUME NEW y \in T
      PROVE  x <= y
  <2>1. x \in Nat /\ y \in Nat /\ ~(<<y, x>> \in R)
    BY <1>2
  <2> QED
    BY <2>1
<1> QED
  BY <1>3

(* contact_budget: when the ceiling is reached, the instant the budget frees is
   a permitted instant, and later than the one at which it was asked: a nudge
   over budget is deferred, never due again at once. *)
THEOREM BudgetFreesLater ==
  ASSUME NEW recent, NEW t \in Nat, \A r \in recent : r.at \in Nat,
         ~BudgetAllowed(recent, t)
  PROVE  /\ BudgetFreeAt(recent, t) \in Nat
         /\ BudgetFreeAt(recent, t) > t
         /\ IsContactAllowed(BudgetFreeAt(recent, t))
<1> DEFINE inside == InsideWindow(recent, t)
           ats == {r.at : r \in inside}
<1>1. ats # {} /\ ats \subseteq Nat
  <2>1. inside # {}
    <3>1. Cardinality({}) = 0
      BY FS_EmptySet
    <3> QED
      BY <3>1, ContactAssumption DEF BudgetAllowed, ContactAssumption
  <2> QED
    BY <2>1 DEF InsideWindow
<1>2. PICK x \in ats : \A y \in ats : x <= y
  <2> HIDE DEF ats
  <2> QED
    BY <1>1, EarliestExists
<1>3. /\ OldestInside(recent, t) \in ats
  <2>1. \A r \in inside : x <= r.at
    BY <1>2
  <2> QED
    BY <2>1 DEF OldestInside
<1>4. OldestInside(recent, t) \in Nat /\ OldestInside(recent, t) > t - ContactWindow
  BY <1>1, <1>3 DEF InsideWindow
<1>5. OldestInside(recent, t) + ContactWindow \in Nat
      /\ OldestInside(recent, t) + ContactWindow > t
  BY <1>4, ContactAssumption DEF ContactAssumption
<1> QED
  BY <1>5, NextAllowedContactSound DEF BudgetFreeAt
=============================================================================
