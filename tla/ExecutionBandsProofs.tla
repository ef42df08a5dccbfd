------------------------- MODULE ExecutionBandsProofs -------------------------
(***************************************************************************)
(* What schedule_retry promises about the bands, for every shape of the    *)
(* day and every request.                                                  *)
(***************************************************************************)
EXTENDS ExecutionBands, ContactPolicyProofs

(* The end of the band a time lies in: later, the same day, in no band. *)
LEMMA EndOfBand ==
  ASSUME NEW t \in Nat, NEW b \in Bands, InBand(t, b)
  PROVE  LET e == Combine(DateOf(t), b[2])
         IN /\ e \in Nat /\ e > t
            /\ DateOf(e) = DateOf(t) /\ TimeOfDay(e) = b[2]
            /\ \A c \in Bands : ~InBand(e, c)
<1> DEFINE e == Combine(DateOf(t), b[2])
<1>1. b[1] \in Nat /\ b[2] \in Nat /\ b[1] < b[2] /\ b[2] < Day
  BY BandAssumption DEF BandAssumption
<1>2. DateOf(t) \in Nat
  BY Split
<1>3. e \in Nat /\ DateOf(e) = DateOf(t) /\ TimeOfDay(e) = b[2]
  BY <1>1, <1>2, CombineSplits
<1>4. e > t
  <2>0. TimeOfDay(t) \in 0 .. (Day - 1)
    BY Split
  <2>1. TimeOfDay(t) < b[2] /\ TimeOfDay(t) \in Nat
    <3>1. TimeOfDay(t) < b[2]
      BY DEF InBand
    <3> QED
      BY <2>0, <3>1, ContactAssumption DEF ContactAssumption
  <2>2. e = Day * DateOf(t) + b[2]
    BY <1>1, <1>2, ContactAssumption DEF Combine, ContactAssumption
  <2>3. t = Day * DateOf(t) + TimeOfDay(t)
    BY Split
  <2>4. Day * DateOf(t) \in Nat
    BY <1>2, ContactAssumption DEF ContactAssumption
  <2> HIDE DEF e
  <2> QED
    BY <1>1, <2>1, <2>2, <2>3, <2>4
<1>5. ASSUME NEW c \in Bands, InBand(e, c)
      PROVE  FALSE
  <2>1. c[1] \in Nat /\ c[2] \in Nat /\ c[1] < c[2]
    BY BandAssumption DEF BandAssumption
  <2>2. c[1] <= b[2] /\ b[2] < c[2]
    BY <1>3, <1>5 DEF InBand
  <2>3. b = c \/ b[2] < c[1] \/ c[2] < b[1]
    BY BandAssumption DEF BandAssumption
  <2> QED
    BY <1>1, <2>1, <2>2, <2>3
<1> QED
  BY <1>3, <1>4, <1>5

(* The band next_allowed_execution moves a time out of is one the time lies in. *)
LEMMA BandFound ==
  ASSUME NEW t \in Nat, NEW method, ~IsExecutionAllowed(t, method)
  PROVE  \E b \in Bands : /\ InBand(t, b)
                          /\ NextAllowedExecution(t, method) = Combine(DateOf(t), b[2])
<1> DEFINE b == CHOOSE band \in Bands : InBand(t, band)
<1>1. \E band \in Bands : InBand(t, band)
  BY DEF IsExecutionAllowed
<1>2. b \in Bands /\ InBand(t, b)
  BY <1>1
<1> QED
  BY <1>2 DEF NextAllowedExecution

(* next_allowed_execution returns a permitted instant of the same day, not before
   the given one. *)
THEOREM NextAllowedExecutionSound ==
  ASSUME NEW t \in Nat, NEW method
  PROVE  /\ NextAllowedExecution(t, method) \in Nat
         /\ NextAllowedExecution(t, method) >= t
         /\ DateOf(NextAllowedExecution(t, method)) = DateOf(t)
         /\ IsExecutionAllowed(NextAllowedExecution(t, method), method)
<1>1. CASE IsExecutionAllowed(t, method)
  BY <1>1 DEF NextAllowedExecution
<1>2. CASE ~IsExecutionAllowed(t, method)
  <2>1. PICK b \in Bands : /\ InBand(t, b)
                           /\ NextAllowedExecution(t, method) = Combine(DateOf(t), b[2])
    BY <1>2, BandFound
  <2> DEFINE e == Combine(DateOf(t), b[2])
  <2>2. e \in Nat /\ e > t /\ DateOf(e) = DateOf(t) /\ \A c \in Bands : ~InBand(e, c)
    BY <2>1, EndOfBand
  <2>3. IsExecutionAllowed(e, method)
    BY <2>2 DEF IsExecutionAllowed
  <2> HIDE DEF e
  <2> QED
    BY <2>1, <2>2, <2>3 DEF e
<1> QED
  BY <1>1, <1>2

(* ... and no permitted instant is skipped on the way. *)
THEOREM NextAllowedExecutionEarliest ==
  ASSUME NEW t \in Nat, NEW method, NEW u \in Nat,
         t <= u, u < NextAllowedExecution(t, method)
  PROVE  ~IsExecutionAllowed(u, method)
<1>1. ~IsExecutionAllowed(t, method)
  BY DEF NextAllowedExecution
<1>2. PICK b \in Bands : /\ InBand(t, b)
                         /\ NextAllowedExecution(t, method) = Combine(DateOf(t), b[2])
  BY <1>1, BandFound
<1>3. b[1] \in Nat /\ b[2] \in Nat /\ b[1] < b[2] /\ b[2] < Day
  BY BandAssumption DEF BandAssumption
<1> DEFINE dt == DateOf(t)  du == DateOf(u)
<1>4. /\ dt \in Nat /\ du \in Nat
      /\ TimeOfDay(t) \in 0 .. (Day - 1) /\ TimeOfDay(u) \in 0 .. (Day - 1)
      /\ t = Day * dt + TimeOfDay(t) /\ u = Day * du + TimeOfDay(u)
  BY Split
<1>5. u < Day * dt + b[2]
  BY <1>2, <1>3, <1>4, ContactAssumption DEF Combine, ContactAssumption
<1>6. du = dt
  <2>1. CASE du >= dt + 1
    <3>1. Day * du >= Day * (dt + 1)
      BY <1>4, <2>1, ContactAssumption DEF ContactAssumption
    <3>2. Day * (dt + 1) = Day * dt + Day
      BY <1>4, ContactAssumption DEF ContactAssumption
    <3> HIDE DEF dt, du
    <3> QED
      BY <1>3, <1>4, <1>5, <3>1, <3>2, ContactAssumption DEF ContactAssumption
  <2>2. CASE dt >= du + 1
    <3>1. Day * dt >= Day * (du + 1)
      BY <1>4, <2>2, ContactAssumption DEF ContactAssumption
    <3>2. Day * (du + 1) = Day * du + Day
      BY <1>4, ContactAssumption DEF ContactAssumption
    <3> HIDE DEF dt, du
    <3> QED
      BY <1>4, <3>1, <3>2, ContactAssumption DEF ContactAssumption
  <2> QED
    BY <1>4, <2>1, <2>2
<1>7. InBand(u, b)
  <2> HIDE DEF dt, du
  <2> QED
    BY <1>2, <1>3, <1>4, <1>5, <1>6, ContactAssumption DEF InBand, ContactAssumption
<1> QED
  BY <1>1, <1>7 DEF IsExecutionAllowed

(* schedule_retry grants a time that is permitted, not in the past and not before
   the one asked for. *)
THEOREM RetryTimeSound ==
  ASSUME NEW requested \in Nat, NEW at \in Nat, NEW method
  PROVE  /\ RetryTime(requested, at, method) \in Nat
         /\ RetryTime(requested, at, method) >= requested
         /\ RetryTime(requested, at, method) >= at
         /\ IsExecutionAllowed(RetryTime(requested, at, method), method)
<1> DEFINE c == IF requested >= at THEN requested ELSE at
<1>1. c \in Nat /\ c >= requested /\ c >= at
  OBVIOUS
<1> HIDE DEF c
<1>2. /\ NextAllowedExecution(c, method) \in Nat
      /\ NextAllowedExecution(c, method) >= c
      /\ IsExecutionAllowed(NextAllowedExecution(c, method), method)
  BY <1>1, NextAllowedExecutionSound
<1>3. RetryTime(requested, at, method) = NextAllowedExecution(c, method)
  BY DEF RetryTime, c
<1> QED
  BY <1>1, <1>2, <1>3
===============================================================================
