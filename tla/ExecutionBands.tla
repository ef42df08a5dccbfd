---------------------------- MODULE ExecutionBands ----------------------------
(***************************************************************************)
(* When a retry may be scheduled (shell/windows.py, shell/scheduler.py):   *)
(* NPCI forbids autopay execution in bands of the day, on the rail they    *)
(* govern, and a request that lands in one is moved to its end.            *)
(***************************************************************************)
EXTENDS ContactPolicy

CONSTANT Bands   \* restricted_bands: <<start, end>>, in slots of the day

(* as policy.yaml has them: within a day, and a gap between any two *)
ASSUME BandAssumption ==
  /\ \A b \in Bands : /\ b[1] \in Nat /\ b[2] \in Nat
                      /\ b[1] < b[2] /\ b[2] < Day
  /\ \A b, c \in Bands : b = c \/ b[2] < c[1] \/ c[2] < b[1]

UnbandedMethods == {"card", "emandate", "nach", "netbanking", "wallet"}

(* a rail nobody recognises is taken for one they govern *)
SubjectToBands(method) == method \notin UnbandedMethods

InBand(t, band) == band[1] <= TimeOfDay(t) /\ TimeOfDay(t) < band[2]

IsExecutionAllowed(t, method) ==
  SubjectToBands(method) => \A band \in Bands : ~InBand(t, band)

(* mutation: the last slot of the band is taken for the first after it *)
LastOfBand(t, method) ==
  IF IsExecutionAllowed(t, method) THEN t
  ELSE Combine(DateOf(t), (CHOOSE band \in Bands : InBand(t, band))[2] - 1)

NextAllowedExecution(t, method) ==
  IF IsExecutionAllowed(t, method) THEN t
  ELSE Combine(DateOf(t), (CHOOSE band \in Bands : InBand(t, band))[2])

(* schedule_retry, the cap aside: not in the past, and not in a band *)
RetryTime(requested, at, method) ==
  NextAllowedExecution(IF requested >= at THEN requested ELSE at, method)
===============================================================================
