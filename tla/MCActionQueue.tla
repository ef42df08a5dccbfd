---------------------------- MODULE MCActionQueue ----------------------------
(***************************************************************************)
(* Small instances of ActionQueue: which row belongs to which case, and    *)
(* which case to which customer.                                           *)
(***************************************************************************)
EXTENDS ActionQueue, TLC

CONSTANTS n1, n2, r1, p1, c1, c2, k1

(* one case, a retry and a nudge *)
OneCase == [a \in Actions |-> c1]
(* two cases of one customer, a nudge each *)
TwoCases == [a \in Actions |-> IF a = n2 THEN c2 ELSE c1]
OneCustomer == [c \in Cases |-> k1]
MCKinds == [a \in Actions |-> CASE a = r1 -> "retry"
                                [] a = p1 -> "reauthorisation"
                                [] OTHER -> "nudge"]
Upi == [c \in Cases |-> "upi"]
NoonBand == {<<1, 2>>}
NoBands == {}
WorkerSymmetry == Permutations(Workers)
=============================================================================
