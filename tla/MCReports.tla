------------------------------ MODULE MCReports ------------------------------
(***************************************************************************)
(* Small instances of Reports, over cases of MCCaseAgent: an empty         *)
(* account, a dead mandate, a customer who withdrew, and a request that    *)
(* expired for one of two reasons.                                         *)
(***************************************************************************)
EXTENDS Reports, MCCaseAgent

MRAmount ==
  [c \in Cases |-> CASE c = c4 -> 7 [] c = c5 -> 4 [] c = c6 -> 30 [] c = c7 -> 20000
                     [] OTHER -> 100]
MRCauses ==
  [e \in DOMAIN MCCauses |->
     IF e[2] = "payment_collect_request_expired" THEN 2 ELSE MCCauses[e]]
NoonBand == {<<1, 2>>}
===============================================================================
