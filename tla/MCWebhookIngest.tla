--------------------------- MODULE MCWebhookIngest ---------------------------
(***************************************************************************)
(* Small instances of WebhookIngest: one payment whose plan is a question  *)
(* and a fallback retry, one held on its diagnosis, one held before it.    *)
(* The event about the second reports it in a currency that is refused.    *)
(***************************************************************************)
EXTENDS WebhookIngest, TLC

CONSTANTS p1, p2, p3, failed1, paid1, dollars2

MCPaymentOf == [e \in Events |-> IF e = dollars2 THEN p2 ELSE p1]
MCPayloadOf ==
  [e \in Events |-> [entity |-> TRUE, id |-> TRUE, integral |-> TRUE,
     currency |-> IF e = dollars2 THEN "USD" ELSE IF e = failed1 THEN "INR" ELSE Absent]]
MCPlanOf == [p \in Payments |-> IF p = p1 THEN <<"nudge", "retry">> ELSE <<>>]

Symmetry == Permutations(Workers)
=============================================================================
