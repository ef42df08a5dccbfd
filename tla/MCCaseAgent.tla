----------------------------- MODULE MCCaseAgent -----------------------------
(***************************************************************************)
(* Small instances of CaseAgent.  Costs and success rates are those of     *)
(* config/policy.yaml and DEFAULT_SUCCESS.                                 *)
(***************************************************************************)
EXTENDS CaseAgent, TLC

CONSTANTS c1, c2, c3, c4, c5, c6, c7, c8, k1, k2

MCCost == <<0, 1, 2, 8, 60>>
MCSuccess == <<20, 25, 30, 35, 50>>

(* c1 and c2 belong to one customer: an outage whose outcome is in doubt, and an
   empty account.  The others are strangers that stop where the two do not: a debit
   above what was consented to, a dead mandate that is not worth repairing, a fault of
   the merchant's whose link is not worth sending, a customer who withdrew, an amount
   the rail does not let through unattended, and an outage of which little is known. *)
MCCustomer == [c \in Cases |-> IF c \in {c1, c2} THEN k1 ELSE k2]
Failure(method, reason, source, ordered) ==
  [method |-> method, reason |-> reason, source |-> source, step |-> Absent,
   ordered |-> ordered]
MCSignal ==
  [c \in Cases |->
     CASE c = c1 -> Failure("card", "payment_timed_out", "bank", TRUE)
       [] c = c2 -> Failure("card", "insufficient_funds", Absent, TRUE)
       [] c = c3 -> Failure("card", "bank_technical_error", "gateway", TRUE)
       [] c = c4 -> Failure("emandate", "mandate_not_active", Absent, TRUE)
       [] c = c5 -> Failure("card", "payment_failed", "business", TRUE)
       [] c = c6 -> Failure("upi", "payment_cancelled", "customer", TRUE)
       [] c = c7 -> Failure("upi", "payment_collect_request_expired", Absent, FALSE)
       [] c = c8 -> Failure(Absent, "payment_timed_out", Absent, FALSE)]

(* the entries of TABLE, and of the provider's causes, that these failures meet *)
Entry(class, directness) == [class |-> class, directness |-> directness]
MCTable ==
  <<Wild, "payment_timed_out", "bank", Wild>> :> Entry("recoverable-technical", 100)
  @@ <<Wild, "payment_timed_out", Wild, Wild>> :> Entry("recoverable-technical", 80)
  @@ <<Wild, "insufficient_funds", Wild, Wild>> :> Entry("recoverable-balance", 100)
  @@ <<Wild, "bank_technical_error", Wild, Wild>> :> Entry("recoverable-technical", 100)
  @@ <<Wild, "mandate_not_active", Wild, Wild>> :> Entry("mandate-state-broken", 100)
  @@ <<Wild, "payment_failed", Wild, Wild>> :> Entry("recoverable-technical", 80)
  @@ <<Wild, "payment_cancelled", Wild, Wild>> :> Entry("customer-intent-revoked", 80)
  @@ <<Wild, "payment_collect_request_expired", Wild, Wild>> :> Entry("notification-gap", 100)
MCCauses ==
  <<"card", "payment_timed_out">> :> 1 @@ <<"upi", "payment_timed_out">> :> 2
  @@ <<"any", "payment_timed_out">> :> 1 @@ <<"upi", "payment_cancelled">> :> 1
  @@ <<"card", "payment_cancelled">> :> 2 @@ <<"card", "payment_failed">> :> 1
  @@ <<"upi", "payment_collect_request_expired">> :> 1
MCUnsettled ==
  {"payment_timed_out", "gateway_technical_error", "payment_collect_request_expired"}
MCAmount ==
  [c \in Cases |-> CASE c = c5 -> 4 [] c = c4 -> 6 [] c = c7 -> 20000 [] OTHER -> 100]
MCMandateMax == [c \in Cases |-> IF c = c3 THEN 50 ELSE NoCeiling]

(* what a call brings back: intents at one confidence, quoted or made up *)
Intent(types, confidence, quoted) ==
  {[type |-> t, confidence |-> confidence, quoted |-> quoted] : t \in types}
Answer(kind, intents) ==
  [kind |-> kind, intents |-> intents, distressed |-> FALSE, dateUsable |-> TRUE]
Lost == Answer("nothing", {})
Read(types, confidence) == Answer("read", Intent(types, confidence, TRUE))

(* no answer in two calls, or one cut off before it comes to its end *)
MCAttempts == 2
AtOnce(answer) == <<answer, Lost>>
Distress == AtOnce([Read({}, 0) EXCEPT !.distressed = TRUE])
OptOut == AtOnce(Read({"opt-out", "promise-to-pay", "stop-everything"}, 60))
OptOutAndCancel == AtOnce(Read({"opt-out", "cancellation-request"}, 90))
Unreadable == <<Answer("truncated", Intent({"promise-to-pay", "channel-preference"}, 90, TRUE)),
                Read({"promise-to-pay", "channel-preference"}, 90)>>
Promised ==
  <<Lost, [Read({"promise-to-pay", "channel-preference"}, 80) EXCEPT
             !.intents = @ \cup Intent({"opt-out"}, 95, FALSE)
                           \cup Intent({"promise-to-pay"}, 30, TRUE)]>>
Doubtful == AtOnce(Read({"promise-to-pay", "cancellation-request"}, 40))
AllReplies == {Distress, OptOut, OptOutAndCancel, Unreadable, Promised, Doubtful}
Promises == {Promised}
=============================================================================
