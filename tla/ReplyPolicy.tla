----------------------------- MODULE ReplyPolicy -----------------------------
(***************************************************************************)
(* What a customer's reply changes (shell/replies.py): the model reads     *)
(* intents with a confidence, in percent, and decide gives them their      *)
(* consequence, most protective first, each above a bar of its own.        *)
(* A date is kept only as far as validate_date goes: usable or not.        *)
(***************************************************************************)
EXTENDS Integers

CONSTANTS
  Protective,     \* bar of the stops
  ActsOnMoney,    \* bar of a promise
  Cancellation    \* bar of a cancellation

ASSUME ReplyAssumption ==
  Protective \in 0 .. 100 /\ ActsOnMoney \in 0 .. 100 /\ Cancellation \in 0 .. 100

Intents == {"promise-to-pay", "dispute", "set-off-request", "opt-out",
            "cancellation-request", "service-complaint", "distress",
            "channel-preference", "unknown"}

NotRead == -1     \* confidence of an intent that was not read

ParsedReplies ==
  [failed : BOOLEAN, distressed : BOOLEAN, dateUsable : BOOLEAN,
   confidence : [Intents -> NotRead .. 100]]

(* has(intent, at_least) *)
Heard(parsed, intent, bar) ==
  parsed.confidence[intent] # NotRead /\ parsed.confidence[intent] >= bar

NoStop == "no-stop"

(* ReplyOutcome, as far as anything reads it *)
Outcomes ==
  [stop : {NoStop, "DISTRESS", "DISPUTE", "OPT_OUT"}, human : BOOLEAN,
   promise : BOOLEAN, support : BOOLEAN]
Nothing == [stop |-> NoStop, human |-> FALSE, promise |-> FALSE, support |-> FALSE]

InDistress(parsed) == Heard(parsed, "distress", Protective) \/ parsed.distressed

Cancels(parsed) == Heard(parsed, "cancellation-request", Cancellation)

(* mutation: what else an opt-out asks for is not looked at *)
OnlyOptsOut(parsed) == [Nothing EXCEPT !.stop = "OPT_OUT"]

(* the stop wins on contact; a cancellation beside it still reaches a person *)
OptOutOutcome(parsed) == [Nothing EXCEPT !.stop = "OPT_OUT", !.human = Cancels(parsed)]

(* a promise above the bar, with a date that is one, moves the retry; a person
   gets the reply in which nothing at all was read *)
PromiseOutcome(parsed) ==
  [Nothing EXCEPT
     !.promise = Heard(parsed, "promise-to-pay", ActsOnMoney) /\ parsed.dateUsable,
     !.human = /\ ~Heard(parsed, "promise-to-pay", 0)
               /\ ~Heard(parsed, "channel-preference", Protective)]

Decide(parsed) ==
  IF parsed.failed THEN [Nothing EXCEPT !.human = TRUE]
  ELSE IF InDistress(parsed) THEN [Nothing EXCEPT !.stop = "DISTRESS", !.human = TRUE]
  ELSE IF Heard(parsed, "dispute", Protective)
       THEN [Nothing EXCEPT !.stop = "DISPUTE", !.human = TRUE]
  ELSE IF Heard(parsed, "opt-out", Protective) THEN OptOutOutcome(parsed)
  ELSE IF Cancels(parsed) THEN [Nothing EXCEPT !.human = TRUE]
  ELSE IF Heard(parsed, "service-complaint", Protective)
       THEN [Nothing EXCEPT !.support = TRUE]
  ELSE PromiseOutcome(parsed)
=============================================================================
