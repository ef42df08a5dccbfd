------------------------------ MODULE ReplyProofs ------------------------------
(***************************************************************************)
(* What parse and decide promise for every answer a model may give and     *)
(* every setting of the bars.                                              *)
(***************************************************************************)
EXTENDS ReplyParsing, TLAPS

(* Bars are percentages, so a read intent clears the lowest bar there is. *)
LEMMA ReadIsHeard ==
  ASSUME NEW parsed \in ParsedReplies, NEW intent \in Intents, NEW bar \in 0 .. 100,
         Heard(parsed, intent, bar)
  PROVE  Heard(parsed, intent, 0)
<1>1. parsed.confidence[intent] \in NotRead .. 100
  BY DEF ParsedReplies
<1> QED
  BY <1>1 DEF Heard, NotRead

(* replies.py, decide: every reply gets an outcome, and never two that pull apart. A
   stop or a person leaves no promise standing, so handle_reply has one branch to take. *)
THEOREM ConsequencesAgree ==
  ASSUME NEW parsed \in ParsedReplies
  PROVE  /\ Decide(parsed) \in Outcomes
         /\ Decide(parsed).promise =>
              Decide(parsed).stop = NoStop /\ ~Decide(parsed).human
<1>1. Nothing \in Outcomes
  BY DEF Nothing, Outcomes, NoStop
<1>2. OptOutOutcome(parsed) \in Outcomes /\ ~OptOutOutcome(parsed).promise
  BY DEF OptOutOutcome, Cancels, Heard, Nothing, Outcomes, NoStop
<1>3. /\ PromiseOutcome(parsed) \in Outcomes /\ PromiseOutcome(parsed).stop = NoStop
      /\ PromiseOutcome(parsed).promise => ~PromiseOutcome(parsed).human
  <2>1. "promise-to-pay" \in Intents /\ ActsOnMoney \in 0 .. 100
    BY ReplyAssumption DEF ReplyAssumption, Intents
  <2>2. Heard(parsed, "promise-to-pay", ActsOnMoney) => Heard(parsed, "promise-to-pay", 0)
    BY <2>1, ReadIsHeard
  <2>3. parsed.dateUsable \in BOOLEAN
    BY DEF ParsedReplies
  <2>4. \A i, b : Heard(parsed, i, b) \in BOOLEAN
    BY DEF Heard
  <2> QED
    BY <2>2, <2>3, <2>4 DEF PromiseOutcome, Nothing, Outcomes, NoStop
<1> QED
  BY <1>1, <1>2, <1>3 DEF Decide, Nothing, Outcomes, NoStop

(* replies.py:163: however much else a reply says, a cancellation above its bar puts
   a person in front of it, and promises nothing. *)
THEOREM CancellationsAreHeard ==
  ASSUME NEW parsed, Cancels(parsed)
  PROVE  Decide(parsed).human /\ ~Decide(parsed).promise
<1>1. OptOutOutcome(parsed).human /\ ~OptOutOutcome(parsed).promise
  BY DEF OptOutOutcome, Nothing
<1> QED
  BY <1>1 DEF Decide, Nothing

(* evidence.py: an intent comes through parse only on a quote from the reply, in an
   answer that was given and came to its end. *)
THEOREM OnlySupportedIntentsAreRead ==
  ASSUME NEW calls, NEW type \in Intents, Parse(calls).confidence[type] # NotRead
  PROVE  /\ ModelAnswer(calls).kind = "read"
         /\ \E i \in ModelAnswer(calls).intents : i.quoted /\ i.type = type
<1> DEFINE answer == ModelAnswer(calls)
<1>1. Parse(calls).confidence[type] =
        IF Readable(answer) THEN ConfidenceFor(Supported(answer), type) ELSE NotRead
  BY DEF Parse
<1>2. Readable(answer) /\ ConfidenceFor(Supported(answer), type) # NotRead
  BY <1>1
<1>3. {i \in Supported(answer) : i.type = type} # {}
  BY <1>2 DEF ConfidenceFor
<1> QED
  BY <1>2, <1>3 DEF Readable, Supported

(* A stop follows from a quote, or from the mood the model read, and a promise from a
   quote alone: parse and decide together act on nothing the customer did not write. *)
THEOREM ConsequencesAreQuoted ==
  ASSUME NEW calls
  PROVE  /\ Decide(Parse(calls)).promise =>
              \E i \in ModelAnswer(calls).intents : i.quoted /\ i.type = "promise-to-pay"
         /\ Decide(Parse(calls)).stop # NoStop =>
              \/ ModelAnswer(calls).distressed
              \/ \E i \in ModelAnswer(calls).intents :
                   i.quoted /\ i.type \in {"distress", "dispute", "opt-out"}
<1> DEFINE parsed == Parse(calls)
<1>1. parsed.distressed => ModelAnswer(calls).distressed
  BY DEF Parse
<1>2. ASSUME NEW type \in Intents, NEW bar, Heard(parsed, type, bar)
      PROVE  \E i \in ModelAnswer(calls).intents : i.quoted /\ i.type = type
  BY <1>2, OnlySupportedIntentsAreRead DEF Heard
<1>3. {"promise-to-pay", "distress", "dispute", "opt-out"} \subseteq Intents
  BY DEF Intents
<1> HIDE DEF parsed
<1>4. Decide(parsed).promise => Heard(parsed, "promise-to-pay", ActsOnMoney)
  BY DEF Decide, OptOutOutcome, PromiseOutcome, Nothing
<1>5. Decide(parsed).stop # NoStop =>
        \/ InDistress(parsed) \/ Heard(parsed, "dispute", Protective)
        \/ Heard(parsed, "opt-out", Protective)
  BY DEF Decide, OptOutOutcome, PromiseOutcome, Nothing
<1> QED
  <2>1. Decide(parsed).promise =>
          \E i \in ModelAnswer(calls).intents : i.quoted /\ i.type = "promise-to-pay"
    BY <1>2, <1>3, <1>4
  <2>2. InDistress(parsed) =>
          \/ ModelAnswer(calls).distressed
          \/ \E i \in ModelAnswer(calls).intents : i.quoted /\ i.type = "distress"
    BY <1>1, <1>2, <1>3 DEF InDistress
  <2>3. Decide(parsed).stop # NoStop =>
          \/ ModelAnswer(calls).distressed
          \/ \E i \in ModelAnswer(calls).intents :
               i.quoted /\ i.type \in {"distress", "dispute", "opt-out"}
    BY <1>2, <1>3, <1>5, <2>2
  <2> QED
    BY <2>1, <2>3 DEF parsed
===============================================================================
