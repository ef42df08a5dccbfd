----------------------------- MODULE ReplyParsing -----------------------------
(***************************************************************************)
(* How a customer's reply is read (core/reply.py, core/evidence.py): the   *)
(* model's answer is taken apart, and an intent stands only on words the   *)
(* customer wrote.  Whether it quoted them is kept as a bit.               *)
(***************************************************************************)
EXTENDS ReplyPolicy, ModelCalls

(* an intent of the model's answer, of a type it may have made up *)
DetectedIntents == [type : STRING, confidence : 0 .. 100, quoted : BOOLEAN]

IsAnswer(answer) ==
  /\ answer.kind \in AnswerKinds
  /\ answer.intents \subseteq DetectedIntents
  /\ answer.distressed \in BOOLEAN /\ answer.dateUsable \in BOOLEAN

(* mutation: a quote is asked for and not looked up *)
AllSupported(answer) == {i \in answer.intents : i.type \in Intents}

(* intents without a quote from the reply, or outside the closed set, are dropped *)
Supported(answer) == {i \in answer.intents : i.quoted /\ i.type \in Intents}

(* confidence_for: the surest of the intents of one type *)
ConfidenceFor(intents, type) ==
  LET levels == {i.confidence : i \in {i \in intents : i.type = type}}
  IN IF levels = {} THEN NotRead
     ELSE CHOOSE n \in levels : \A k \in levels : k <= n

(* parse: an answer that cannot be read leaves the reply to a person *)
Parse(calls) ==
  LET answer == ModelAnswer(calls)
  IN [failed |-> ~Readable(answer),
      distressed |-> Readable(answer) /\ answer.distressed,
      dateUsable |-> Readable(answer) /\ answer.dateUsable,
      confidence |-> [type \in Intents |->
                        IF Readable(answer) THEN ConfidenceFor(Supported(answer), type)
                        ELSE NotRead]]
===============================================================================
