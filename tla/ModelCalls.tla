------------------------------ MODULE ModelCalls ------------------------------
(***************************************************************************)
(* Asking a language model, as reply parsing and the two kinds of          *)
(* proposals do: the same loop three times over.  What it answers is an    *)
(* input; an answer is what one call brought.                              *)
(***************************************************************************)
EXTENDS Integers

CONSTANT Attempts   \* ATTEMPTS

ASSUME AttemptsAssumption == Attempts \in Nat \ {0}

(* one call: nothing came back, the answer was cut off at the token ceiling, it
   is not JSON, or it can be read *)
AnswerKinds == {"nothing", "truncated", "garbled", "read"}

(* _call_model: only a call that brought nothing is made again *)
ModelAnswer(calls) ==
  LET heard == {i \in 1 .. Attempts : calls[i].kind # "nothing"}
  IN IF heard = {} THEN calls[Attempts]
     ELSE calls[CHOOSE i \in heard : \A j \in heard : i <= j]

(* mutation: what was cut off is read as far as it goes *)
CompleteOrNot(answer) == answer.kind \in {"truncated", "read"}

Readable(answer) == answer.kind = "read"
===============================================================================
