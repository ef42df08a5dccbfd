------------------------------- MODULE Drafting -------------------------------
(***************************************************************************)
(* What a customer is written: a draft of a language model, which the lint *)
(* lets through or not (core/draft.py, shell/lint.py), and the fixed       *)
(* messages that a nudge carries (shell/notify.py), which it never sees.   *)
(* A text is the set of the things its patterns find in it.                *)
(***************************************************************************)
EXTENDS ModelCalls, Sequences

CONSTANT NameSays   \* what the patterns find in the name of the merchant

-----------------------------------------------------------------------------
(* lint.py *)

Denied == {"offer", "percentage", "threat", "urgency", "promise"}
Owed == {"amount", "merchant", "way to stop"}

(* check: what must not be there and is, what must be there and is not *)
Lint(text) == [violations |-> text \cap Denied, missing |-> Owed \ text]
Passed(result) == result.violations = {} /\ result.missing = {}

(* whoever writes the name writes what it says *)
Named == {"merchant"} \cup NameSays
SpellsTheName(text) == "merchant" \in text => NameSays \subseteq text

-----------------------------------------------------------------------------
(* draft.py *)

(* _call: any text is taken, one that was cut off at the token ceiling included *)
Wrote(calls) == ModelAnswer(calls).kind # "nothing"
Draft(calls) == ModelAnswer(calls).says

Fallback == Named \cup {"amount", "date", "way to stop"}

(* one round of draft_nudge *)
Clean(calls) == Wrote(calls) /\ Passed(Lint(Draft(calls)))
Blocked(calls) == Wrote(calls) /\ ~Clean(calls)

(* draft_nudge: a draft that is blocked is asked for once more, and no answer at
   all ends it; every draft that was read leaves what the lint said of it *)
DraftNudge(first, second) ==
  [body |-> IF Clean(first) THEN Draft(first)
            ELSE IF Blocked(first) /\ Clean(second) THEN Draft(second)
            ELSE Fallback,
   attempts |-> IF Blocked(first) /\ Wrote(second)
                  THEN <<Lint(Draft(first)), Lint(Draft(second))>>
                ELSE IF Wrote(first) THEN <<Lint(Draft(first))>>
                ELSE <<>>]

-----------------------------------------------------------------------------
(* notify.py *)

(* body_for: by what the decision recorded, the first-touch message for anything
   else; a link that could not be made is left out, or offered on request *)
BodyFor(variant, who, when, link) ==
  {"amount", "way to stop"} \cup who
  \cup (IF link THEN {"link"} ELSE {})
  \cup CASE variant = "ask-date"  -> {"empty account", "which date"}
         [] variant = "exhausted" -> {"we tried"} \cup (IF link THEN {} ELSE {"reply here"})
         [] OTHER -> when \cup (IF link THEN {} ELSE {"reply here"})

(* execute_nudge names neither the merchant nor a date *)
NudgeBody(variant, link) == BodyFor(variant, {}, {}, link)
===============================================================================
