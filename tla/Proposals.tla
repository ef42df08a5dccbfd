------------------------------- MODULE Proposals -------------------------------
(***************************************************************************)
(* What the system suggests to the people who keep its rules: changes to   *)
(* config/policy.yaml read from a circular (core/policy_change.py) and a   *)
(* rule for a failure no rule matches, read from the provider's            *)
(* documentation (core/taxonomy_proposal.py).  Both only suggest; a person *)
(* who accepts a rule adds it to the table by hand.  What a quote says is  *)
(* kept as a bit: whether the text holds it.                               *)
(***************************************************************************)
EXTENDS Taxonomy, ModelCalls

CONSTANTS
  Policy,     \* the fields a circular may change, and what they are set to
  Reviewed,   \* the signal of a case somebody looks at
  Accepted    \* what the rule they add for it says

AllowedFields == DOMAIN Policy   \* ALLOWED_FIELDS, which _current_value covers

-----------------------------------------------------------------------------
(* policy_change.propose *)
Raised(calls) ==
  IF Readable(ModelAnswer(calls)) THEN ModelAnswer(calls).changes ELSE {}

Grounded(change) == change.field \in AllowedFields /\ change.quoted

(* the value in force is read from the policy, never from the model *)
ProposeChanges(calls) ==
  [failed  |-> ~Readable(ModelAnswer(calls)),
   changes |-> {[of |-> c, current |-> Policy[c.field]] : c \in {c \in Raised(calls) : Grounded(c)}},
   dropped |-> {c \in Raised(calls) : ~Grounded(c)}]

-----------------------------------------------------------------------------
(* taxonomy_proposal.propose *)
NotProposed(failed) ==
  [failed |-> failed, proposable |-> FALSE, class |-> Absent, directness |-> 0]

ProposeRule(calls) ==
  LET answer == ModelAnswer(calls)
  IN IF ~Readable(answer) THEN NotProposed(TRUE)
     ELSE IF ~answer.proposable THEN NotProposed(FALSE)
     ELSE IF ~answer.quoted \/ answer.class \notin Classes THEN NotProposed(TRUE)
     ELSE [failed |-> FALSE, proposable |-> TRUE, class |-> answer.class,
           directness |-> IF answer.directness = "direct" THEN 100 ELSE 80]

(* unclassified_clusters: a gap in the table, not a merchant's fault and not a
   payment without a reason *)
Unclassified(signal) ==
  signal.reason # Absent /\ ~MerchantFault(signal) /\ Hits(signal) = {}

(* render_proposal: the key a person is shown *)
RuleKey(signal) ==
  <<signal.method, signal.reason, Field(signal.source), Field(signal.step)>>

(* the table once the rule is added to it *)
AmendedTable ==
  [key \in DOMAIN Table \cup {RuleKey(Reviewed)} |->
     IF key = RuleKey(Reviewed) THEN Accepted ELSE Table[key]]

Amended == INSTANCE Taxonomy WITH Table <- AmendedTable
===============================================================================
