---------------------------- MODULE ProposalProofs ----------------------------
(***************************************************************************)
(* What a proposal may contain whatever the model answers, which diagnoses *)
(* an accepted rule changes, for every table, and which drafts reach a     *)
(* customer, for every name a merchant may have.                           *)
(***************************************************************************)
EXTENDS Proposals, Drafting, TLAPS

(* policy_change.py, propose: nothing reaches a person without a quote, outside the
   fields a regulator may speak to, or beside a value that is not the one in force;
   and what is refused is shown as refused, so nothing raised is lost. *)
THEOREM ChangesAreGrounded ==
  ASSUME NEW calls
  PROVE  LET proposal == ProposeChanges(calls)
         IN /\ \A c \in proposal.changes :
                 c.of.quoted /\ c.of.field \in AllowedFields /\ c.current = Policy[c.of.field]
            /\ Raised(calls) = {c.of : c \in proposal.changes} \cup proposal.dropped
            /\ proposal.failed => proposal.changes = {} /\ proposal.dropped = {}
<1> DEFINE proposal == ProposeChanges(calls)
           kept == {c \in Raised(calls) : Grounded(c)}
           Shown(c) == [of |-> c, current |-> Policy[c.field]]
<1>1. /\ proposal.failed = ~Readable(ModelAnswer(calls))
      /\ proposal.changes = {Shown(c) : c \in kept}
      /\ proposal.dropped = Raised(calls) \ kept
  BY DEF ProposeChanges
<1>2. \A c : Shown(c).of = c /\ Shown(c).current = Policy[c.field]
  OBVIOUS
<1>3. \A c \in kept : c.quoted /\ c.field \in AllowedFields
  BY DEF Grounded
<1> HIDE DEF Shown, proposal, kept
<1>4. \A c \in proposal.changes :
        c.of.quoted /\ c.of.field \in AllowedFields /\ c.current = Policy[c.of.field]
  BY <1>1, <1>2, <1>3
<1>5. {c.of : c \in proposal.changes} = kept
  BY <1>1, <1>2
<1>6. Raised(calls) = {c.of : c \in proposal.changes} \cup proposal.dropped
  BY <1>1, <1>5 DEF kept
<1>7. proposal.failed => proposal.changes = {} /\ proposal.dropped = {}
  BY <1>1 DEF Raised, kept
<1> QED
  BY <1>4, <1>6, <1>7 DEF proposal

(* taxonomy_proposal.py, propose: a rule is proposed on a quote and for a class there
   is, and a rule the model does not call direct is worth less than one it does. *)
THEOREM RulesAreGrounded ==
  ASSUME NEW calls, ProposeRule(calls).proposable
  PROVE  /\ Readable(ModelAnswer(calls)) /\ ModelAnswer(calls).quoted
         /\ ProposeRule(calls).class \in Classes
         /\ ProposeRule(calls).directness \in {80, 100}
  BY DEF ProposeRule, NotProposed

(* A signal of the cluster finds the new rule before any other. *)
LEMMA RuleComesFirst ==
  ASSUME Reviewed.method # Absent
  PROVE  1 \in Amended!Hits(Reviewed) /\ Amended!KeyOfSignal(Reviewed) = RuleKey(Reviewed)
<1>1. Amended!Candidates(Reviewed)[1] = RuleKey(Reviewed)
  BY DEF Amended!Candidates, RuleKey, Field, Amended!Field, Absent, Amended!Absent,
         Wild, Amended!Wild
<1>2. 1 \in Amended!Hits(Reviewed)
  BY <1>1 DEF Amended!Hits, AmendedTable
<1>3. \A j \in Amended!Hits(Reviewed) : 1 <= j /\ j \in Int
  BY DEF Amended!Hits
<1>4. (CHOOSE i \in Amended!Hits(Reviewed) : \A j \in Amended!Hits(Reviewed) : i <= j) = 1
  BY <1>2, <1>3
<1> QED
  BY <1>1, <1>2, <1>4 DEF Amended!KeyOfSignal

(* "Closing the gap" (taxonomy_proposal.py:3): a rule added under the key the script
   shows is what the cases it was proposed for are diagnosed by from then on. *)
THEOREM RuleSettlesItsCluster ==
  ASSUME Unclassified(Reviewed), Reviewed.method # Absent
  PROVE  Amended!Lookup(Reviewed).class = Accepted.class
<1>1. /\ Reviewed.reason # Amended!Absent
      /\ ~Amended!MerchantFault(Reviewed)
      /\ Amended!Hits(Reviewed) # {}
  BY RuleComesFirst DEF Unclassified, MerchantFault, Amended!MerchantFault, Absent,
                        Amended!Absent
<1>2. AmendedTable[RuleKey(Reviewed)] = Accepted
  BY DEF AmendedTable
<1> QED
  BY <1>1, <1>2, RuleComesFirst DEF Amended!Lookup

(* Keys of other methods, reasons and sources do not meet the new rule's. *)
LEMMA OtherKeys ==
  ASSUME Reviewed.method \notin {Absent, Wild}, NEW signal, NEW i \in 1 .. 5,
         <<Field(signal.method), signal.reason, Field(signal.source)>> #
           <<Reviewed.method, Reviewed.reason, Field(Reviewed.source)>>
  PROVE  Candidates(signal)[i] # RuleKey(Reviewed)
<1>1. i = 1 \/ i = 2 \/ i = 3 \/ i = 4 \/ i = 5
  OBVIOUS
<1>2. CASE i \in {1, 2}
  BY <1>2 DEF Candidates, RuleKey
<1>3. CASE i \in {3, 4, 5}
  BY <1>3 DEF Candidates, RuleKey
<1> QED
  BY <1>1, <1>2, <1>3

(* An accepted rule changes the diagnosis of nothing but failures of its own method,
   reason and source.  One consequence surprises: a rule asked for without the source,
   as the script's own usage does (propose_taxonomy_rule.py:13), is no wildcard; no
   failure that names a source is ever diagnosed by it. *)
THEOREM RuleKeepsToItsCluster ==
  ASSUME Reviewed.method \notin {Absent, Wild}, NEW signal,
         <<Field(signal.method), signal.reason, Field(signal.source)>> #
           <<Reviewed.method, Reviewed.reason, Field(Reviewed.source)>>
  PROVE  Amended!Lookup(signal) = Lookup(signal)
<1>1. Amended!Candidates(signal) = Candidates(signal)
  BY DEF Candidates, Amended!Candidates, Field, Amended!Field, Absent, Amended!Absent,
         Wild, Amended!Wild
<1>2. \A i \in 1 .. 5 : Candidates(signal)[i] # RuleKey(Reviewed)
  BY OtherKeys
<1>3. Amended!Hits(signal) = Hits(signal)
  BY <1>1, <1>2 DEF Hits, Amended!Hits, AmendedTable
<1>4. Amended!KeyOfSignal(signal) = KeyOfSignal(signal)
  BY <1>1, <1>3 DEF KeyOfSignal, Amended!KeyOfSignal
<1>5. Hits(signal) # {} =>
        KeyOfSignal(signal) \in DOMAIN Table /\ KeyOfSignal(signal) # RuleKey(Reviewed)
  <2> SUFFICES ASSUME Hits(signal) # {}
               PROVE  KeyOfSignal(signal) \in DOMAIN Table
                      /\ KeyOfSignal(signal) # RuleKey(Reviewed)
    OBVIOUS
  <2> DEFINE first == CHOOSE i \in Hits(signal) : \A j \in Hits(signal) : i <= j
  <2>1. \E i \in Hits(signal) : \A j \in Hits(signal) : i <= j
    <3>1. \A i \in Hits(signal) : i = 1 \/ i = 2 \/ i = 3 \/ i = 4 \/ i = 5
      BY DEF Hits
    <3> QED
      BY <3>1
  <2>2. first \in Hits(signal)
    BY <2>1
  <2> QED
    BY <1>2, <2>2 DEF KeyOfSignal, Hits
<1>6. Hits(signal) # {} => AmendedTable[KeyOfSignal(signal)] = Table[KeyOfSignal(signal)]
  BY <1>5 DEF AmendedTable
<1>7. Amended!DocumentedCauses(signal.method, signal.reason) =
        DocumentedCauses(signal.method, signal.reason)
  BY DEF DocumentedCauses, Amended!DocumentedCauses, CountsOf, Amended!CountsOf, AnyMethod,
         Amended!AnyMethod
<1> QED
  BY <1>3, <1>4, <1>6, <1>7 DEF Lookup, Amended!Lookup, MerchantFault, Amended!MerchantFault,
     Unmatched, Amended!Unmatched, Absent, Amended!Absent, Wild, Amended!Wild
-----------------------------------------------------------------------------

(* test_draft.py, "passes the lint by construction": the fixed text passes for the
   names in which the lint finds nothing, and for no others. *)
LEMMA FallbackPasses == Passed(Lint(Fallback)) <=> NameSays \cap Denied = {}
<1>1. Lint(Fallback).violations = NameSays \cap Denied
  BY DEF Lint, Fallback, Named, Denied
<1>2. Lint(Fallback).missing = {}
  BY DEF Lint, Fallback, Named, Owed
<1> QED  BY <1>1, <1>2 DEF Passed

(* "A nudge that passes the lint, or fall back to one that does" (draft.py:97): so it
   is, whatever the model wrote or failed to write, unless the name of the merchant is
   itself denied.  For "Fine Dine" or "Reward Club" no draft passes that names them,
   the plain text goes out however the model complies, and it would not pass either. *)
THEOREM DraftsPassUnlessTheNameIsDenied ==
  ASSUME NEW first, NEW second,
         SpellsTheName(Draft(first)), SpellsTheName(Draft(second))
  PROVE  LET body == DraftNudge(first, second).body
         IN /\ NameSays \cap Denied = {} => Passed(Lint(body))
            /\ NameSays \cap Denied # {} => body = Fallback /\ ~Passed(Lint(body))
<1> DEFINE body == DraftNudge(first, second).body
<1>1. body = IF Clean(first) THEN Draft(first)
             ELSE IF Blocked(first) /\ Clean(second) THEN Draft(second)
             ELSE Fallback
  BY DEF DraftNudge
<1>2. ASSUME NEW calls, SpellsTheName(Draft(calls)), Clean(calls)
      PROVE  NameSays \cap Denied = {}
  <2>1. Lint(Draft(calls)).missing = {} /\ Lint(Draft(calls)).violations = {}
    BY <1>2 DEF Clean, Passed
  <2>2. "merchant" \in Draft(calls) /\ Draft(calls) \cap Denied = {}
    BY <2>1 DEF Lint, Owed
  <2> QED  BY <1>2, <2>2 DEF SpellsTheName
<1>3. CASE NameSays \cap Denied = {}
  BY <1>1, <1>3, FallbackPasses DEF Clean
<1>4. CASE NameSays \cap Denied # {}
  <2>1. ~Clean(first) /\ ~Clean(second)
    BY <1>2, <1>4
  <2>2. body = Fallback
    BY <1>1, <2>1
  <2> QED  BY <1>4, <2>2, FallbackPasses
<1> QED  BY <1>3, <1>4

(* draft.py:98, "a blocked draft is visible in the audit trail rather than quietly
   discarded": every draft but the one that is sent left a verdict that blocks it,
   and a model that was blocked twice is not asked again. *)
THEOREM BlockedDraftsAreShown ==
  ASSUME NEW first, NEW second
  PROVE  LET result == DraftNudge(first, second)
         IN /\ Len(result.attempts) <= 2
            /\ \A i \in 1 .. Len(result.attempts) :
                 Passed(result.attempts[i]) =>
                   /\ i = Len(result.attempts)
                   /\ result.attempts[i] = Lint(result.body)
            /\ Blocked(first) /\ Blocked(second) =>
                 Len(result.attempts) = 2 /\ result.body = Fallback
<1> DEFINE result == DraftNudge(first, second)
<1>1. CASE ~Wrote(first)
  <2>1. result.attempts = <<>>
    BY <1>1 DEF DraftNudge, Blocked
  <2> QED  BY <1>1, <2>1 DEF Blocked
<1>2. CASE Clean(first)
  <2>1. /\ result.attempts = <<Lint(Draft(first))>>
        /\ result.body = Draft(first) /\ ~Blocked(first)
    BY <1>2 DEF DraftNudge, Blocked, Clean
  <2> QED  BY <2>1
<1>3. CASE Blocked(first) /\ ~Wrote(second)
  <2>1. result.attempts = <<Lint(Draft(first))>> /\ ~Blocked(second)
    BY <1>3 DEF DraftNudge, Blocked
  <2>2. ~Passed(Lint(Draft(first)))
    BY <1>3 DEF Blocked, Clean
  <2> QED  BY <2>1, <2>2
<1>4. CASE Blocked(first) /\ Wrote(second)
  <2>1. result.attempts = <<Lint(Draft(first)), Lint(Draft(second))>>
    BY <1>4 DEF DraftNudge, Blocked
  <2>2. ~Passed(Lint(Draft(first)))
    BY <1>4 DEF Blocked, Clean
  <2>3. result.body = IF Clean(second) THEN Draft(second) ELSE Fallback
    BY <1>4 DEF DraftNudge, Blocked
  <2>4. Passed(Lint(Draft(second))) <=> Clean(second)
    BY <1>4 DEF Clean
  <2>5. Blocked(second) <=> ~Clean(second)
    BY <1>4 DEF Blocked
  <2> QED  BY <2>1, <2>2, <2>3, <2>4, <2>5
<1> QED  BY <1>1, <1>2, <1>3, <1>4 DEF Blocked

(* lint.py:1, "the last thing between a drafted message and a customer": the messages
   of the runner do not go through it, and would pass, but for the merchant they do
   not name. *)
THEOREM NudgesWouldPass ==
  ASSUME NEW variant, NEW link \in BOOLEAN
  PROVE  Lint(NudgeBody(variant, link)) = [violations |-> {}, missing |-> {"merchant"}]
<1>1. /\ NudgeBody(variant, link) \cap Denied = {}
      /\ "merchant" \notin NudgeBody(variant, link)
      /\ {"amount", "way to stop"} \subseteq NudgeBody(variant, link)
  BY DEF NudgeBody, BodyFor, Denied
<1> QED  BY <1>1 DEF Lint, Owed
===============================================================================
