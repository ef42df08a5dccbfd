------------------------------- MODULE Taxonomy -------------------------------
(***************************************************************************)
(* What a failure is taken for, and how sure of it the system is           *)
(* (core/taxonomy.py, core/diagnose.py).  The table and the causes that    *)
(* the provider documents are data, hence constants; the lookup, the       *)
(* confidence it derives and the questions diagnose asks are not.          *)
(* Confidence and directness are in percent.                               *)
(***************************************************************************)
EXTENDS Integers, FiniteSets

CONSTANTS
  Table,             \* TABLE: what a key <<method, reason, source, step>> means
  Causes,            \* taxonomy_data.json: causes documented for <<method, reason>>
  MerchantSources,   \* MERCHANT_SOURCES
  UnsettledReasons,  \* UNSETTLED_REASONS
  ActsFrom           \* confidence_sampled_qa: below it a case is held

Classes == {"recoverable-technical", "recoverable-balance", "notification-gap",
            "mandate-state-broken", "customer-intent-revoked", "unknown"}

Wild == "*"          \* ANY
Absent == "absent"   \* a field the payment does not carry
AnyMethod == "any"   \* the list of reasons no method is attributed to

ASSUME TaxonomyAssumption ==
  /\ \A key \in DOMAIN Table :
       Table[key].class \in Classes /\ Table[key].directness \in 0 .. 100
  /\ \A entry \in DOMAIN Causes :
       entry \in STRING \X STRING /\ entry[1] # Absent /\ Causes[entry] \in Nat \ {0}
  /\ IsFiniteSet(DOMAIN Causes)
  /\ ActsFrom \in 1 .. 100

Field(value) == IF value = Absent THEN Wild ELSE value

(* keys from the most to the least specific *)
Candidates(signal) ==
  LET m == Field(signal.method)
      s == Field(signal.source)
      t == Field(signal.step)
  IN << <<m, signal.reason, s, t>>, <<m, signal.reason, s, Wild>>,
        <<Wild, signal.reason, s, t>>, <<Wild, signal.reason, s, Wild>>,
        <<Wild, signal.reason, Wild, Wild>> >>

Hits(signal) == {i \in 1 .. 5 : Candidates(signal)[i] \in DOMAIN Table}
KeyOfSignal(signal) ==
  Candidates(signal)[CHOOSE i \in Hits(signal) : \A j \in Hits(signal) : i <= j]

CountsOf(reason) ==
  {Causes[e] : e \in {e \in DOMAIN Causes : e[1] # AnyMethod /\ e[2] = reason}}
(* mutation: without a table of its own, a method gets the list of no method *)
CausesOfAnyMethod(method, reason) ==
  IF <<method, reason>> \in DOMAIN Causes THEN Causes[<<method, reason>>]
  ELSE IF <<AnyMethod, reason>> \in DOMAIN Causes THEN Causes[<<AnyMethod, reason>>]
  ELSE 1

(* documented_causes: a method without a table of its own for the reason gets the
   worst count of those that have one *)
DocumentedCauses(method, reason) ==
  IF <<method, reason>> \in DOMAIN Causes THEN Causes[<<method, reason>>]
  ELSE IF CountsOf(reason) # {}
       THEN CHOOSE n \in CountsOf(reason) : \A k \in CountsOf(reason) : k <= n
  ELSE IF <<AnyMethod, reason>> \in DOMAIN Causes THEN Causes[<<AnyMethod, reason>>]
  ELSE 1

(* mutation: a fault of the merchant's is looked up by its reason *)
NobodysFault(signal) == FALSE

MerchantFault(signal) == signal.source \in MerchantSources

Unmatched == [class |-> "unknown", confidence |-> 0]

(* lookup: without a source that selects one, n documented causes share what the
   rule is worth *)
Lookup(signal) ==
  IF signal.reason = Absent \/ MerchantFault(signal) \/ Hits(signal) = {} THEN Unmatched
  ELSE LET key == KeyOfSignal(signal)
           n == IF key[3] # Wild THEN 1 ELSE DocumentedCauses(signal.method, signal.reason)
       IN [class |-> Table[key].class,
           confidence |-> (2 * Table[key].directness + n) \div (2 * n)]

(* mutation: any diagnosis will do *)
ActsOnAnything(diagnosis) == diagnosis.confidence > 0

(* authority is not hold-for-human *)
Acts(diagnosis) == diagnosis.confidence >= ActsFrom

(* needs_verification: the failure may not be one, and there is an order to ask about *)
NeedsVerification(signal) == signal.ordered /\ signal.reason \in UnsettledReasons
===============================================================================
