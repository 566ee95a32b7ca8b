----------------------------- MODULE DecisionData -----------------------------
(***************************************************************************)
(* What the decision engine and its verifier share: the data types         *)
(* (decisions/schemas.py) and the raw catalog (decisions/catalog.py,       *)
(* catalog.json), and nothing that computes.                               *)
(*                                                                         *)
(* Numbers are exact: amounts are whole cents, quantities are counted in   *)
(* 1/QuantityScale, points in 1/PointScale (a hundredth in the code).      *)
(***************************************************************************)
EXTENDS Integers, Sequences

CONSTANTS
  Catalog,        \* prices, their validity, and the sequence of plans
  QuantityScale,  \* parts a quantity is counted in
  PointScale,     \* parts a score is rounded to (100)
  MaxPrice        \* the largest price that is taken for valid

ASSUME ScaleAssumption ==
  /\ QuantityScale \in Nat \ {0}
  /\ PointScale \in Nat \ {0}
  /\ MaxPrice \in Nat

\* None of the code; every known number is at least 0
Unknown == -1

\* the keys of the plans in the order Python sorts them in
PlanKeys == <<"HYBRID", "IAAS", "PAAS", "SAAS">>
Before(a, b) ==
  \E i, j \in DOMAIN PlanKeys : i < j /\ PlanKeys[i] = a /\ PlanKeys[j] = b

Groups == <<"cost", "performance", "resilience", "operations", "governance">>
GroupSet == {Groups[i] : i \in DOMAIN Groups}

Amounts == <<"user_count", "vcpu_count", "memory_gib", "storage_gib">>

(* The catalog is a file of the repository: its plans have different keys  *)
(* and well-formed properties.  Any number may stand for a price or a      *)
(* capacity; those that are missing or absurd are looked at when used.     *)
CatalogPlans ==
  [key : {PlanKeys[i] : i \in DOMAIN PlanKeys}, model : Seq(STRING), supported : SUBSET STRING,
   unit : STRING, price : Int, setup : Int, staff : Nat, governance : Nat,
   latency : Nat, availability : Nat, rto : Nat, rpo : Nat,
   capacities : [{Amounts[i] : i \in DOMAIN Amounts} -> Int]]

ASSUME CatalogAssumption ==
  /\ Catalog.plans \in Seq(CatalogPlans)
  /\ \A i, j \in DOMAIN Catalog.plans : Catalog.plans[i].key = Catalog.plans[j].key => i = j
  /\ Catalog.storage \in Int /\ Catalog.memory \in Int /\ Catalog.staff \in Int
  /\ Catalog.priceDate \in Int /\ Catalog.validUntil \in Int

\* weights of the profiles; a CUSTOM profile brings its own
Preset(profile) ==
  LET row == IF profile = "ECONOMIC" THEN <<35, 15, 20, 20, 10>> ELSE <<15, 35, 25, 10, 15>>
  IN  [g \in GroupSet |-> row[CHOOSE i \in DOMAIN Groups : Groups[i] = g]]
RawWeights(options) ==
  IF options.profile = "CUSTOM" THEN options.custom ELSE Preset(options.profile)
===============================================================================
