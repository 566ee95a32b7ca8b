----------------------------- MODULE MCDecisions -----------------------------
(* Decisions over a catalog of small numbers: quantities in halves, whole   *)
(* points, prices of a few cents, so that rounding, ties and limits happen. *)
EXTENDS Decisions, TLC

Room(users, parts) == [user_count |-> users, vcpu_count |-> parts,
                       memory_gib |-> parts, storage_gib |-> parts]

Plan(key, supported, model, price, setup, staff, unit, governance, room) ==
  [key |-> key, supported |-> supported, model |-> <<key, "PUBLIC_CLOUD", "PROVIDER">>,
   price |-> price, setup |-> setup, staff |-> staff, unit |-> unit,
   governance |-> governance, capacities |-> room,
   latency |-> model[1], availability |-> model[2], rto |-> model[3], rpo |-> model[4]]

SmallPlans ==
  <<Plan("SAAS", {"BUSINESS_APP"}, <<4, 2, 6, 3>>, 3, 5, 1, "user", 65, Room(3, 8)),
    Plan("PAAS", {"BUSINESS_APP", "WEB_APP"}, <<2, 3, 4, 2>>, 9, 8, 1, "vcpu", 75, Room(4, 6)),
    Plan("IAAS", {"BUSINESS_APP", "WEB_APP"}, <<2, 3, 4, 2>>, 7, 12, 2, "vcpu", 70, Room(6, 8)),
    Plan("HYBRID", {"BUSINESS_APP"}, <<1, 2, 8, 3>>, 4, 20, 3, "vcpu", 85, Room(2, 4))>>

SmallCatalog ==
  [version |-> "v2", priceDate |-> 10, validUntil |-> 20, storage |-> 1, memory |-> 3,
   staff |-> 10, plans |-> SmallPlans]

\* the plan that only web applications may use has a setup price beyond the
\* bound, a price below zero and more governance than there are points
MixedCatalog ==
  [SmallCatalog EXCEPT !.plans[4] =
     Plan("HYBRID", {"WEB_APP"}, <<1, 2, 8, 3>>, -3, 2000, 3, "vcpu", 120, Room(2, 4))]

Workload(key, type, users, latency, rto) ==
  [key |-> key, type |-> type, user_count |-> users, vcpu_count |-> 2, memory_gib |-> 2,
   storage_gib |-> 3, max_latency_ms |-> latency, availability_percent |-> 2, rto_seconds |-> rto,
   rpo_seconds |-> 3, internet |-> "yes", sensitivity |-> "INTERNAL"]

Scenario(workloads, staff, initial, monthly, hard, region) ==
  [workloads |-> workloads, staff |-> staff, initial |-> initial, monthly |-> monthly,
   hard |-> hard, region |-> region]

App == Workload("a", "BUSINESS_APP", 2, 8, 9)
Web == Workload("b", "WEB_APP", 2, 3, 5)
Steady == [App EXCEPT !.availability_percent = 9]
Crowd == Workload("d", "BUSINESS_APP", 5, 6, 6)
Instant == Workload("c", "BUSINESS_APP", 1, 4, 0)

MixedScenarios ==
  {Scenario(<<App>>, 4, initial, 40, hard, "EU") : initial \in {Unknown, 0, 30}, hard \in BOOLEAN}
  \cup {Scenario(<<Crowd>>, staff, 30, 60, FALSE, "EU") : staff \in {2, 5}}
  \cup {Scenario(<<App, Web>>, 4, 30, 90, TRUE, "EU"), Scenario(<<Web>>, 4, 30, 90, TRUE, "EU"),
        Scenario(<<Steady>>, 4, 30, 40, FALSE, "EU"), Scenario(<<Instant>>, 2, 0, 0, FALSE, "EU"), Scenario(<<App>>, 4, 30, 40, FALSE, "US")}

NoWeights == [g \in GroupSet |-> 0]
Economic == [profile |-> "ECONOMIC", custom |-> NoWeights, horizon |-> 3, date |-> 15]
Fast == [profile |-> "PERFORMANCE", custom |-> NoWeights, horizon |-> 1, date |-> 20]
Late == [profile |-> "ECONOMIC", custom |-> NoWeights, horizon |-> 3, date |-> 21]
CostFree == [profile |-> "CUSTOM", custom |-> [NoWeights EXCEPT !["performance"] = 1, !["governance"] = 1],
             horizon |-> 2, date |-> 10]

SomeOptions == {Economic, Fast, Late, CostFree}
===============================================================================
