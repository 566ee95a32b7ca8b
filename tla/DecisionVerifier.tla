--------------------------- MODULE DecisionVerifier ---------------------------
(***************************************************************************)
(* The recomputation of an assessment (decisions/verifier.py).  Like the   *)
(* code it takes nothing from the engine: it shares the raw catalog and    *)
(* the data types only, and every formula here is the verifier's own.      *)
(*                                                                         *)
(* The code collects errors in a list; Valid is the list being empty, one  *)
(* conjunct per check.  Expected values are computed for every plan of the *)
(* catalog; a result without one of its candidates is refused anyhow.      *)
(***************************************************************************)
EXTENDS DecisionData, SequencesExt

\* one row per identifier, and exactly these rows
Exactly(rows, S) == ToSet(rows) = S /\ Len(rows) = Cardinality(S)

(* Plausible mistakes in the definitions below; no definition uses them.  *)
CostsByLineOnly(c, e) == Exactly(c.costs.lines, e.lines)
AvailabilityTurned(w, plan) == w.availability_percent >= plan.availability
-------------------------------------------------------------------------------
Cents(n, d) == (n \div d) + (IF 2 * (n % d) >= d THEN 1 ELSE 0)

ValidPrice(p) == IF p < 0 \/ p > MaxPrice THEN Unknown ELSE p

Keys == {Catalog.plans[i].key : i \in DOMAIN Catalog.plans}
PlanOf(key) == Catalog.plans[CHOOSE i \in DOMAIN Catalog.plans : Catalog.plans[i].key = key]
Workloads(s) == ToSet(s.workloads)

(* cost lines *)
ExpectedLine(id, category, recurrence, quantity, price, source, times) ==
  [id |-> id, category |-> category, recurrence |-> recurrence, quantity |-> quantity,
   price |-> price, source |-> source,
   total |-> IF Unknown \in {quantity, price} THEN Unknown
             ELSE times * Cents(quantity * price, QuantityScale)]

RuntimeQuantity(w, plan) ==
  IF plan.unit # "user" THEN w.vcpu_count
  ELSE IF w.user_count = Unknown THEN Unknown ELSE QuantityScale * w.user_count

ExpectedLines(s, plan, h) ==
  LET monthly(id, quantity, price, source) ==
        ExpectedLine(id, "OPEX", "MONTHLY", quantity, ValidPrice(price), source, h)
  IN  (UNION {{monthly(<<w.key, "runtime">>, RuntimeQuantity(w, plan), plan.price, plan.key),
               monthly(<<w.key, "storage">>, w.storage_gib, Catalog.storage, "storage"),
               monthly(<<w.key, "memory">>, w.memory_gib, Catalog.memory, "memory")}
              : w \in Workloads(s)})
      \cup {ExpectedLine(<<"plan", "setup">>, IF plan.key = "HYBRID" THEN "CAPEX" ELSE "OPEX",
                         "ONCE", QuantityScale, ValidPrice(plan.setup), plan.key, 1),
            monthly(<<"plan", "operations">>, plan.staff, Catalog.staff, "staff")}

Sum(lines) ==
  IF \E l \in lines : l.total = Unknown THEN Unknown ELSE SumFunction([l \in lines |-> l.total])

ExpectedSums(lines, h) ==
  LET capex == Sum({l \in lines : l.category = "CAPEX"})
      opex == Sum({l \in lines : l.category = "OPEX"})
      monthly == Sum({l \in lines : l.recurrence = "MONTHLY"})
  IN  [complete |-> Unknown \notin {capex, opex}, capex |-> capex, opex |-> opex,
       tco |-> IF Unknown \in {capex, opex} THEN Unknown ELSE capex + opex,
       startup |-> Sum({l \in lines : l.recurrence = "ONCE"}),
       monthly |-> IF monthly = Unknown THEN Unknown ELSE monthly \div h]

(* hard constraints: a set of keys with their states *)
State(key, unknown, passed) ==
  <<key, IF unknown THEN "UNKNOWN" ELSE IF passed THEN "PASS" ELSE "FAIL">>

AvailabilityMet(w, plan) == w.availability_percent <= plan.availability

WorkloadStates(w, plan) ==
  {State(<<w.key, "function">>, FALSE, w.type \in plan.supported),
   State(<<w.key, "max_latency_ms">>, w.max_latency_ms = Unknown, w.max_latency_ms >= plan.latency),
   State(<<w.key, "availability_percent">>, w.availability_percent = Unknown,
         AvailabilityMet(w, plan)),
   State(<<w.key, "rto_seconds">>, w.rto_seconds = Unknown, w.rto_seconds >= plan.rto),
   State(<<w.key, "rpo_seconds">>, w.rpo_seconds = Unknown, w.rpo_seconds >= plan.rpo),
   State(<<w.key, "internet">>, w.internet = "unknown", w.internet # "no"),
   State(<<w.key, "sensitivity">>, w.sensitivity = "unknown", w.sensitivity # "RESTRICTED")}
  \cup {LET capacity == ValidPrice(plan.capacities[a])
        IN  State(<<w.key, a>>, w[a] = Unknown \/ capacity = Unknown, capacity >= w[a])
        : a \in ToSet(Amounts)}

ExpectedStates(s, o, plan, sums) ==
  LET date == o.date \in Catalog.priceDate..Catalog.validUntil
  IN  {State(<<"plan", "price_validity">>, ~date, TRUE),
       State(<<"plan", "region">>, FALSE, s.region = "EU"),
       State(<<"plan", "staff">>, s.staff = Unknown, plan.staff <= s.staff)}
      \cup (UNION {WorkloadStates(w, plan) : w \in Workloads(s)})
      \cup IF ~s.hard THEN {}
           ELSE {State(<<"plan", "budget">>,
                       ~sums.complete \/ s.initial = Unknown \/ s.monthly = Unknown,
                       sums.startup <= s.initial /\ sums.monthly <= s.monthly)}

(* criteria and score *)
Larger(a, b) == IF a > b THEN a ELSE b
Smaller(a, b) == IF a < b THEN a ELSE b
Product(values) == FoldSeq(LAMBDA x, y : x * y, 1, values)

\* the mean of 100 - 50 * actual / value over the workloads, at least 0 each
MeanPoints(actual, values) ==
  LET all == Product(values)
      points == [i \in DOMAIN values |->
                   Larger(0, 100 * values[i] - actual * 50) * (all \div values[i])]
  IN  IF Unknown \in ToSet(values) THEN Unknown
      ELSE Cents(PointScale * SumFunction(points), all * Len(values))

ExpectedCriteria(s, o, plan, sums) ==
  LET budget == IF Unknown \in {s.initial, s.monthly} THEN Unknown
                ELSE s.initial + o.horizon * s.monthly
      value(g) ==
        CASE g = "cost" ->
               IF budget = Unknown \/ sums.tco = Unknown THEN Unknown
               ELSE IF budget > 0
                    THEN Cents(PointScale * Larger(0, 100 * budget - sums.tco * 50), budget)
               ELSE IF sums.tco = 0 THEN PointScale * 100 ELSE 0
          [] g = "performance" ->
               MeanPoints(plan.latency,
                          [i \in DOMAIN s.workloads |-> s.workloads[i].max_latency_ms])
          [] g = "resilience" ->
               LET rto == [i \in DOMAIN s.workloads |-> s.workloads[i].rto_seconds]
               IN  IF Unknown \in ToSet(rto) THEN Unknown
                   ELSE MeanPoints(plan.rto, [i \in DOMAIN rto |-> Larger(1, rto[i])])
          [] g = "operations" ->
               IF s.staff = Unknown THEN Unknown
               ELSE LET people == s.staff + QuantityScale
                    IN  Cents(PointScale * 100 * Larger(0, people - plan.staff), people)
          [] OTHER -> PointScale * Smaller(100, plan.governance)
  IN  [g \in GroupSet |-> value(g)]

WeightedPoints(criteria, weights) ==
  Cents(SumFunction([g \in GroupSet |-> weights[g] * Larger(0, criteria[g])]),
        SumFunction([g \in GroupSet |-> weights[g]]))

\* everything expected of one plan
Expected(s, o, key) ==
  LET plan == PlanOf(key)
      weights == RawWeights(o)
      lines == ExpectedLines(s, plan, o.horizon)
      sums == ExpectedSums(lines, o.horizon)
      states == ExpectedStates(s, o, plan, sums)
      criteria == ExpectedCriteria(s, o, plan, sums)
      found == {state[2] : state \in states}
      status == IF "FAIL" \in found THEN "EXCLUDED"
                ELSE IF \/ ~sums.complete
                        \/ "UNKNOWN" \in found
                        \/ \E g \in GroupSet : weights[g] > 0 /\ criteria[g] = Unknown
                     THEN "INDETERMINATE" ELSE "ELIGIBLE"
  IN  [key |-> key, lines |-> lines, sums |-> sums, states |-> states, criteria |-> criteria,
       status |-> status,
       score |-> IF status = "ELIGIBLE" THEN WeightedPoints(criteria, weights) ELSE Unknown]

(* the checks, in the order of the code *)
BoundToRequest(o, r) ==
  r.weights = RawWeights(o) /\ r.horizon = o.horizon /\ r.version = Catalog.version

EvidenceHolds(s, o, r) ==
  /\ r.inputs.scenario = s /\ r.inputs.options = o
  /\ Exactly(r.evidence,
             {[id |-> "rules", value |-> "rules"]}
             \cup {[id |-> id, value |-> "catalog"] : id \in {"storage", "memory", "staff"} \cup Keys})

CostsHold(c, e) ==
  Exactly(c.costs.lines, e.lines) /\ \A f \in DOMAIN e.sums : c.costs[f] = e.sums[f]

ConstraintsHold(c, e) ==
  Exactly(c.constraints,
          {[key |-> x[1], status |-> x[2], source |-> c.key] : x \in e.states})

AssignmentsHold(s, c) ==
  LET parts == IF c.key = "HYBRID" THEN <<PlanOf(c.key).model, "cloud backup">>
               ELSE <<PlanOf(c.key).model>>
  IN  Exactly(c.assignments,
              {[key |-> w.key, components |-> parts, source |-> c.key] : w \in Workloads(s)})

CandidateHolds(s, c, e) ==
  /\ CostsHold(c, e)
  /\ ConstraintsHold(c, e)
  /\ c.criteria = e.criteria
  /\ c.status = e.status /\ c.score = e.score
  /\ c.source = c.key
  /\ AssignmentsHold(s, c)

\* keys from the best to the worst: each stands behind those that beat it
Ordered(S, score) ==
  LET beats(a, b) == score[a] > score[b] \/ (score[a] = score[b] /\ Before(a, b))
  IN  [i \in 1..Cardinality(S) |-> CHOOSE a \in S : Cardinality({b \in S : beats(b, a)}) = i - 1]

\* the numbers of a set, the largest first
Descending(S) ==
  [i \in 1..Cardinality(S) |-> CHOOSE a \in S : Cardinality({b \in S : b > a}) = i - 1]

RankHolds(c, E) ==
  LET scores == Descending({e.score : e \in E} \ {Unknown})
      mine == (CHOOSE e \in E : e.key = c.key).score
  IN  c.rank = IF mine = Unknown THEN Unknown ELSE CHOOSE i \in DOMAIN scores : scores[i] = mine

ConclusionHolds(o, r, E) ==
  LET of(key) == CHOOSE e \in E : e.key = key
      eligible == {e.key : e \in {x \in E : x.status = "ELIGIBLE"}}
      ordered == Ordered(eligible, [k \in eligible |-> of(k).score])
      incomplete == \E e \in E : e.status = "INDETERMINATE"
      decided == eligible # {} /\ ~incomplete
      winner == IF decided THEN Head(ordered) ELSE "none"
      raw == RawWeights(o)
      variation(g, fifths) ==
        LET varied == [raw EXCEPT ![g] = @ * fifths]
            w == [h \in GroupSet |-> IF h = g THEN varied[h] ELSE 5 * varied[h]]
            first == Head(Ordered(eligible, [k \in eligible |-> WeightedPoints(of(k).criteria, w)]))
        IN  [group |-> g, fifths |-> fifths, winner |-> first, changed |-> first # winner]
      variations ==
        IF ~decided THEN <<>>
        ELSE [i \in 1..(2 * Len(Groups)) |->
                variation(Groups[(i + 1) \div 2], IF i % 2 = 1 THEN 4 ELSE 6)]
  IN  /\ r.recommended = winner
      /\ r.status = IF incomplete THEN "INCOMPLETE"
                    ELSE IF eligible # {} THEN "VERIFIED" ELSE "NO_FEASIBLE_OPTION"
      /\ r.variations = variations
      /\ r.changes = SumFunction([i \in DOMAIN variations |-> IF variations[i].changed THEN 1 ELSE 0])
      /\ r.gap = IF decided /\ Len(ordered) > 1
                 THEN of(ordered[1]).score - of(ordered[2]).score ELSE Unknown

Valid(s, o, r) ==
  LET E == {Expected(s, o, key) : key \in Keys}
  IN  /\ BoundToRequest(o, r)
      /\ EvidenceHolds(s, o, r)
      /\ {c.key : c \in ToSet(r.candidates)} = Keys /\ Len(r.candidates) = Cardinality(Keys)
      /\ \A c \in ToSet(r.candidates) :
           /\ CandidateHolds(s, c, CHOOSE e \in E : e.key = c.key)
           /\ RankHolds(c, E)
      /\ ConclusionHolds(o, r, E)
===============================================================================
