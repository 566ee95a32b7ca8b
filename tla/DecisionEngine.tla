---------------------------- MODULE DecisionEngine ----------------------------
(***************************************************************************)
(* The assessment of one scenario (decisions/engine.py): cost lines, hard  *)
(* constraints, criteria, score, rank, recommendation and sensitivity of   *)
(* the catalog's plans.  Texts are left out; evidence is named by the      *)
(* source it must come from.                                               *)
(***************************************************************************)
EXTENDS DecisionData, SequencesExt

(* Plausible mistakes in the definitions below; no definition uses them.  *)
RoundedDown(n, d) == n \div d
UnknownPasses(key, known, passed) ==
  [key |-> key, status |-> IF ~known \/ passed THEN "PASS" ELSE "FAIL"]
StatusUnknownFirst(constraints, costs, criteria, weights) ==
  IF \E i \in DOMAIN constraints : constraints[i].status = "UNKNOWN" THEN "INDETERMINATE"
  ELSE IF \E i \in DOMAIN constraints : constraints[i].status = "FAIL" THEN "EXCLUDED"
  ELSE "ELIGIBLE"
-------------------------------------------------------------------------------
\* half up, of the nonnegative fraction n / d
Rounded(n, d) == (2 * n + d) \div (2 * d)

\* sum of a function over a finite set, as a fold over the set's elements
Total(f) == FoldFunction(+, 0, f)

\* a price that is missing, negative or out of range is unknown, never zero
PriceValue(p) == IF p \in 0..MaxPrice THEN p ELSE Unknown

(* calculate_costs *)
Line(id, category, recurrence, quantity, price, source, horizon) ==
  LET unit == PriceValue(price)
      amount == Rounded(quantity * unit, QuantityScale)
  IN  [id |-> id, category |-> category, recurrence |-> recurrence,
       quantity |-> quantity, price |-> unit, source |-> source,
       total |-> IF quantity = Unknown \/ unit = Unknown THEN Unknown
                 ELSE IF recurrence = "MONTHLY" THEN amount * horizon ELSE amount]

\* people are whole, everything else comes in parts
People(w) == IF w.user_count = Unknown THEN Unknown ELSE w.user_count * QuantityScale

WorkloadLines(w, plan, horizon) ==
  LET monthly(part, quantity, price, source) ==
        Line(<<w.key, part>>, "OPEX", "MONTHLY", quantity, price, source, horizon)
  IN  <<monthly("runtime", IF plan.unit = "user" THEN People(w) ELSE w.vcpu_count,
                plan.price, plan.key),
        monthly("storage", w.storage_gib, Catalog.storage, "storage"),
        monthly("memory", w.memory_gib, Catalog.memory, "memory")>>

Lines(s, plan, horizon) ==
  FlattenSeq([i \in DOMAIN s.workloads |-> WorkloadLines(s.workloads[i], plan, horizon)])
  \o <<Line(<<"plan", "setup">>, IF plan.key = "HYBRID" THEN "CAPEX" ELSE "OPEX", "ONCE",
            QuantityScale, plan.setup, plan.key, horizon),
       Line(<<"plan", "operations">>, "OPEX", "MONTHLY", plan.staff, Catalog.staff,
            "staff", horizon)>>

TotalFor(lines, Chosen(_)) ==
  LET I == {i \in DOMAIN lines : Chosen(lines[i])}
  IN  IF \E i \in I : lines[i].total = Unknown THEN Unknown
      ELSE Total([i \in I |-> lines[i].total])

Summed(lines, horizon) ==
  LET capex == TotalFor(lines, LAMBDA l : l.category = "CAPEX")
      opex == TotalFor(lines, LAMBDA l : l.category = "OPEX")
      monthly == TotalFor(lines, LAMBDA l : l.recurrence = "MONTHLY")
  IN  [lines |-> lines, capex |-> capex, opex |-> opex,
       complete |-> \A i \in DOMAIN lines : lines[i].total # Unknown,
       tco |-> IF Unknown \in {capex, opex} THEN Unknown ELSE capex + opex,
       startup |-> TotalFor(lines, LAMBDA l : l.recurrence = "ONCE"),
       monthly |-> IF monthly = Unknown THEN Unknown ELSE monthly \div horizon]

Costs(s, plan, horizon) == Summed(Lines(s, plan, horizon), horizon)

(* constraint_results *)
Check(key, known, passed) ==
  [key |-> key, status |-> IF ~known THEN "UNKNOWN" ELSE IF passed THEN "PASS" ELSE "FAIL"]

Targets == <<[field |-> "max_latency_ms", model |-> "latency", atMost |-> TRUE],
             [field |-> "availability_percent", model |-> "availability", atMost |-> FALSE],
             [field |-> "rto_seconds", model |-> "rto", atMost |-> TRUE],
             [field |-> "rpo_seconds", model |-> "rpo", atMost |-> TRUE]>>

WorkloadChecks(w, plan) ==
  <<Check(<<w.key, "function">>, TRUE, w.type \in plan.supported)>>
  \o [i \in DOMAIN Amounts |->
        LET need == w[Amounts[i]]
            capacity == PriceValue(plan.capacities[Amounts[i]])
        IN  Check(<<w.key, Amounts[i]>>, Unknown \notin {need, capacity}, need <= capacity)]
  \o [i \in DOMAIN Targets |->
        LET t == Targets[i]
            target == w[t.field]
        IN  Check(<<w.key, t.field>>, target # Unknown,
                  IF t.atMost THEN plan[t.model] <= target ELSE plan[t.model] >= target)]
  \o <<Check(<<w.key, "internet">>, w.internet # "unknown", w.internet = "yes"),
       Check(<<w.key, "sensitivity">>, w.sensitivity # "unknown", w.sensitivity # "RESTRICTED")>>

BudgetCheck(s, costs) ==
  Check(<<"plan", "budget">>,
        costs.complete /\ Unknown \notin {s.initial, s.monthly},
        costs.startup <= s.initial /\ costs.monthly <= s.monthly)

Constraints(s, plan, costs, date) ==
  LET valid == Catalog.priceDate <= date /\ date <= Catalog.validUntil
      checks == <<Check(<<"plan", "price_validity">>, valid, valid),
                  Check(<<"plan", "region">>, TRUE, s.region = "EU"),
                  Check(<<"plan", "staff">>, s.staff # Unknown, s.staff >= plan.staff)>>
                \o FlattenSeq([i \in DOMAIN s.workloads |-> WorkloadChecks(s.workloads[i], plan)])
                \o IF s.hard THEN <<BudgetCheck(s, costs)>> ELSE <<>>
  IN  [i \in DOMAIN checks |-> [key |-> checks[i].key, status |-> checks[i].status,
                                source |-> plan.key]]

(* criterion_values: points between 0 and 100, rounded once *)
AtLeastZero(n) == IF n < 0 THEN 0 ELSE n

\* 100 - 50 * n / d as a fraction
Anchored(n, d) == <<AtLeastZero(100 * d - 50 * n), d>>

Mean(fractions) ==
  LET sum == FoldSeq(LAMBDA x, y : <<x[1] * y[2] + y[1] * x[2], x[2] * y[2]>>,
                     <<0, 1>>, fractions)
  IN  <<sum[1], sum[2] * Len(fractions)>>

Points(fraction) ==
  LET p == Rounded(PointScale * fraction[1], fraction[2])
  IN  IF p > 100 * PointScale THEN 100 * PointScale ELSE p

Average(values, Fraction(_)) ==
  IF \E i \in DOMAIN values : values[i] = Unknown THEN Unknown
  ELSE Points(Mean([i \in DOMAIN values |-> Fraction(values[i])]))

CostPoints(s, costs, horizon) ==
  LET budget == s.initial + s.monthly * horizon
  IN  IF Unknown \in {s.initial, s.monthly, costs.tco} THEN Unknown
      ELSE IF budget = 0 THEN IF costs.tco = 0 THEN 100 * PointScale ELSE 0
      ELSE Points(Anchored(costs.tco, budget))

Criteria(s, plan, costs, horizon) ==
  LET column(field) == [i \in DOMAIN s.workloads |-> s.workloads[i][field]]
      atLeastOne(v) == IF v < 1 THEN 1 ELSE v
  IN  [g \in GroupSet |->
        CASE g = "cost" -> CostPoints(s, costs, horizon)
          [] g = "performance" ->
               Average(column("max_latency_ms"), LAMBDA v : Anchored(plan.latency, v))
          [] g = "resilience" ->
               Average(column("rto_seconds"), LAMBDA v : Anchored(plan.rto, atLeastOne(v)))
          [] g = "operations" ->
               IF s.staff = Unknown THEN Unknown
               ELSE Points(<<AtLeastZero(100 * (s.staff + QuantityScale - plan.staff)),
                             s.staff + QuantityScale>>)
          [] g = "governance" -> Points(<<plan.governance, 1>>)]

(* evaluate *)
Status(constraints, costs, criteria, weights) ==
  IF \E i \in DOMAIN constraints : constraints[i].status = "FAIL" THEN "EXCLUDED"
  ELSE IF \/ \E i \in DOMAIN constraints : constraints[i].status = "UNKNOWN"
          \/ ~costs.complete
          \/ \E g \in GroupSet : criteria[g] = Unknown /\ weights[g] > 0
       THEN "INDETERMINATE" ELSE "ELIGIBLE"

Weighted(criteria, weights) ==
  Rounded(Total([g \in GroupSet |->
                   weights[g] * (IF criteria[g] = Unknown THEN 0 ELSE criteria[g])]),
          Total(weights))

Components(plan) ==
  <<plan.model>> \o IF plan.key = "HYBRID" THEN <<"cloud backup">> ELSE <<>>

Judged(s, plan, weights, costs, constraints, criteria) ==
  LET status == Status(constraints, costs, criteria, weights)
  IN  [key |-> plan.key, status |-> status, costs |-> costs, constraints |-> constraints,
       criteria |-> criteria, rank |-> Unknown, source |-> plan.key,
       score |-> IF status = "ELIGIBLE" THEN Weighted(criteria, weights) ELSE Unknown,
       assignments |-> [i \in DOMAIN s.workloads |->
                          [key |-> s.workloads[i].key, components |-> Components(plan),
                           source |-> plan.key]]]

Priced(s, o, plan, costs) ==
  Judged(s, plan, RawWeights(o), costs,
         Constraints(s, plan, costs, o.date), Criteria(s, plan, costs, o.horizon))
Candidate(s, o, plan) == Priced(s, o, plan, Costs(s, plan, o.horizon))

\* first by score, then by key
Best(S, score) ==
  CHOOSE a \in S : \A b \in S \ {a} : score[a] > score[b] \/ (score[a] = score[b] /\ Before(a, b))

Eligible(cs) == {cs[i].key : i \in {i \in DOMAIN cs : cs[i].status = "ELIGIBLE"}}
Incomplete(cs) == \E i \in DOMAIN cs : cs[i].status = "INDETERMINATE"
ScoreOf(cs) == [k \in Eligible(cs) |-> (CHOOSE c \in Range(cs) : c.key = k).score]

\* equal scores share a rank and the next score has the next rank
Ranked(cs) ==
  [i \in DOMAIN cs |->
     [cs[i] EXCEPT !.rank =
        IF cs[i].status = "ELIGIBLE"
        THEN Cardinality({ScoreOf(cs)[k] : k \in {k \in Eligible(cs) : ScoreOf(cs)[k] > cs[i].score}}) + 1
        ELSE Unknown]]

\* one weight changed by a fifth, in fifths of the raw weights
Varied(weights, g, fifths) == [h \in GroupSet |-> weights[h] * (IF h = g THEN fifths ELSE 5)]

Variations(cs, weights, winner) ==
  LET one(g, fifths) ==
        LET w == Varied(weights, g, fifths)
            chosen == Best(Eligible(cs),
                           [k \in Eligible(cs) |->
                              Weighted((CHOOSE c \in Range(cs) : c.key = k).criteria, w)])
        IN  [group |-> g, fifths |-> fifths, winner |-> chosen, changed |-> chosen # winner]
  IN  FlattenSeq([i \in DOMAIN Groups |-> <<one(Groups[i], 4), one(Groups[i], 6)>>])

\* the distance of the two best scores
Gap(cs) ==
  LET score == ScoreOf(cs)
      first == Best(Eligible(cs), score)
      second == Best(Eligible(cs) \ {first}, score)
  IN  score[first] - score[second]

\* the INPUT entries carry their inputs, every other entry what its source holds
Evidence ==
  <<[id |-> "rules", value |-> "rules"], [id |-> "storage", value |-> "catalog"],
    [id |-> "memory", value |-> "catalog"], [id |-> "staff", value |-> "catalog"]>>
  \o [i \in DOMAIN Catalog.plans |-> [id |-> Catalog.plans[i].key, value |-> "catalog"]]

Concluded(s, o, cs) ==
  LET weights == RawWeights(o)
      decided == Eligible(cs) # {} /\ ~Incomplete(cs)
      winner == IF decided THEN Best(Eligible(cs), ScoreOf(cs)) ELSE "none"
      variations == IF decided THEN Variations(cs, weights, winner) ELSE <<>>
  IN  [status |-> IF Incomplete(cs) THEN "INCOMPLETE"
                  ELSE IF Eligible(cs) # {} THEN "VERIFIED" ELSE "NO_FEASIBLE_OPTION",
       candidates |-> cs, recommended |-> winner, weights |-> weights,
       horizon |-> o.horizon, version |-> Catalog.version, inputs |-> [scenario |-> s, options |-> o],
       evidence |-> Evidence,
       variations |-> variations,
       changes |-> Cardinality({i \in DOMAIN variations : variations[i].changed}),
       gap |-> IF decided /\ Cardinality(Eligible(cs)) > 1 THEN Gap(cs) ELSE Unknown]

Draft(s, o) ==
  Concluded(s, o, Ranked([i \in DOMAIN Catalog.plans |-> Candidate(s, o, Catalog.plans[i])]))

\* what is stored: a draft the verifier refuses recommends nothing
Released(draft, valid) ==
  IF valid THEN draft
  ELSE [draft EXCEPT !.status = "VERIFICATION_FAILED", !.recommended = "none"]
===============================================================================
