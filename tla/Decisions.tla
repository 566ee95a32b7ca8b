------------------------------ MODULE Decisions ------------------------------
(***************************************************************************)
(* The assessment of a scenario: the engine drafts a result, the           *)
(* independent verifier recomputes it, and a result it refuses recommends  *)
(* nothing (decisions/engine.py, evaluate).  A draft may be damaged on its *)
(* way to the verifier, and a member edits the scenario and has it         *)
(* assessed again.                                                         *)
(***************************************************************************)
EXTENDS DecisionEngine

Verifier == INSTANCE DecisionVerifier

CONSTANTS
  Scenarios,    \* scenarios to start from
  Options,      \* options to start from
  MaxChanges    \* edits of the scenario and damages of a draft, together

(* What the request's validation lets through (decisions/schemas.py).      *)
Known == Nat \cup {Unknown}
Positive == Known \ {0}
Sensitivities == {"PUBLIC", "INTERNAL", "CONFIDENTIAL", "RESTRICTED", "unknown"}

WorkloadInputs ==
  [key : STRING, type : STRING, user_count : Positive, vcpu_count : Positive,
   memory_gib : Positive, storage_gib : Known, max_latency_ms : Positive,
   availability_percent : Known, rto_seconds : Known, rpo_seconds : Known,
   internet : {"yes", "no", "unknown"}, sensitivity : Sensitivities]

ScenarioInputs ==
  {s \in [workloads : Seq(WorkloadInputs) \ {<<>>}, staff : Known, initial : Known,
          monthly : Known, hard : BOOLEAN, region : STRING] :
     \A i, j \in DOMAIN s.workloads : s.workloads[i].key = s.workloads[j].key => i = j}

OptionInputs ==
  {o \in [profile : STRING, custom : [GroupSet -> Nat], horizon : Nat \ {0}, date : Int] :
     \E g \in GroupSet : RawWeights(o)[g] > 0}

ASSUME DecisionAssumption ==
  /\ Scenarios \subseteq ScenarioInputs
  /\ Options \subseteq OptionInputs
  /\ MaxChanges \in Nat

VARIABLES
  scenario, options,
  draft,      \* what the engine drafted
  presented,  \* what the verifier was given
  valid,      \* its verdict
  edits, damages

decisionVars == <<scenario, options, draft, presented, valid, edits, damages>>

Result == Released(presented, valid)

DecisionInit ==
  /\ scenario \in Scenarios
  /\ options \in Options
  /\ draft = Draft(scenario, options)
  /\ presented = draft
  /\ valid = Verifier!Valid(scenario, options, presented)
  /\ edits = 0 /\ damages = 0
-------------------------------------------------------------------------------
(* One field of a stored or passed result has another value of its type,   *)
(* or a row of a list is lost, doubled or exchanged with the next.         *)
Bumped(v) == {IF v = Unknown THEN 0 ELSE v + 1} \cup (IF v > 0 THEN {Unknown, v - 1} ELSE {})

RowDamages(rows, Changed(_)) ==
  {RemoveAt(rows, i) : i \in DOMAIN rows}
  \cup {Append(rows, rows[i]) : i \in DOMAIN rows}
  \cup {[rows EXCEPT ![i] = rows[i + 1], ![i + 1] = rows[i]] : i \in 1..(Len(rows) - 1)}
  \cup UNION {{[rows EXCEPT ![i] = row] : row \in Changed(rows[i])} : i \in DOMAIN rows}

LineDamages(line) ==
  (UNION {{[line EXCEPT ![f] = v] : v \in Bumped(line[f])} : f \in {"quantity", "price", "total"}})
  \cup {[line EXCEPT !.recurrence = IF @ = "ONCE" THEN "MONTHLY" ELSE "ONCE"],
        [line EXCEPT !.category = IF @ = "CAPEX" THEN "OPEX" ELSE "CAPEX"],
        [line EXCEPT !.source = "elsewhere"]}

ConstraintDamages(c) ==
  {[c EXCEPT !.status = x] : x \in {"PASS", "FAIL", "UNKNOWN"}} \cup {[c EXCEPT !.source = "elsewhere"]}

CandidateDamages(c) ==
  {[c EXCEPT !.status = x] : x \in {"ELIGIBLE", "INDETERMINATE", "EXCLUDED"}}
  \cup (UNION {{[c EXCEPT ![f] = v] : v \in Bumped(c[f])} : f \in {"score", "rank"}})
  \cup (UNION {{[c EXCEPT !.criteria[g] = v] : v \in Bumped(c.criteria[g])} : g \in GroupSet})
  \cup (UNION {{[c EXCEPT !.costs[f] = v] : v \in Bumped(c.costs[f])}
               : f \in {"capex", "opex", "tco", "startup", "monthly"}})
  \cup {[c EXCEPT !.costs.complete = ~@], [c EXCEPT !.source = "elsewhere"]}
  \cup {[c EXCEPT !.costs.lines = rows] : rows \in RowDamages(c.costs.lines, LineDamages)}
  \cup {[c EXCEPT !.constraints = rows] : rows \in RowDamages(c.constraints, ConstraintDamages)}
  \cup {[c EXCEPT !.assignments = rows]
        : rows \in RowDamages(c.assignments,
                              LAMBDA a : {[a EXCEPT !.components = Append(@, "cloud backup")],
                                          [a EXCEPT !.source = "elsewhere"]})}

Damages(d) ==
  {[d EXCEPT !.candidates = rows] : rows \in RowDamages(d.candidates, CandidateDamages)}
  \cup {[d EXCEPT !.evidence = rows]
        : rows \in RowDamages(d.evidence, LAMBDA e : {[e EXCEPT !.value = "elsewhere"]})}
  \cup {[d EXCEPT !.recommended = key] : key \in ToSet(PlanKeys) \cup {"none"}}
  \cup {[d EXCEPT !.status = x] : x \in {"VERIFIED", "INCOMPLETE", "NO_FEASIBLE_OPTION"}}
  \cup {[d EXCEPT !.weights[g] = @ + 1] : g \in GroupSet}
  \cup {[d EXCEPT !.variations = rows]
        : rows \in RowDamages(d.variations,
                              LAMBDA v : {[v EXCEPT !.winner = key] : key \in ToSet(PlanKeys)}
                                         \cup {[v EXCEPT !.changed = ~@]})}
  \cup (UNION {{[d EXCEPT ![f] = v] : v \in Bumped(d[f])} : f \in {"changes", "gap", "horizon"}})
  \cup {[d EXCEPT !.version = "older"]}

\* the answer to other inputs under the name of these
Mistaken(d) ==
  {[Draft(s, o) EXCEPT !.inputs = d.inputs] : s \in Scenarios, o \in Options}

Damage ==
  /\ edits + damages < MaxChanges
  /\ \E d \in (Damages(presented) \cup Mistaken(presented)) \ {presented} :
       /\ presented' = d
       /\ valid' = Verifier!Valid(scenario, options, d)
  /\ damages' = damages + 1
  /\ UNCHANGED <<scenario, options, draft, edits>>
-------------------------------------------------------------------------------
MeasuredFields == {"user_count", "vcpu_count", "memory_gib", "storage_gib", "max_latency_ms",
                   "availability_percent", "rto_seconds", "rpo_seconds"}
ProfileFields == {"staff", "initial", "monthly"}

\* the scenario after a member has deleted one thing that was known
Forgotten(s) ==
  {[s EXCEPT ![f] = Unknown] : f \in ProfileFields}
  \cup UNION {{[s EXCEPT !.workloads[i][f] = Unknown] : f \in MeasuredFields}
              \cup {[s EXCEPT !.workloads[i][f] = "unknown"] : f \in {"internet", "sensitivity"}}
              : i \in DOMAIN s.workloads}

\* after a member has asked for more of one thing, or for the same with less
Tightened(s) ==
  {[s EXCEPT !.hard = TRUE]}
  \cup {[s EXCEPT ![f] = @ \div 2] : f \in {p \in ProfileFields : s[p] > 0}}
  \cup UNION {
    LET w == s.workloads[i]
        halved == {f \in {"max_latency_ms", "rto_seconds", "rpo_seconds"} : w[f] > 1}
        raised == {f \in {"user_count", "vcpu_count", "memory_gib", "storage_gib",
                          "availability_percent"} : w[f] # Unknown}
    IN  {[s EXCEPT !.workloads[i][f] = @ \div 2] : f \in halved}
        \cup {[s EXCEPT !.workloads[i][f] = @ + 1] : f \in raised}
        \cup {[s EXCEPT !.workloads[i].sensitivity = IF @ = "unknown" THEN @ ELSE "RESTRICTED"]}
    : i \in DOMAIN s.workloads}

\* the edited scenario is assessed again
Edit ==
  /\ edits < MaxChanges /\ damages = 0
  /\ \E s \in (Forgotten(scenario) \cup Tightened(scenario)) \ {scenario} :
       /\ scenario' = s
       /\ draft' = Draft(s, options)
       /\ presented' = draft'
       /\ valid' = Verifier!Valid(s, options, draft')
  /\ edits' = edits + 1
  /\ UNCHANGED <<options, damages>>

DecisionNext == Damage \/ Edit
DecisionSpec == DecisionInit /\ [][DecisionNext]_decisionVars
-------------------------------------------------------------------------------
(* Inductive: scenario and options are inputs the validation lets through, *)
(* the draft is the engine's answer to them, and the verdict the           *)
(* verifier's about what it was given.                                     *)
DecisionInv ==
  /\ scenario \in ScenarioInputs /\ options \in OptionInputs
  /\ draft = Draft(scenario, options)
  /\ {"status", "recommended"} \subseteq DOMAIN presented
  /\ valid = Verifier!Valid(scenario, options, presented)

(* Two independent computations agree: the verifier refuses no draft of    *)
(* the engine, whatever is unknown, zero or out of range in it.            *)
EngineAccepted == presented = draft => valid

\* the same rows, as often, in any order
SameRows(u, v) == Len(u) = Len(v) /\ ToSet(u) = ToSet(v)

SameCandidate(c, d) ==
  /\ \A f \in {"key", "status", "score", "criteria", "rank", "source"} : c[f] = d[f]
  /\ \A f \in {"complete", "capex", "opex", "tco", "startup", "monthly"} : c.costs[f] = d.costs[f]
  /\ SameRows(c.costs.lines, d.costs.lines)
  /\ SameRows(c.constraints, d.constraints)
  /\ SameRows(c.assignments, d.assignments)

\* equal in every field but for the order in which rows are listed
SameAnswer(r, t) ==
  /\ \A f \in {"status", "recommended", "weights", "horizon", "version",
                "variations", "changes", "gap"} : r[f] = t[f]
  /\ \A f \in {"scenario", "options"} : r.inputs[f] = t.inputs[f]
  /\ SameRows(r.evidence, t.evidence)
  /\ Len(r.candidates) = Len(t.candidates)
  /\ {c.key : c \in ToSet(r.candidates)} = {d.key : d \in ToSet(t.candidates)}
  /\ \A c \in ToSet(r.candidates), d \in ToSet(t.candidates) : c.key = d.key => SameCandidate(c, d)

(* verify: whatever has happened to a result on its way, or was computed   *)
(* for other inputs and put under the name of these, is refused and        *)
(* recommends nothing, unless it says just what the engine's draft says.   *)
(* The verifier reads rows by identifier, so their order may differ.       *)
DamageRejected ==
  ~SameAnswer(presented, draft) =>
    ~valid /\ Result.recommended = "none" /\ Result.status = "VERIFICATION_FAILED"

\* every demand of a workload is known, and the plan meets it
MeetsDemands(plan, w) ==
  /\ \A f \in MeasuredFields : w[f] # Unknown
  /\ \A a \in ToSet(Amounts) : plan.capacities[a] \in w[a]..MaxPrice
  /\ plan.latency <= w.max_latency_ms /\ plan.availability >= w.availability_percent
  /\ plan.rto <= w.rto_seconds /\ plan.rpo <= w.rpo_seconds
  /\ w.internet = "yes" /\ w.sensitivity \notin {"unknown", "RESTRICTED"}
  /\ w.type \in plan.supported

(* What is recommended rests on no unknown fact: every other plan is       *)
(* decided, every demand of every workload is known and met by the plan as *)
(* the catalog has it, its costs are complete and within a hard budget,    *)
(* and no plan with a higher score is eligible.                            *)
RecommendationRests ==
  Result.recommended # "none" =>
    \E c \in ToSet(Result.candidates) :
      /\ c.key = Result.recommended
      /\ \A d \in ToSet(Result.candidates) :
           d.status = "EXCLUDED" \/ (d.status = "ELIGIBLE" /\ d.score <= c.score)
      /\ scenario.region = "EU" /\ scenario.staff >= Verifier!PlanOf(c.key).staff
      /\ options.date \in Catalog.priceDate..Catalog.validUntil
      /\ \A l \in ToSet(c.costs.lines) : l.total # Unknown /\ l.price \in 0..MaxPrice
      /\ scenario.hard =>
           /\ Unknown \notin {scenario.initial, scenario.monthly}
           /\ c.costs.startup <= scenario.initial
           /\ c.costs.tco - c.costs.startup <= scenario.monthly * options.horizon
      /\ \A i \in DOMAIN scenario.workloads :
           MeetsDemands(Verifier!PlanOf(c.key), scenario.workloads[i])

Chosen(d, status) == {c.key : c \in {x \in ToSet(d.candidates) : x.status = status}}
Reassessed == edits' # edits

\* t is s with less known
LessKnown(s, t) ==
  /\ t.region = s.region /\ t.hard = s.hard
  /\ \A f \in ProfileFields : t[f] \in {s[f], Unknown}
  /\ \A i \in DOMAIN s.workloads :
       /\ \A f \in MeasuredFields : t.workloads[i][f] \in {s.workloads[i][f], Unknown}
       /\ \A f \in {"internet", "sensitivity"} : t.workloads[i][f] \in {s.workloads[i][f], "unknown"}

(* Forgetting a fact never makes a plan eligible, excludes no plan, and    *)
(* never makes another plan win: it can only cost the recommendation.      *)
ForgettingNeverHelps ==
  [][Reassessed /\ LessKnown(scenario, scenario') =>
       /\ Chosen(draft', "ELIGIBLE") \subseteq Chosen(draft, "ELIGIBLE")
       /\ Chosen(draft', "EXCLUDED") \subseteq Chosen(draft, "EXCLUDED")
       /\ draft'.recommended \in {draft.recommended, "none"}]_decisionVars

(* Asking for more, or spending less, never brings an excluded plan back.  *)
TighteningExcludes ==
  [][Reassessed /\ ~LessKnown(scenario, scenario') =>
       Chosen(draft, "EXCLUDED") \subseteq Chosen(draft', "EXCLUDED")]_decisionVars
===============================================================================
