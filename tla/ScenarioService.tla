---------------------------- MODULE ScenarioService ----------------------------
(***************************************************************************)
(* What members may rely on who edit one scenario and have its versions    *)
(* assessed, without requests, transactions or rights: the versions follow *)
(* one another, each written by an author who knew the one before it; a    *)
(* name (a user and an idempotency key) is bound at most once, and then    *)
(* for good, to an assessment of the version that was asked for; whoever   *)
(* is answered under a name has asked for just that and is shown it.       *)
(***************************************************************************)
EXTENDS Naturals, Sequences

CONSTANTS Names, Bodies, Ids, MaxVersion, NoAssessment

VARIABLES
  bases,     \* of each version the one its author knew
  assessed,  \* the assessment a name is bound to
  told       \* what has been answered

vars == <<bases, assessed, told>>

Init ==
  /\ bases = <<>>
  /\ assessed = [n \in Names |-> NoAssessment]
  /\ told = {}

Save ==
  /\ Len(bases) < MaxVersion
  /\ bases' = Append(bases, Len(bases))
  /\ UNCHANGED <<assessed, told>>

Answer(n, a) == [name |-> n, body |-> a.body, id |-> a.id]

Assess(n, b, id) ==
  LET a == [id |-> id, body |-> b, input |-> b.version]
  IN  /\ assessed[n] = NoAssessment
      /\ b.version \in 1..Len(bases)
      /\ \A m \in Names : assessed[m] # NoAssessment => assessed[m].id # id
      /\ assessed' = [assessed EXCEPT ![n] = a]
      /\ told' = told \cup {Answer(n, a)}
      /\ UNCHANGED bases

Repeat(n) ==
  /\ assessed[n] # NoAssessment
  /\ told' = told \cup {Answer(n, assessed[n])}
  /\ UNCHANGED <<bases, assessed>>

Next ==
  \/ Save
  \/ \E n \in Names : Repeat(n) \/ \E b \in Bodies, id \in Ids : Assess(n, b, id)

Spec == Init /\ [][Next]_vars
===============================================================================
