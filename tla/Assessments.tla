------------------------------ MODULE Assessments ------------------------------
(***************************************************************************)
(* Scenarios, their versions and the assessments made of them (api.py,     *)
(* intake/service.py) for one organisation.                                *)
(*                                                                         *)
(* A version is saved with the number of the version its author was shown. *)
(* An assessment is computed between two transactions: the first reads the *)
(* version, the second stores the result.  Every writing transaction locks *)
(* the organisation's row and checks the author's right under that lock,   *)
(* so it is one step here; everything else may happen between two steps of *)
(* a request.  A client may send the same idempotency key again, with the  *)
(* same or with another body.                                              *)
(***************************************************************************)
EXTENDS Naturals, FiniteSets

CONSTANTS
  Users,
  Keys,          \* idempotency keys
  Options,       \* weight profile, horizon and date asked for
  Requests,      \* requests under way at a time
  MaxVersion,    \* bound on the versions of the scenario
  MaxAssessments \* bound on stored assessments

ASSUME AssessmentAssumption ==
  MaxVersion \in Nat \ {0} /\ MaxAssessments \in Nat \ {0}

VARIABLES
  writers,      \* active members who may write
  revision,     \* company_profiles.revision, 0 before the scenario is created
  versions,     \* rows [no, base]: base is the version its author was shown
  catalog,      \* whether the cost catalogue of this release is stored
  assessments,  \* rows [id, user, key, body, input]
  req,
  answers       \* observation: what clients were told, [user, key, body, id]

vars == <<writers, revision, versions, catalog, assessments, req, answers>>

Body == [version : 1..MaxVersion, options : Options]
None == [step |-> "FREE"]

Init ==
  /\ writers = Users
  /\ revision = 0 /\ versions = {}
  /\ catalog = FALSE
  /\ assessments = {}
  /\ req = [r \in Requests |-> None]
  /\ answers = {}
-------------------------------------------------------------------------------
(* Plausible mistakes in the definitions below; no definition uses them.  *)
UnchangedOrOlder(e) == e.shown <= revision
NewestInput(b) == revision
-------------------------------------------------------------------------------
\* check_write
MayWrite(u) == u \in writers

\* save_version writes the version and its rows
SaveVersion(n, base) == versions' = versions \cup {[no |-> n, base |-> base]}

\* create_scenario
CreateScenario(u) ==
  /\ revision = 0
  /\ MayWrite(u)
  /\ revision' = 1
  /\ SaveVersion(1, 0)
  /\ UNCHANGED <<writers, catalog, assessments, req, answers>>

\* scenario_response: the newest version and its number by one statement
Show(r, u) ==
  /\ req[r] = None
  /\ \E v \in versions :
       /\ \A w \in versions : w.no <= v.no
       /\ req' = [req EXCEPT ![r] = [step |-> "SHOWN", user |-> u, shown |-> v.no]]
  /\ UNCHANGED <<writers, revision, versions, catalog, assessments, answers>>

\* require_write lets a new version or an assessment through
AskVersion(r) ==
  /\ req[r].step = "SHOWN"
  /\ req[r].user \in writers
  /\ req' = [req EXCEPT ![r].step = "SAVING"]
  /\ UNCHANGED <<writers, revision, versions, catalog, assessments, answers>>
AskAssessment(r, u, k, b) ==
  /\ req[r] = None
  /\ u \in writers
  /\ req' = [req EXCEPT ![r] = [step |-> "ASKED", user |-> u, key |-> k, body |-> b]]
  /\ UNCHANGED <<writers, revision, versions, catalog, assessments, answers>>

\* expected_current_version
Unchanged(e) == revision = e.shown
NextNumber(e) == revision + 1

\* create_version
CreateVersion(r) ==
  LET e == req[r]
  IN  /\ e.step = "SAVING"
      /\ MayWrite(e.user)
      /\ Unchanged(e)
      /\ NextNumber(e) <= MaxVersion
      /\ revision' = NextNumber(e)
      /\ SaveVersion(NextNumber(e), e.shown)
      /\ req' = [req EXCEPT ![r] = None]
      /\ UNCHANGED <<writers, catalog, assessments, answers>>

\* existing: the row of this user and key; another body is refused
OfKey(row, e) == row.user = e.user /\ row.key = e.key
Existing(e) == {row \in assessments : OfKey(row, e)}
SameBody(row, e) == row.body = e.body

\* either transaction answers with the row it finds (200)
Repeat(r) ==
  LET e == req[r]
  IN  /\ e.step = "ASKED" \/ (e.step = "EVALUATED" /\ MayWrite(e.user))
      /\ \E row \in Existing(e) :
           /\ SameBody(row, e)
           /\ answers' = answers \cup {[user |-> e.user, key |-> e.key, body |-> e.body, id |-> row.id]}
      /\ req' = [req EXCEPT ![r] = None]
      /\ UNCHANGED <<writers, revision, versions, catalog, assessments>>

Input(b) == b.version

\* the first transaction, and the evaluation of what it has read
Evaluate(r) ==
  LET e == req[r]
  IN  /\ e.step = "ASKED"
      /\ Existing(e) = {}
      /\ \E v \in versions : v.no = e.body.version
      /\ catalog
      /\ req' = [req EXCEPT ![r] =
           [step |-> "EVALUATED", user |-> e.user, key |-> e.key, body |-> e.body,
            input |-> Input(e.body)]]
      /\ UNCHANGED <<writers, revision, versions, catalog, assessments, answers>>

\* the second one stores the aggregate and answers with it (201)
Store(r) ==
  LET e == req[r]
      id == Cardinality(assessments) + 1
  IN  /\ e.step = "EVALUATED"
      /\ id <= MaxAssessments
      /\ MayWrite(e.user)
      /\ Existing(e) = {}
      /\ assessments' = assessments \cup
           {[id |-> id, user |-> e.user, key |-> e.key, body |-> e.body, input |-> e.input]}
      /\ answers' = answers \cup {[user |-> e.user, key |-> e.key, body |-> e.body, id |-> id]}
      /\ req' = [req EXCEPT ![r] = None]
      /\ UNCHANGED <<writers, revision, versions, catalog>>

\* refused with 403, 404, 409, 422 or 503, given up, or the API died
Drop(r) ==
  /\ req[r] # None
  /\ req' = [req EXCEPT ![r] = None]
  /\ UNCHANGED <<writers, revision, versions, catalog, assessments, answers>>

\* memberships change; the seed stores the catalogue of the release
Entitle ==
  \E u \in Users :
    /\ writers' = IF u \in writers THEN writers \ {u} ELSE writers \cup {u}
    /\ UNCHANGED <<revision, versions, catalog, assessments, req, answers>>
Seed ==
  /\ ~catalog
  /\ catalog' = TRUE
  /\ UNCHANGED <<writers, revision, versions, assessments, req, answers>>

Next ==
  \/ \E u \in Users : CreateScenario(u)
  \/ \E r \in Requests :
       \/ \E u \in Users : Show(r, u) \/ \E k \in Keys, b \in Body : AskAssessment(r, u, k, b)
       \/ AskVersion(r) \/ CreateVersion(r) \/ Repeat(r) \/ Evaluate(r) \/ Store(r) \/ Drop(r)
  \/ Entitle \/ Seed

Spec == Init /\ [][Next]_vars
-------------------------------------------------------------------------------
(* Types. *)
Version == [no : 1..MaxVersion, base : 0..MaxVersion]
Answer == [user : Users, key : Keys, body : Body, id : 1..MaxAssessments]
Editing == [step : {"SHOWN", "SAVING"}, user : Users, shown : 1..MaxVersion]
Asked == [step : {"ASKED"}, user : Users, key : Keys, body : Body]
Evaluated ==
  [step : {"EVALUATED"}, user : Users, key : Keys, body : Body, input : 1..MaxVersion]
Row == [id : 1..MaxAssessments, user : Users, key : Keys, body : Body, input : 1..MaxVersion]
TypeOK ==
  /\ writers \subseteq Users /\ revision \in 0..MaxVersion /\ catalog \in BOOLEAN
  /\ versions \subseteq Version /\ assessments \subseteq Row /\ answers \subseteq Answer
  /\ req \in [Requests -> {None} \cup Editing \cup Asked \cup Evaluated]

(* The versions of a scenario are numbered from 1 to its revision without  *)
(* a gap or a duplicate, and each was written by an author who had been    *)
(* shown the one before it: no concurrent editing loses a version.         *)
NoLostVersion ==
  /\ {v.no : v \in versions} = 1..revision
  /\ \A v \in versions : v.base = v.no - 1

(* Whatever is repeated, raced or refused, all answers to one key of one   *)
(* user show one assessment, and it is the stored one of that user for     *)
(* exactly the body that was sent.                                         *)
OneAssessmentPerKey ==
  /\ \A a, b \in answers : a.user = b.user /\ a.key = b.key => a = b
  /\ \A a \in answers : \E row \in assessments :
       row.id = a.id /\ row.user = a.user /\ row.key = a.key /\ row.body = a.body

(* An assessment stores the version it was asked for, although newer       *)
(* versions are saved between its two transactions.                        *)
AssessedAsAsked == \A row \in assessments : row.input = row.body.version

(* A version or an assessment is only stored while its author may write,   *)
(* not only when the request came in.                                      *)
StoredByWriter ==
  [][\A r \in Requests :
       /\ versions' # versions /\ req[r] # None /\ req'[r] = None => req[r].user \in writers
       /\ assessments' # assessments /\ req[r] # None /\ req'[r] = None => req[r].user \in writers]_vars

\* what of the rows the promise is about
Names == Users \X Keys
RowsOf(n) == {row \in assessments : row.user = n[1] /\ row.key = n[2]}
Bound(n) ==
  IF RowsOf(n) = {} THEN None
  ELSE LET row == CHOOSE row \in RowsOf(n) : TRUE
       IN  [id |-> row.id, body |-> row.body, input |-> row.input]
Assessed == [n \in Names |-> Bound(n)]
Told == {[name |-> <<a.user, a.key>>, body |-> a.body, id |-> a.id] : a \in answers}
Bases == [n \in 1..revision |-> (CHOOSE v \in versions : v.no = n).base]

Service == INSTANCE ScenarioService
  WITH Bodies <- Body, Ids <- 1..MaxAssessments, NoAssessment <- None,
       bases <- Bases, assessed <- Assessed, told <- Told

(* Whatever is repeated, raced, refused or given up between the two looks  *)
(* for an existing row (create_assessment, create_version): versions and   *)
(* answers are those of a service that does each of these in one step.     *)
ImplementsService == Service!Spec

(* Inductive strengthening: numbers of rows, and what a request holds is a *)
(* version that exists.                                                    *)
Rows ==
  /\ IsFiniteSet(assessments)
  /\ \A a, b \in assessments : a.id = b.id \/ OfKey(a, b) => a = b
  /\ {row.id : row \in assessments} = 1..Cardinality(assessments)
Held ==
  \A r \in Requests :
    /\ req[r].step \in {"SHOWN", "SAVING"} => req[r].shown <= revision
    /\ req[r].step = "EVALUATED" =>
         req[r].input = req[r].body.version /\ req[r].input <= revision
IInv == TypeOK /\ NoLostVersion /\ OneAssessmentPerKey /\ AssessedAsAsked /\ Rows /\ Held
===============================================================================
