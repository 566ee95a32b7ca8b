-------------------------- MODULE Assessments_proofs --------------------------
(***************************************************************************)
(* Proofs about Assessments.                                               *)
(*                                                                         *)
(* Versions: a new version is the successor of the newest one and of the   *)
(* one its author was shown, because both are compared under the lock.     *)
(* Assessments: a row is stored only when there is none of its user and    *)
(* key, and every answer names a row, so answers to one key agree.         *)
(* The service: a name is bound to the one row of its user and key, so     *)
(* storing binds a free name, and nothing else changes what is bound.      *)
(***************************************************************************)
EXTENDS Assessments, SequenceTheorems, FiniteSetTheorems, TLAPS

(* The parts of the invariant that steps of requests disturb.              *)
VersionPart == versions \subseteq Version /\ revision \in 0..MaxVersion /\ NoLostVersion
RowPart ==
  /\ assessments \subseteq Row /\ answers \subseteq Answer
  /\ OneAssessmentPerKey /\ AssessedAsAsked /\ Rows
RequestPart(r) ==
  /\ req[r] \in {None} \cup Editing \cup Asked \cup Evaluated
  /\ req[r].step \in {"SHOWN", "SAVING"} => req[r].shown <= revision
  /\ req[r].step = "EVALUATED" => req[r].input = req[r].body.version /\ req[r].input <= revision

LEMMA Regrouped ==
  IInv <=> /\ req \in [Requests -> {None} \cup Editing \cup Asked \cup Evaluated]
           /\ writers \subseteq Users /\ catalog \in BOOLEAN
           /\ VersionPart /\ RowPart /\ \A r \in Requests : RequestPart(r)
BY DEF IInv, TypeOK, Held, VersionPart, RowPart, RequestPart

LEMMA RegroupedNext ==
  IInv' <=> /\ req' \in [Requests -> {None} \cup Editing \cup Asked \cup Evaluated]
            /\ writers' \subseteq Users /\ catalog' \in BOOLEAN
            /\ VersionPart' /\ RowPart' /\ \A r \in Requests : RequestPart(r)'
BY DEF IInv, TypeOK, Held, VersionPart, RowPart, RequestPart

(* Rows and versions that stay keep their part.                            *)
LEMMA VersionsKept ==
  ASSUME VersionPart, UNCHANGED <<versions, revision>>
  PROVE  VersionPart'
BY DEF VersionPart, NoLostVersion

LEMMA RowsKept ==
  ASSUME RowPart, UNCHANGED <<assessments, answers>>
  PROVE  RowPart'
BY DEF RowPart, OneAssessmentPerKey, AssessedAsAsked, Rows, OfKey

(* A request keeps its part while versions are only added.                 *)
LEMMA RequestKept ==
  ASSUME NEW r \in Requests, RequestPart(r), req'[r] = req[r],
         revision \in Nat, revision' \in Nat, revision <= revision'
  PROVE  RequestPart(r)'
<1>1. CASE req[r] = None
  BY <1>1 DEF RequestPart, None
<1>2. CASE req[r] \in Editing
  BY <1>2 DEF RequestPart, Editing
<1>3. CASE req[r] \in Asked
  BY <1>3 DEF RequestPart, Asked
<1>4. CASE req[r] \in Evaluated
  BY <1>4 DEF RequestPart, Evaluated
<1> QED BY <1>1, <1>2, <1>3, <1>4 DEF RequestPart

LEMMA RequestFreed ==
  ASSUME NEW r \in Requests, req'[r] = None
  PROVE  RequestPart(r)'
BY DEF RequestPart, None

LEMMA Revision == ASSUME VersionPart PROVE revision \in Nat /\ MaxVersion \in Nat /\ MaxVersion > 0
BY AssessmentAssumption DEF VersionPart

LEMMA InitInv == Init => IInv
<1> SUFFICES ASSUME Init PROVE IInv
  OBVIOUS
<1>1. VersionPart
  BY AssessmentAssumption DEF Init, VersionPart, NoLostVersion
<1>2. RowPart
  <2>1. IsFiniteSet({}) /\ Cardinality({}) = 0
    BY FS_EmptySet
  <2> QED BY <2>1 DEF Init, RowPart, OneAssessmentPerKey, AssessedAsAsked, Rows, OfKey
<1>3. \A r \in Requests : RequestPart(r)
  BY DEF Init, RequestPart, None
<1> QED BY <1>1, <1>2, <1>3, Regrouped DEF Init

-------------------------------------------------------------------------------
(* The next version follows the newest one.                                *)
LEMMA VersionAdded ==
  ASSUME VersionPart, revision + 1 <= MaxVersion, revision' = revision + 1,
         versions' = versions \cup {[no |-> revision + 1, base |-> revision]}
  PROVE  VersionPart'
<1>1. revision \in Nat /\ MaxVersion \in Nat
  BY Revision
<1> DEFINE new == [no |-> revision + 1, base |-> revision]
<1>2. new \in Version /\ new.no = revision + 1 /\ new.base = new.no - 1
  BY <1>1 DEF Version
<1> HIDE DEF new
<1>3. versions' = versions \cup {new}
  BY DEF new
<1>4. {v.no : v \in versions'} = {v.no : v \in versions} \cup {new.no}
  BY <1>3
<1>5. {v.no : v \in versions'} = 1..revision'
  BY <1>1, <1>2, <1>4 DEF VersionPart, NoLostVersion
<1>6. \A v \in versions' : v.base = v.no - 1
  BY <1>2, <1>3 DEF VersionPart, NoLostVersion
<1>7. versions' \subseteq Version /\ revision' \in 0..MaxVersion
  BY <1>1, <1>2, <1>3 DEF VersionPart
<1> QED BY <1>5, <1>6, <1>7 DEF VersionPart, NoLostVersion

LEMMA CreateScenarioInv ==
  ASSUME IInv, NEW u \in Users, CreateScenario(u)
  PROVE  IInv'
<1>1. /\ revision = 0 /\ revision' = 1
      /\ versions' = versions \cup {[no |-> 1, base |-> 0]}
      /\ UNCHANGED <<writers, catalog, assessments, req, answers>>
  BY DEF CreateScenario, SaveVersion
<1>2. VersionPart'
  <2>1. revision + 1 = 1 /\ 1 <= MaxVersion
    BY <1>1, AssessmentAssumption
  <2>2. VersionPart
    BY Regrouped
  <2>3. versions' = versions \cup {[no |-> revision + 1, base |-> revision]}
    BY <1>1
  <2> QED BY <1>1, <2>1, <2>2, <2>3, VersionAdded
<1>3. RowPart'
  BY <1>1, Regrouped, RowsKept
<1>4. \A r \in Requests : RequestPart(r)'
  BY <1>1, Regrouped, RequestKept
<1> QED BY <1>1, <1>2, <1>3, <1>4, Regrouped, RegroupedNext

(* A step that gives one request a new shape and writes nothing else.      *)
LEMMA RequestStep ==
  ASSUME IInv, NEW r \in Requests, NEW e, req' = [req EXCEPT ![r] = e], RequestPart(r)',
         UNCHANGED <<writers, revision, versions, catalog, assessments, answers>>
  PROVE  IInv'
<1>1. ASSUME NEW q \in Requests PROVE RequestPart(q)'
  <2>1. CASE q = r
    BY <2>1
  <2>2. CASE q # r
    <3>1. req'[q] = req[q]
      BY <2>2, Regrouped
    <3> QED BY <3>1, Regrouped, Revision, RequestKept
  <2> QED BY <2>1, <2>2
<1>2. VersionPart' /\ RowPart'
  BY Regrouped, VersionsKept, RowsKept
<1>3. req' \in [Requests -> {None} \cup Editing \cup Asked \cup Evaluated]
  BY <1>1, Regrouped DEF RequestPart
<1> QED BY <1>1, <1>2, <1>3, Regrouped, RegroupedNext

(* The newest version is shown to an author.                               *)
LEMMA ShowInv ==
  ASSUME IInv, NEW r \in Requests, NEW u \in Users, Show(r, u)
  PROVE  IInv'
<1>1. PICK v \in versions :
        req' = [req EXCEPT ![r] = [step |-> "SHOWN", user |-> u, shown |-> v.no]]
  BY DEF Show
<1>2. v.no \in 1..MaxVersion /\ v.no <= revision
  <2>1. VersionPart
    BY Regrouped
  <2>2. v.no \in 1..revision
    BY <2>1 DEF VersionPart, NoLostVersion
  <2> QED BY <2>1, <2>2, Revision DEF VersionPart, Version
<1> DEFINE new == [step |-> "SHOWN", user |-> u, shown |-> v.no]
<1>3. new \in Editing /\ new.step = "SHOWN" /\ new.shown <= revision
  BY <1>2 DEF Editing
<1> HIDE DEF new
<1>4. req' = [req EXCEPT ![r] = new] /\ UNCHANGED <<writers, revision, versions, catalog, assessments, answers>>
  BY <1>1 DEF Show, new
<1>5. RequestPart(r)'
  BY <1>3, <1>4, Regrouped DEF RequestPart
<1> QED BY <1>4, <1>5, RequestStep

(* require_write lets the author's change through.                         *)
LEMMA AskVersionInv ==
  ASSUME IInv, NEW r \in Requests, AskVersion(r)
  PROVE  IInv'
<1> DEFINE new == [req[r] EXCEPT !.step = "SAVING"]
<1>1. RequestPart(r) /\ req[r].step = "SHOWN"
  BY Regrouped DEF AskVersion
<1>2. req[r] \in Editing
  BY <1>1 DEF RequestPart, None, Asked, Evaluated
<1>3. new \in Editing /\ new.step = "SAVING" /\ new.shown = req[r].shown
  BY <1>2 DEF Editing
<1> HIDE DEF new
<1>4. req' = [req EXCEPT ![r] = new] /\ UNCHANGED <<writers, revision, versions, catalog, assessments, answers>>
  BY DEF AskVersion, new
<1>5. RequestPart(r)'
  BY <1>1, <1>3, <1>4, Regrouped DEF RequestPart
<1> QED BY <1>4, <1>5, RequestStep

LEMMA AskAssessmentInv ==
  ASSUME IInv, NEW r \in Requests, NEW u \in Users, NEW k \in Keys, NEW b \in Body,
         AskAssessment(r, u, k, b)
  PROVE  IInv'
<1> DEFINE new == [step |-> "ASKED", user |-> u, key |-> k, body |-> b]
<1>1. new \in Asked /\ new.step = "ASKED"
  BY DEF Asked
<1> HIDE DEF new
<1>2. req' = [req EXCEPT ![r] = new] /\ UNCHANGED <<writers, revision, versions, catalog, assessments, answers>>
  BY DEF AskAssessment, new
<1>3. RequestPart(r)'
  BY <1>1, <1>2, Regrouped DEF RequestPart
<1> QED BY <1>2, <1>3, RequestStep

(* A request for an assessment keeps its types.                            *)
LEMMA AskedTyped ==
  ASSUME IInv, NEW r \in Requests, req[r].step \in {"ASKED", "EVALUATED"}
  PROVE  req[r].user \in Users /\ req[r].key \in Keys /\ req[r].body \in Body
<1>1. req[r] \in Asked \/ req[r] \in Evaluated
  BY Regrouped DEF RequestPart, None, Editing
<1> QED BY <1>1 DEF Asked, Evaluated

(* The version asked for exists, and is what is evaluated.                 *)
LEMMA EvaluateInv ==
  ASSUME IInv, NEW r \in Requests, Evaluate(r)
  PROVE  IInv'
<1> DEFINE e == req[r]
<1> DEFINE new == [step |-> "EVALUATED", user |-> e.user, key |-> e.key, body |-> e.body,
                   input |-> e.body.version]
<1>1. e.user \in Users /\ e.key \in Keys /\ e.body \in Body
  BY AskedTyped DEF Evaluate
<1>2. e.body.version <= revision
  <2>1. PICK v \in versions : v.no = e.body.version
    BY DEF Evaluate
  <2>2. VersionPart
    BY Regrouped
  <2>3. v.no \in 1..revision
    BY <2>2 DEF VersionPart, NoLostVersion
  <2> QED BY <2>1, <2>2, <2>3, Revision
<1>3. new \in Evaluated /\ new.step = "EVALUATED" /\ new.input = new.body.version /\ new.input <= revision
  BY <1>1, <1>2 DEF Evaluated, Body
<1>4. req' = [req EXCEPT ![r] = new] /\ UNCHANGED <<writers, revision, versions, catalog, assessments, answers>>
  BY DEF Evaluate, Input
<1> HIDE DEF new
<1>5. RequestPart(r)'
  BY <1>3, <1>4, Regrouped DEF RequestPart
<1> QED BY <1>4, <1>5, RequestStep

LEMMA DropInv ==
  ASSUME IInv, NEW r \in Requests, Drop(r)
  PROVE  IInv'
<1>1. req' = [req EXCEPT ![r] = None] /\ UNCHANGED <<writers, revision, versions, catalog, assessments, answers>>
  BY DEF Drop
<1>2. RequestPart(r)'
  BY <1>1, Regrouped, RequestFreed
<1> QED BY <1>1, <1>2, RequestStep

-------------------------------------------------------------------------------
(* create_version: the newest version is the one the author was shown.     *)
LEMMA CreateVersionInv ==
  ASSUME IInv, NEW r \in Requests, CreateVersion(r)
  PROVE  IInv'
<1>1. /\ revision = req[r].shown /\ revision + 1 <= MaxVersion /\ revision' = revision + 1
      /\ versions' = versions \cup {[no |-> revision + 1, base |-> req[r].shown]}
      /\ req' = [req EXCEPT ![r] = None]
      /\ UNCHANGED <<writers, catalog, assessments, answers>>
  BY DEF CreateVersion, Unchanged, NextNumber, SaveVersion
<1>2. VersionPart /\ revision \in Nat
  BY Regrouped, Revision
<1>3. VersionPart'
  BY <1>1, <1>2, VersionAdded
<1>4. RowPart'
  BY <1>1, Regrouped, RowsKept
<1>5. ASSUME NEW q \in Requests PROVE RequestPart(q)'
  <2>1. CASE q = r
    BY <1>1, <2>1, Regrouped, RequestFreed
  <2>2. CASE q # r
    <3>1. req'[q] = req[q]
      BY <1>1, <2>2, Regrouped
    <3> QED BY <1>1, <1>2, <3>1, Regrouped, RequestKept
  <2> QED BY <2>1, <2>2
<1>6. req' \in [Requests -> {None} \cup Editing \cup Asked \cup Evaluated]
  BY <1>1, Regrouped
<1> QED BY <1>1, <1>3, <1>4, <1>5, <1>6, Regrouped, RegroupedNext

(* A step that ends a request and adds its answer, and maybe a row.        *)
LEMMA AnswerStep ==
  ASSUME IInv, NEW r \in Requests, req' = [req EXCEPT ![r] = None], RowPart',
         UNCHANGED <<writers, revision, versions, catalog>>
  PROVE  IInv'
<1>1. VersionPart'
  BY Regrouped, VersionsKept
<1>2. ASSUME NEW q \in Requests PROVE RequestPart(q)'
  <2>1. CASE q = r
    BY <2>1, Regrouped, RequestFreed
  <2>2. CASE q # r
    <3>1. req'[q] = req[q]
      BY <2>2, Regrouped
    <3> QED BY <3>1, Regrouped, Revision, RequestKept
  <2> QED BY <2>1, <2>2
<1>3. req' \in [Requests -> {None} \cup Editing \cup Asked \cup Evaluated]
  BY Regrouped
<1> QED BY <1>1, <1>2, <1>3, Regrouped, RegroupedNext

(* An answer that names a stored row of its user, key and body.            *)
LEMMA AnswersAgree ==
  ASSUME Rows, \A a \in answers : a \in Answer /\ \E row \in assessments :
                 row.id = a.id /\ row.user = a.user /\ row.key = a.key /\ row.body = a.body
  PROVE  OneAssessmentPerKey
<1>1. ASSUME NEW a \in answers, NEW b \in answers, a.user = b.user, a.key = b.key
      PROVE  a = b
  <2>1. PICK x \in assessments :
          x.id = a.id /\ x.user = a.user /\ x.key = a.key /\ x.body = a.body
    OBVIOUS
  <2>2. PICK y \in assessments :
          y.id = b.id /\ y.user = b.user /\ y.key = b.key /\ y.body = b.body
    OBVIOUS
  <2>3. x = y
    BY <1>1, <2>1, <2>2 DEF Rows, OfKey
  <2>4. a.id = b.id /\ a.body = b.body
    BY <2>1, <2>2, <2>3
  <2>5. a \in Answer /\ b \in Answer
    OBVIOUS
  <2> QED BY <1>1, <2>4, <2>5 DEF Answer
<1> QED BY <1>1 DEF OneAssessmentPerKey

LEMMA AnswersAgreeNext ==
  ASSUME Rows', \A a \in answers' : a \in Answer /\ \E row \in assessments' :
                 row.id = a.id /\ row.user = a.user /\ row.key = a.key /\ row.body = a.body
  PROVE  OneAssessmentPerKey'
<1>1. ASSUME NEW a \in answers', NEW b \in answers', a.user = b.user, a.key = b.key
      PROVE  a = b
  <2>1. PICK x \in assessments' :
          x.id = a.id /\ x.user = a.user /\ x.key = a.key /\ x.body = a.body
    OBVIOUS
  <2>2. PICK y \in assessments' :
          y.id = b.id /\ y.user = b.user /\ y.key = b.key /\ y.body = b.body
    OBVIOUS
  <2>3. x = y
    BY <1>1, <2>1, <2>2 DEF Rows, OfKey
  <2>4. a.id = b.id /\ a.body = b.body
    BY <2>1, <2>2, <2>3
  <2>5. a \in Answer /\ b \in Answer
    OBVIOUS
  <2> QED BY <1>1, <2>4, <2>5 DEF Answer
<1> QED BY <1>1 DEF OneAssessmentPerKey

(* Every answer given before names a row of its user, key and body.        *)
LEMMA AnswersStored ==
  ASSUME RowPart, NEW a \in answers
  PROVE  a \in Answer /\ \E row \in assessments :
           row.id = a.id /\ row.user = a.user /\ row.key = a.key /\ row.body = a.body
BY DEF RowPart, OneAssessmentPerKey

(* A repeated request is answered with the stored row of its key.          *)
LEMMA RepeatInv ==
  ASSUME IInv, NEW r \in Requests, Repeat(r)
  PROVE  IInv'
<1> DEFINE e == req[r]
<1>1. PICK row \in Existing(e) :
        /\ row.body = e.body
        /\ answers' = answers \cup {[user |-> e.user, key |-> e.key, body |-> e.body, id |-> row.id]}
  BY DEF Repeat, SameBody
<1>2. /\ req' = [req EXCEPT ![r] = None] /\ e.step \in {"ASKED", "EVALUATED"}
      /\ UNCHANGED <<writers, revision, versions, catalog, assessments>>
  BY DEF Repeat
<1>3. e.user \in Users /\ e.key \in Keys /\ e.body \in Body
  BY <1>2, AskedTyped
<1>4. row \in assessments /\ row.user = e.user /\ row.key = e.key
  BY <1>1 DEF Existing, OfKey
<1>5. RowPart
  BY Regrouped
<1> DEFINE new == [user |-> e.user, key |-> e.key, body |-> e.body, id |-> row.id]
<1>6. new \in Answer
  BY <1>3, <1>4, <1>5 DEF RowPart, Row, Answer
<1>7. /\ row.id = new.id /\ row.user = new.user /\ row.key = new.key /\ row.body = new.body
  BY <1>1, <1>4
<1>8. answers' = answers \cup {new}
  BY <1>1
<1> HIDE DEF new, e
<1>9. \A a \in answers' : a \in Answer /\ \E x \in assessments' :
        x.id = a.id /\ x.user = a.user /\ x.key = a.key /\ x.body = a.body
  BY <1>2, <1>4, <1>5, <1>6, <1>7, <1>8, AnswersStored
<1>10. Rows' /\ AssessedAsAsked' /\ assessments' \subseteq Row
  BY <1>2, <1>5 DEF RowPart, Rows, OfKey, AssessedAsAsked
<1>11. RowPart'
  BY <1>9, <1>10, AnswersAgreeNext DEF RowPart
<1> QED BY <1>2, <1>11, AnswerStep

(* An assessment is stored under the next number, the first of its key.    *)
LEMMA StoreInv ==
  ASSUME IInv, NEW r \in Requests, Store(r)
  PROVE  IInv'
<1> DEFINE e == req[r]
<1> DEFINE id == Cardinality(assessments) + 1
<1> DEFINE row == [id |-> id, user |-> e.user, key |-> e.key, body |-> e.body, input |-> e.input]
<1> DEFINE new == [user |-> e.user, key |-> e.key, body |-> e.body, id |-> id]
<1>1. /\ e.step = "EVALUATED" /\ id <= MaxAssessments /\ Existing(e) = {}
      /\ assessments' = assessments \cup {row} /\ answers' = answers \cup {new}
      /\ req' = [req EXCEPT ![r] = None]
      /\ UNCHANGED <<writers, revision, versions, catalog>>
  BY DEF Store
<1>2. e.user \in Users /\ e.key \in Keys /\ e.body \in Body
  BY <1>1, AskedTyped
<1>3. e.input = e.body.version /\ e.input \in 1..MaxVersion
  BY <1>1, <1>2, Regrouped DEF RequestPart, Body
<1>4. RowPart
  BY Regrouped
<1>5. IsFiniteSet(assessments) /\ Cardinality(assessments) \in Nat
  BY <1>4, FS_CardinalityType DEF RowPart, Rows
<1>6. id \in 1..MaxAssessments
  BY <1>1, <1>5, AssessmentAssumption
<1>7. \A x \in assessments : x.id # id /\ ~(x.user = e.user /\ x.key = e.key)
  <2>1. \A x \in assessments : x.id \in 1..Cardinality(assessments)
    BY <1>4 DEF RowPart, Rows
  <2>2. \A x \in assessments : ~(x.user = e.user /\ x.key = e.key)
    BY <1>1 DEF Existing, OfKey
  <2> QED BY <1>5, <2>1, <2>2
<1>8. /\ row \in Row /\ row.id = id /\ row.user = e.user /\ row.key = e.key
      /\ row.body = e.body /\ row.input = row.body.version
  BY <1>2, <1>3, <1>6 DEF Row
<1>9. /\ new \in Answer /\ row.id = new.id /\ row.user = new.user /\ row.key = new.key
      /\ row.body = new.body
  BY <1>2, <1>6 DEF Answer
<1> HIDE DEF row, new
<1>10. row \notin assessments
  BY <1>7, <1>8
<1>11. IsFiniteSet(assessments') /\ Cardinality(assessments') = id
  BY <1>1, <1>5, <1>10, FS_AddElement
<1>12. {x.id : x \in assessments'} = 1..Cardinality(assessments')
  <2>1. {x.id : x \in assessments'} = {x.id : x \in assessments} \cup {id}
    BY <1>1, <1>8
  <2>2. {x.id : x \in assessments} = 1..Cardinality(assessments)
    BY <1>4 DEF RowPart, Rows
  <2>3. 1..id = (1..Cardinality(assessments)) \cup {id}
    BY <1>5
  <2> QED BY <1>11, <2>1, <2>2, <2>3
<1> HIDE DEF id, e
<1>13. ASSUME NEW a \in assessments', NEW b \in assessments',
              a.id = b.id \/ (a.user = b.user /\ a.key = b.key)
       PROVE  a = b
  <2>1. CASE a \in assessments /\ b \in assessments
    BY <1>4, <1>13, <2>1 DEF RowPart, Rows, OfKey
  <2>2. CASE a = row \/ b = row
    BY <1>1, <1>7, <1>8, <1>13, <2>2
  <2> QED BY <1>1, <2>1, <2>2
<1>14. Rows'
  BY <1>11, <1>12, <1>13 DEF Rows, OfKey
<1>15. AssessedAsAsked' /\ assessments' \subseteq Row
  BY <1>1, <1>4, <1>8 DEF RowPart, AssessedAsAsked
<1>16. \A a \in answers' : a \in Answer /\ \E x \in assessments' :
         x.id = a.id /\ x.user = a.user /\ x.key = a.key /\ x.body = a.body
  BY <1>1, <1>4, <1>9, AnswersStored
<1>17. RowPart'
  BY <1>14, <1>15, <1>16, AnswersAgreeNext DEF RowPart
<1> QED BY <1>1, <1>17, AnswerStep

(* Memberships and the catalogue change around the requests.               *)
LEMMA AroundInv ==
  ASSUME IInv, writers' \subseteq Users, catalog' \in BOOLEAN,
         UNCHANGED <<revision, versions, assessments, req, answers>>
  PROVE  IInv'
<1>1. VersionPart' /\ RowPart'
  BY Regrouped, VersionsKept, RowsKept
<1>2. \A r \in Requests : RequestPart(r)'
  BY Regrouped, Revision, RequestKept
<1> QED BY <1>1, <1>2, Regrouped, RegroupedNext

(* Every step preserves the invariant.                                     *)
LEMMA NextInv == IInv /\ [Next]_vars => IInv'
<1> SUFFICES ASSUME IInv, [Next]_vars PROVE IInv'
  OBVIOUS
<1>1. writers \subseteq Users /\ catalog \in BOOLEAN
  BY Regrouped
<1>2. CASE Entitle
  BY <1>1, <1>2, AroundInv DEF Entitle
<1>3. CASE Seed
  BY <1>1, <1>3, AroundInv DEF Seed
<1>4. CASE UNCHANGED vars
  BY <1>1, <1>4, AroundInv DEF vars
<1> QED
  BY <1>2, <1>3, <1>4, CreateScenarioInv, ShowInv, AskVersionInv, AskAssessmentInv,
     CreateVersionInv, RepeatInv, EvaluateInv, StoreInv, DropInv DEF Next

(* The inductive invariant holds in every reachable state.                 *)
THEOREM Invariance == Spec => []IInv
<1> QED BY InitInv, NextInv, PTL DEF Spec

(* No version is lost, doubled or written over an unseen one, for any      *)
(* number of authors (expected_current_version in create_version).         *)
THEOREM VersionsAreChain == Spec => []NoLostVersion
<1>1. IInv => NoLostVersion
  BY DEF IInv
<1> QED BY <1>1, Invariance, PTL

(* All answers to one idempotency key show one stored assessment           *)
(* (create_assessment with its two looks for an existing row).             *)
THEOREM AnswersAreOne == Spec => []OneAssessmentPerKey
<1>1. IInv => OneAssessmentPerKey
  BY DEF IInv
<1> QED BY <1>1, Invariance, PTL

(* An assessment is of the version that was asked for.                     *)
THEOREM StoredAsAsked == Spec => []AssessedAsAsked
<1>1. IInv => AssessedAsAsked
  BY DEF IInv
<1> QED BY <1>1, Invariance, PTL

(* Nothing is stored for an author without the right to write              *)
(* (check_write under the organisation's lock).                            *)
THEOREM WritersStore == Spec => StoredByWriter
<1>1. ASSUME IInv, [Next]_vars
      PROVE  [\A r \in Requests :
                /\ versions' # versions /\ req[r] # None /\ req'[r] = None => req[r].user \in writers
                /\ assessments' # assessments /\ req[r] # None /\ req'[r] = None => req[r].user \in writers]_vars
  <2> SUFFICES ASSUME NEW r \in Requests, req[r] # None, req'[r] = None,
                      versions' # versions \/ assessments' # assessments
               PROVE  req[r].user \in writers
    OBVIOUS
  <2>1. \/ \E u \in Users : CreateScenario(u)
        \/ \E q \in Requests : CreateVersion(q) \/ Store(q)
    BY <1>1 DEF Next, vars, Show, AskVersion, AskAssessment, Repeat, Evaluate, Drop, Entitle, Seed
  <2>2. ~\E u \in Users : CreateScenario(u)
    BY DEF CreateScenario
  <2>3. PICK q \in Requests : CreateVersion(q) \/ Store(q)
    BY <2>1, <2>2
  <2>4. q = r
    <3>1. req' = [req EXCEPT ![q] = None]
      BY <2>3 DEF CreateVersion, Store
    <3> QED BY <1>1, <3>1, Regrouped
  <2> QED BY <2>3, <2>4 DEF CreateVersion, Store, MayWrite
<1> QED BY <1>1, Invariance, PTL DEF Spec, StoredByWriter

-------------------------------------------------------------------------------
(* The service that does each request in one step.                         *)
OneRow(A) == \A a, b \in A : a.user = b.user /\ a.key = b.key => a = b
Of(A, n) == {row \in A : row.user = n[1] /\ row.key = n[2]}
Shape(row) == [id |-> row.id, body |-> row.body, input |-> row.input]
First(S) == IF S = {} THEN None ELSE Shape(CHOOSE row \in S : TRUE)
BoundIn(A, n) == First(Of(A, n))
ToldIn(T) == {[name |-> <<a.user, a.key>>, body |-> a.body, id |-> a.id] : a \in T}

LEMMA MappedRows ==
  /\ Assessed = [n \in Names |-> BoundIn(assessments, n)]
  /\ Assessed' = [n \in Names |-> BoundIn(assessments', n)]
  /\ Told = ToldIn(answers) /\ Told' = ToldIn(answers')
BY DEF Assessed, Bound, RowsOf, BoundIn, First, Of, Shape, Told, ToldIn

LEMMA ToldAdded ==
  ASSUME NEW T, NEW a
  PROVE  ToldIn(T \cup {a}) = ToldIn(T) \cup {[name |-> <<a.user, a.key>>, body |-> a.body, id |-> a.id]}
BY Zenon DEF ToldIn

LEMMA ShapeIsBound == ASSUME NEW row PROVE Shape(row) # None
<1>1. DOMAIN Shape(row) = {"id", "body", "input"} /\ DOMAIN None = {"step"}
  BY DEF Shape, None
<1>2. "step" \notin {"id", "body", "input"}
  OBVIOUS
<1> QED BY <1>1, <1>2

(* A bound name has a row, and shows it.                                   *)
LEMMA BoundRow ==
  ASSUME NEW A, NEW n, BoundIn(A, n) # None
  PROVE  \E row \in A : row.user = n[1] /\ row.key = n[2] /\ BoundIn(A, n) = Shape(row)
<1>1. Of(A, n) # {} /\ BoundIn(A, n) = Shape(CHOOSE row \in Of(A, n) : TRUE)
  BY DEF BoundIn, First
<1>2. (CHOOSE row \in Of(A, n) : TRUE) \in Of(A, n)
  BY <1>1
<1> QED BY <1>1, <1>2 DEF Of

LEMMA RowBinds ==
  ASSUME NEW A, OneRow(A), NEW row \in A, NEW n, row.user = n[1], row.key = n[2]
  PROVE  BoundIn(A, n) = Shape(row) /\ BoundIn(A, n) # None
<1>1. Of(A, n) = {row}
  BY DEF Of, OneRow
<1>2. BoundIn(A, n) = Shape(row)
  BY <1>1 DEF BoundIn, First
<1> QED BY <1>2, ShapeIsBound

LEMMA RowAdded ==
  ASSUME NEW A, NEW row, row.user \in Users, row.key \in Keys,
         \A x \in A : ~(x.user = row.user /\ x.key = row.key)
  PROVE  /\ BoundIn(A, <<row.user, row.key>>) = None
         /\ [n \in Names |-> BoundIn(A \cup {row}, n)]
              = [[n \in Names |-> BoundIn(A, n)] EXCEPT ![<<row.user, row.key>>] = Shape(row)]
<1> DEFINE name == <<row.user, row.key>>
<1>1. name \in Names /\ name[1] = row.user /\ name[2] = row.key
  BY DEF Names
<1> HIDE DEF name
<1>2. Of(A, name) = {} /\ Of(A \cup {row}, name) = {row}
  BY <1>1 DEF Of
<1>3. BoundIn(A, name) = None /\ BoundIn(A \cup {row}, name) = Shape(row)
  BY <1>2 DEF BoundIn, First
<1>4. ASSUME NEW n \in Names, n # name PROVE BoundIn(A \cup {row}, n) = BoundIn(A, n)
  <2>1. ~(row.user = n[1] /\ row.key = n[2])
    BY <1>4 DEF Names, name
  <2>2. Of(A \cup {row}, n) = Of(A, n)
    BY <2>1 DEF Of
  <2> QED BY <2>2 DEF BoundIn
<1>5. [n \in Names |-> BoundIn(A \cup {row}, n)]
        = [[n \in Names |-> BoundIn(A, n)] EXCEPT ![name] = Shape(row)]
  BY <1>1, <1>3, <1>4
<1> QED BY <1>3, <1>5 DEF name

(* The versions, each with its number less one.                            *)
Chain(k) == [n \in 1..k |-> n - 1]

LEMMA BasesAre ==
  /\ VersionPart => Bases = Chain(revision)
  /\ VersionPart' => Bases' = Chain(revision')
<1>1. ASSUME NEW V, NEW k \in Nat, {v.no : v \in V} = 1..k, \A v \in V : v.base = v.no - 1
      PROVE  [n \in 1..k |-> (CHOOSE v \in V : v.no = n).base] = Chain(k)
  <2>1. ASSUME NEW n \in 1..k PROVE (CHOOSE v \in V : v.no = n).base = n - 1
    <3>1. \E v \in V : v.no = n
      BY <1>1
    <3>2. (CHOOSE v \in V : v.no = n) \in V /\ (CHOOSE v \in V : v.no = n).no = n
      BY <3>1
    <3> QED BY <1>1, <3>2
  <2> QED BY <2>1 DEF Chain
<1>2. VersionPart => Bases = Chain(revision)
  <2> SUFFICES ASSUME VersionPart PROVE Bases = Chain(revision)
    OBVIOUS
  <2>1. revision \in Nat /\ {v.no : v \in versions} = 1..revision /\ \A v \in versions : v.base = v.no - 1
    BY Revision DEF VersionPart, NoLostVersion
  <2> QED BY <1>1, <2>1 DEF Bases
<1>3. VersionPart' => Bases' = Chain(revision')
  <2> SUFFICES ASSUME VersionPart' PROVE Bases' = Chain(revision')
    OBVIOUS
  <2>1. revision' \in Nat /\ {v.no : v \in versions'} = 1..revision' /\ \A v \in versions' : v.base = v.no - 1
    BY AssessmentAssumption DEF VersionPart, NoLostVersion
  <2> QED BY <1>1, <2>1 DEF Bases
<1> QED BY <1>2, <1>3

LEMMA ChainGrows ==
  ASSUME NEW k \in Nat
  PROVE  Len(Chain(k)) = k /\ Chain(k + 1) = Append(Chain(k), Len(Chain(k)))
<1>1. Chain(k) \in Seq(Nat) /\ Chain(k + 1) \in Seq(Nat) /\ Len(Chain(k)) = k /\ Len(Chain(k + 1)) = k + 1
  BY DEF Chain
<1>2. Append(Chain(k), k) \in Seq(Nat) /\ Len(Append(Chain(k), k)) = k + 1
  BY <1>1, AppendProperties
<1>3. ASSUME NEW n \in 1..(k + 1) PROVE Chain(k + 1)[n] = Append(Chain(k), k)[n]
  <2>1. CASE n = k + 1
    BY <1>1, <2>1, AppendProperties DEF Chain
  <2>2. CASE n \in 1..k
    <3>1. Append(Chain(k), k)[n] = Chain(k)[n]
      BY <1>1, <2>2, AppendProperties
    <3> QED BY <2>2, <3>1 DEF Chain
  <2>3. n = k + 1 \/ n \in 1..k
    OBVIOUS
  <2> QED BY Zenon, <2>1, <2>2, <2>3
<1>4. Chain(k + 1) = Append(Chain(k), k)
  <2> HIDE DEF Chain
  <2> QED BY <1>1, <1>2, <1>3, SeqEqual
<1> QED BY <1>1, <1>4

LEMMA ServiceInit == Init => Service!Init
<1> SUFFICES ASSUME Init PROVE Service!Init
  OBVIOUS
<1>1. Bases = <<>>
  BY DEF Init, Bases
<1>2. Assessed = [n \in Names |-> None] /\ Told = {}
  BY MappedRows DEF Init, BoundIn, First, Of, ToldIn
<1> QED BY <1>1, <1>2 DEF Service!Init

LEMMA ServiceStutters ==
  ASSUME UNCHANGED <<revision, versions, assessments, answers>>
  PROVE  UNCHANGED Service!vars
BY DEF Service!vars, Bases, Assessed, Bound, RowsOf, Told

LEMMA ServiceSaves ==
  ASSUME IInv, IInv', revision' = revision + 1, UNCHANGED <<assessments, answers>>
  PROVE  Service!Save
<1>1. revision \in Nat /\ Bases = Chain(revision) /\ Bases' = Chain(revision + 1)
  BY Regrouped, RegroupedNext, BasesAre, Revision
<1>2. revision < MaxVersion
  BY <1>1, RegroupedNext, AssessmentAssumption DEF VersionPart
<1>3. UNCHANGED <<Assessed, Told>>
  BY DEF Assessed, Bound, RowsOf, Told
<1> QED BY <1>1, <1>2, <1>3, ChainGrows DEF Service!Save

LEMMA RowsAreOne == IInv => OneRow(assessments)
BY Regrouped DEF RowPart, Rows, OfKey, OneRow

LEMMA ServiceRepeats ==
  ASSUME IInv, NEW r \in Requests, Repeat(r)
  PROVE  Service!Repeat(<<req[r].user, req[r].key>>) /\ <<req[r].user, req[r].key>> \in Names
<1> DEFINE e == req[r]
           name == <<e.user, e.key>>
<1>1. PICK row \in Existing(e) :
        /\ row.body = e.body
        /\ answers' = answers \cup {[user |-> e.user, key |-> e.key, body |-> e.body, id |-> row.id]}
  BY DEF Repeat, SameBody
<1>2. e.step \in {"ASKED", "EVALUATED"} /\ UNCHANGED <<revision, versions, assessments>>
  BY DEF Repeat
<1>3. e.user \in Users /\ e.key \in Keys
  BY <1>2, AskedTyped
<1>4. row \in assessments /\ row.user = e.user /\ row.key = e.key
  BY <1>1 DEF Existing, OfKey
<1>5. name \in Names /\ name[1] = e.user /\ name[2] = e.key
  BY <1>3 DEF Names
<1>6. Told' = Told \cup {[name |-> name, body |-> e.body, id |-> row.id]}
  <2> DEFINE new == [user |-> e.user, key |-> e.key, body |-> e.body, id |-> row.id]
  <2>1. new.user = e.user /\ new.key = e.key /\ new.body = e.body /\ new.id = row.id
    OBVIOUS
  <2>2. answers' = answers \cup {new}
    BY <1>1
  <2> HIDE DEF new
  <2>3. Told' = ToldIn(answers \cup {new})
    BY <2>2, MappedRows
  <2>4. Told' = Told \cup {[name |-> <<new.user, new.key>>, body |-> new.body, id |-> new.id]}
    BY <2>3, ToldAdded, MappedRows
  <2> QED BY <2>1, <2>4
<1> HIDE DEF name, e
<1>7. Assessed[name] = Shape(row) /\ Assessed[name] # None
  BY <1>4, <1>5, RowsAreOne, RowBinds, MappedRows
<1>8. Shape(row).body = e.body /\ Shape(row).id = row.id
  BY <1>1 DEF Shape
<1>9. UNCHANGED <<Bases, Assessed>>
  BY <1>2 DEF Bases, Assessed, Bound, RowsOf
<1>10. Service!Repeat(name) /\ name \in Names
  BY <1>5, <1>6, <1>7, <1>8, <1>9 DEF Service!Repeat, Service!Answer
<1> QED BY <1>10 DEF name, e

LEMMA ServiceAssesses ==
  ASSUME IInv, NEW r \in Requests, Store(r)
  PROVE  \E n \in Names, b \in Body, id \in 1..MaxAssessments : Service!Assess(n, b, id)
<1> DEFINE e == req[r]
           name == <<e.user, e.key>>
           id == Cardinality(assessments) + 1
           row == [id |-> id, user |-> e.user, key |-> e.key, body |-> e.body, input |-> e.input]
           new == [user |-> e.user, key |-> e.key, body |-> e.body, id |-> id]
<1>1. /\ e.step = "EVALUATED" /\ id <= MaxAssessments /\ Existing(e) = {}
      /\ assessments' = assessments \cup {row} /\ answers' = answers \cup {new}
      /\ UNCHANGED <<revision, versions>>
  BY DEF Store
<1>2. e.user \in Users /\ e.key \in Keys /\ e.body \in Body
  BY <1>1, AskedTyped
<1>3. e.input = e.body.version /\ e.body.version \in 1..revision
  BY <1>1, <1>2, Regrouped, Revision DEF RequestPart, Body
<1>4. RowPart
  BY Regrouped
<1>5. Cardinality(assessments) \in Nat
  BY <1>4, FS_CardinalityType DEF RowPart, Rows
<1>6. id \in 1..MaxAssessments
  BY <1>1, <1>5, AssessmentAssumption
<1>7. \A x \in assessments : x.id # id /\ ~(x.user = e.user /\ x.key = e.key)
  <2>1. \A x \in assessments : x.id \in 1..Cardinality(assessments)
    BY <1>4 DEF RowPart, Rows
  <2>2. \A x \in assessments : ~(x.user = e.user /\ x.key = e.key)
    BY <1>1 DEF Existing, OfKey
  <2> QED BY <1>5, <2>1, <2>2
<1>8. row.user = e.user /\ row.key = e.key /\ Shape(row) = [id |-> id, body |-> e.body, input |-> e.body.version]
  BY <1>3 DEF Shape
<1>9. name \in Names
  BY <1>2 DEF Names
<1>10. new.user = e.user /\ new.key = e.key /\ new.body = e.body /\ new.id = id
  OBVIOUS
<1> HIDE DEF row, new
<1>11. Told' = Told \cup {[name |-> name, body |-> e.body, id |-> id]}
  <2>1. Told' = ToldIn(answers \cup {new})
    BY <1>1, MappedRows
  <2>2. Told' = Told \cup {[name |-> <<new.user, new.key>>, body |-> new.body, id |-> new.id]}
    BY <2>1, ToldAdded, MappedRows
  <2> QED BY <1>10, <2>2
<1>12. Assessed[name] = None /\ Assessed' = [Assessed EXCEPT ![name] = Shape(row)]
  <2>1. name = <<row.user, row.key>> /\ row.user \in Users /\ row.key \in Keys
    BY <1>2, <1>8
  <2>2. \A x \in assessments : ~(x.user = row.user /\ x.key = row.key)
    BY <1>7, <1>8
  <2> HIDE DEF name
  <2>3. BoundIn(assessments, name) = None
    BY <2>1, <2>2, RowAdded
  <2>4. [n \in Names |-> BoundIn(assessments \cup {row}, n)]
          = [[n \in Names |-> BoundIn(assessments, n)] EXCEPT ![name] = Shape(row)]
    BY <2>1, <2>2, RowAdded
  <2>5. Assessed' = [n \in Names |-> BoundIn(assessments \cup {row}, n)]
    BY <1>1, MappedRows
  <2> QED BY <1>9, <2>3, <2>4, <2>5, MappedRows
<1> HIDE DEF id, e
<1>13. ASSUME NEW m \in Names, Assessed[m] # None PROVE Assessed[m].id # id
  <2>1. BoundIn(assessments, m) # None /\ Assessed[m] = BoundIn(assessments, m)
    BY <1>13, MappedRows
  <2>2. PICK x \in assessments : Assessed[m] = Shape(x)
    BY <2>1, BoundRow
  <2> QED BY <1>7, <2>2 DEF Shape
<1>14. Len(Bases) = revision
  BY Regrouped, Revision, BasesAre, ChainGrows
<1>15. UNCHANGED Bases
  BY <1>1 DEF Bases
<1> DEFINE a == [id |-> id, body |-> e.body, input |-> e.body.version]
<1>16. Service!Answer(name, a) = [name |-> name, body |-> e.body, id |-> id]
  BY DEF Service!Answer
<1> HIDE DEF name
<1>17. Service!Assess(name, e.body, id)
  BY <1>3, <1>8, <1>11, <1>12, <1>13, <1>14, <1>15, <1>16 DEF Service!Assess
<1> QED BY <1>2, <1>6, <1>9, <1>17

(* Editing and assessing in two transactions each implement a service that *)
(* saves a version, binds a name and answers in one step.                  *)
THEOREM ServiceImplemented == Spec => ImplementsService
<1>1. Init => Service!Init
  BY ServiceInit
<1>2. IInv /\ IInv' /\ [Next]_vars => [Service!Next]_Service!vars
  <2> SUFFICES ASSUME IInv, IInv', [Next]_vars PROVE [Service!Next]_Service!vars
    OBVIOUS
  <2>1. CASE \E u \in Users : CreateScenario(u)
    BY <2>1, ServiceSaves DEF CreateScenario, Service!Next
  <2>2. CASE \E r \in Requests : CreateVersion(r)
    BY <2>2, ServiceSaves DEF CreateVersion, NextNumber, Service!Next
  <2>3. CASE \E r \in Requests : Repeat(r)
    BY <2>3, ServiceRepeats DEF Service!Next
  <2>4. CASE \E r \in Requests : Store(r)
    BY <2>4, ServiceAssesses DEF Service!Next
  <2>5. CASE UNCHANGED <<revision, versions, assessments, answers>>
    BY <2>5, ServiceStutters
  <2> QED BY <2>1, <2>2, <2>3, <2>4, <2>5
          DEF Next, vars, Show, AskVersion, AskAssessment, Evaluate, Drop, Entitle, Seed
<1> QED BY <1>1, <1>2, Invariance, PTL DEF Spec, ImplementsService, Service!Spec
===============================================================================
