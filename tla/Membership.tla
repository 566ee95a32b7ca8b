------------------------------ MODULE Membership ------------------------------
(***************************************************************************)
(* Memberships and roles of one organisation (identity/router.py,          *)
(* identity/dependencies.py).                                              *)
(*                                                                         *)
(* An administrator looks at a membership, decides, and sends the change   *)
(* with the revision it was shown.  Between these steps any other request  *)
(* may commit.  The list of members is read without a lock in READ         *)
(* COMMITTED: the revision by one statement, the roles by a later one.     *)
(* The change itself is one transaction that locks the organisation's row  *)
(* first and reads everything else under that lock.                        *)
(***************************************************************************)
EXTENDS Naturals, FiniteSets

CONSTANTS
  Users,        \* identities the platform knows
  Founders,     \* members the organisation was set up with, administrators
  Requests,     \* administrators' requests under way at a time
  Roles,        \* ROLE_CODES
  MaxRevision   \* bound on the revision of a membership

Admin == "ORG_ADMIN"

ASSUME MembershipAssumption ==
  /\ IsFiniteSet(Users)
  /\ Founders \subseteq Users /\ Founders # {}
  /\ Admin \in Roles
  /\ MaxRevision \in Nat \ {0}

VARIABLES
  open,       \* organisations.status = 'ACTIVE'
  status,     \* NONE (no row), ACTIVE, REVOKED
  roles,
  revision,
  req         \* what each request has come to

vars == <<open, status, roles, revision, req>>

\* a request: FREE, SHOWN (revision), READY (and roles), UPDATING or ADDING (admitted)
None == [step |-> "FREE"]
Request(step, actor, target, shown) ==
  [step |-> step, actor |-> actor, target |-> target, shown |-> shown]
State(u) == [status |-> status[u], roles |-> roles[u], revision |-> revision[u]]

Init ==
  /\ open = TRUE
  /\ status = [u \in Users |-> IF u \in Founders THEN "ACTIVE" ELSE "NONE"]
  /\ roles = [u \in Users |-> IF u \in Founders THEN {Admin} ELSE {}]
  /\ revision = [u \in Users |-> IF u \in Founders THEN 1 ELSE 0]
  /\ req = [r \in Requests |-> None]
-------------------------------------------------------------------------------
ActiveAdmins == {u \in Users : status[u] = "ACTIVE" /\ Admin \in roles[u]}

(* Plausible mistakes in the definitions below; no definition uses them.  *)
KeepsAnyAdmin(u, S, R) ==
  LET removing == u \in ActiveAdmins /\ (S = "REVOKED" \/ Admin \notin R)
  IN  removing => Cardinality({v \in Users : Admin \in roles[v]}) > 1
RolesOfCurrentRow(r) == [req[r].shown EXCEPT !.roles = roles[req[r].target],
                                             !.revision = revision[req[r].target]]
StillOpen(a) == open
-------------------------------------------------------------------------------
\* require_admin: the session's transaction reads the membership
MayAdminister(u) == open /\ u \in ActiveAdmins

\* lock_and_check_admin, under the lock of the organisation
StillAdmin(a) == MayAdminister(a)

\* members: status and revision of the rows ...
Show(r, a, u) ==
  /\ req[r] = None
  /\ MayAdminister(a)
  /\ status[u] # "NONE"
  /\ req' = [req EXCEPT ![r] = Request("SHOWN", a, u, [State(u) EXCEPT !.roles = {}])]
  /\ UNCHANGED <<open, status, roles, revision>>

\* ... and the roles by another statement for each of them
WithRoles(r) == [req[r].shown EXCEPT !.roles = roles[req[r].target]]
ShowRoles(r) ==
  /\ req[r].step = "SHOWN"
  /\ req' = [req EXCEPT ![r] = [@ EXCEPT !.step = "READY", !.shown = WithRoles(r)]]
  /\ UNCHANGED <<open, status, roles, revision>>

\* a change or a new member is asked for; the actor is checked in get_actor
AskUpdate(r) ==
  /\ req[r].step = "READY"
  /\ MayAdminister(req[r].actor)
  /\ req' = [req EXCEPT ![r].step = "UPDATING"]
  /\ UNCHANGED <<open, status, roles, revision>>
AskAdd(r, a, u) ==
  /\ req[r] = None
  /\ MayAdminister(a)
  /\ req' = [req EXCEPT ![r] = Request("ADDING", a, u, State(u))]
  /\ UNCHANGED <<open, status, roles, revision>>

\* expected_revision
Current(r) == revision[req[r].target] = req[r].shown.revision

\* removing_admin and the count of the active administrators
KeepsAdmin(u, S, R) ==
  LET removing == u \in ActiveAdmins /\ (S = "REVOKED" \/ Admin \notin R)
  IN  removing => Cardinality(ActiveAdmins) > 1

NextRevision(u, S) == revision[u] + 1

\* update_member
Update(r, S, R) ==
  LET u == req[r].target
  IN  /\ req[r].step = "UPDATING"
      /\ revision[u] < MaxRevision
      /\ StillAdmin(req[r].actor)
      /\ Current(r)
      /\ KeepsAdmin(u, S, R)
      /\ roles' = [roles EXCEPT ![u] = R]
      /\ status' = [status EXCEPT ![u] = S]
      /\ revision' = [revision EXCEPT ![u] = NextRevision(u, S)]
      /\ req' = [req EXCEPT ![r] = None]
      /\ UNCHANGED open

\* add_member
Add(r, R) ==
  LET u == req[r].target
  IN  /\ req[r].step = "ADDING"
      /\ StillAdmin(req[r].actor)
      /\ status[u] = "NONE"
      /\ roles' = [roles EXCEPT ![u] = R]
      /\ status' = [status EXCEPT ![u] = "ACTIVE"]
      /\ revision' = [revision EXCEPT ![u] = 1]
      /\ req' = [req EXCEPT ![r] = None]
      /\ UNCHANGED open

\* refused with 403, 409 or 422, given up by the client, or the API died
Drop(r) ==
  /\ req[r] # None
  /\ req' = [req EXCEPT ![r] = None]
  /\ UNCHANGED <<open, status, roles, revision>>

\* an operator suspends the organisation or opens it again
Suspend == open' = ~open /\ UNCHANGED <<status, roles, revision, req>>

Chosen == (SUBSET Roles) \ {{}}

Next ==
  \/ \E r \in Requests :
       \/ \E a, u \in Users : Show(r, a, u) \/ AskAdd(r, a, u)
       \/ ShowRoles(r) \/ AskUpdate(r) \/ Drop(r)
       \/ \E R \in Chosen : Add(r, R) \/ \E S \in {"ACTIVE", "REVOKED"} : Update(r, S, R)
  \/ Suspend

Spec == Init /\ [][Next]_vars
-------------------------------------------------------------------------------
(* Types; the rows that exist have a positive revision and a role. *)
StateType == [status : {"NONE", "ACTIVE", "REVOKED"}, roles : SUBSET Roles, revision : 0..MaxRevision]
RequestType ==
  [step : {"SHOWN", "READY", "UPDATING", "ADDING"}, actor : Users, target : Users,
   shown : StateType]
TypeOK ==
  /\ open \in BOOLEAN
  /\ status \in [Users -> {"NONE", "ACTIVE", "REVOKED"}]
  /\ roles \in [Users -> SUBSET Roles]
  /\ revision \in [Users -> 0..MaxRevision]
  /\ req \in [Requests -> {None} \cup RequestType]
  /\ \A u \in Users : status[u] # "NONE" => revision[u] > 0 /\ roles[u] # {}

(* The organisation always has an active administrator, however requests   *)
(* that demote or revoke one another overlap.                              *)
LastAdmin == ActiveAdmins # {}

Applied(r) == req[r].step \in {"UPDATING", "ADDING"} /\ req'[r] = None
Changed(u) == <<status'[u], roles'[u], revision'[u]>> # <<status[u], roles[u], revision[u]>>

(* A change replaces exactly the status and the roles its author was       *)
(* shown, although the list was read in two statements without a lock.     *)
NoLostUpdate ==
  [][\A r \in Requests :
       Applied(r) /\ req[r].step = "UPDATING" /\ Changed(req[r].target)
         => req[r].shown = State(req[r].target)]_vars

(* Whoever changes a membership is an active administrator of an open      *)
(* organisation in the very state that is changed, not only when it asked. *)
ByAdmin ==
  [][\A u \in Users : Changed(u) =>
       open /\ \E r \in Requests :
         Applied(r) /\ req[r].target = u /\ req[r].actor \in ActiveAdmins]_vars

(* Inductive strengthening of NoLostUpdate: what a request was shown is    *)
(* what the membership is as long as the revision has not moved on.        *)
Shown ==
  \A r \in Requests :
    /\ req[r].step \in {"SHOWN", "READY", "UPDATING"} =>
         LET u == req[r].target
         IN  /\ status[u] # "NONE"
             /\ req[r].shown.revision <= revision[u]
             /\ Current(r) => req[r].shown.status = status[u]
             /\ Current(r) /\ req[r].step # "SHOWN" => req[r].shown.roles = roles[u]
IInv == TypeOK /\ LastAdmin /\ Shown
===============================================================================
