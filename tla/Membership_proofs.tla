-------------------------- MODULE Membership_proofs ---------------------------
(***************************************************************************)
(* Proofs about Membership.                                                *)
(*                                                                         *)
(* Only Update and Add write a membership.  Update is the delicate one:    *)
(* the guard counts the active administrators, and a count above one means *)
(* another administrator remains.  What a request was shown is followed by *)
(* the revision, which only grows.                                         *)
(***************************************************************************)
EXTENDS Membership, FiniteSetTheorems, TLAPS

(* There are finitely many administrators.                                 *)
LEMMA AdminsFinite == IsFiniteSet(ActiveAdmins) /\ Cardinality(ActiveAdmins) \in Nat
<1>1. ActiveAdmins \subseteq Users
  BY DEF ActiveAdmins
<1>2. IsFiniteSet(ActiveAdmins)
  BY <1>1, FS_Subset, MembershipAssumption
<1> QED BY <1>2, FS_CardinalityType

(* A count above one leaves an administrator other than u (removing_admin  *)
(* in update_member).                                                      *)
LEMMA AnotherAdmin ==
  ASSUME NEW u \in ActiveAdmins, Cardinality(ActiveAdmins) > 1
  PROVE  \E v \in ActiveAdmins : v # u
<1>1. SUFFICES ASSUME ActiveAdmins \ {u} = {} PROVE FALSE
  OBVIOUS
<1>2. Cardinality(ActiveAdmins \ {u}) = Cardinality(ActiveAdmins) - 1
  BY AdminsFinite, FS_RemoveElement
<1>3. Cardinality(ActiveAdmins \ {u}) = 0
  BY <1>1, FS_EmptySet
<1> QED BY <1>2, <1>3, AdminsFinite

(* What is shown of a membership has the type of a shown state.            *)
LEMMA StateTyped ==
  ASSUME TypeOK, NEW u \in Users
  PROVE  /\ State(u) \in StateType
         /\ [State(u) EXCEPT !.roles = {}] \in StateType
BY DEF TypeOK, State, StateType

(* A request is one of the two shapes, told apart by its step.             *)
LEMMA RequestTyped ==
  ASSUME TypeOK, NEW r \in Requests, req[r] # None
  PROVE  req[r] \in RequestType
BY DEF TypeOK

-------------------------------------------------------------------------------
(* The invariant holds initially: every founder administers.               *)
LEMMA InitInv == Init => IInv
<1> SUFFICES ASSUME Init PROVE IInv
  OBVIOUS
<1>1. TypeOK
  BY MembershipAssumption DEF Init, TypeOK, None
<1>2. LastAdmin
  <2>1. PICK f \in Founders : TRUE
    BY MembershipAssumption
  <2>2. f \in ActiveAdmins
    BY <2>1, MembershipAssumption DEF Init, ActiveAdmins
  <2> QED BY <2>2 DEF LastAdmin
<1>3. Shown
  BY DEF Init, Shown, None
<1> QED BY <1>1, <1>2, <1>3 DEF IInv

(* Steps that write no membership leave its administrators alone.          *)
LEMMA SameAdmins ==
  ASSUME LastAdmin, UNCHANGED <<status, roles>>
  PROVE  LastAdmin'
BY DEF LastAdmin, ActiveAdmins

(* A request that ends or is dropped holds nothing any more.               *)
LEMMA DropInv ==
  ASSUME IInv, NEW r \in Requests, Drop(r)
  PROVE  IInv'
<1>1. TypeOK'
  BY DEF IInv, Drop, TypeOK
<1>2. LastAdmin'
  BY SameAdmins DEF IInv, Drop
<1>3. Shown'
  BY DEF IInv, TypeOK, Shown, Drop, None, Current
<1> QED BY <1>1, <1>2, <1>3 DEF IInv

LEMMA ShowInv ==
  ASSUME IInv, NEW r \in Requests, NEW a \in Users, NEW u \in Users, Show(r, a, u)
  PROVE  IInv'
<1> DEFINE new == Request("SHOWN", a, u, [State(u) EXCEPT !.roles = {}])
<1>1. new \in RequestType
  BY StateTyped DEF IInv, Request, RequestType
<1>2. /\ new.step = "SHOWN" /\ new.target = u
      /\ new.shown.revision = revision[u] /\ new.shown.status = status[u]
  BY DEF Request, State
<1> HIDE DEF new
<1>3. req' = [req EXCEPT ![r] = new] /\ UNCHANGED <<open, status, roles, revision>> /\ status[u] # "NONE"
  BY DEF Show, new
<1>4. TypeOK'
  BY <1>1, <1>3 DEF IInv, TypeOK
<1>5. LastAdmin'
  BY <1>3, SameAdmins DEF IInv
<1>6. Shown'
  <2>1. revision[u] \in Nat
    BY DEF IInv, TypeOK
  <2> QED BY <1>2, <1>3, <2>1 DEF IInv, TypeOK, Shown, Current
<1> QED BY <1>4, <1>5, <1>6 DEF IInv

LEMMA ShowRolesInv ==
  ASSUME IInv, NEW r \in Requests, ShowRoles(r)
  PROVE  IInv'
<1> DEFINE new == [req[r] EXCEPT !.step = "READY", !.shown = WithRoles(r)]
<1>1. req[r] \in RequestType /\ req[r].step = "SHOWN"
  BY RequestTyped DEF IInv, ShowRoles, None
<1>2. new \in RequestType
  BY <1>1 DEF IInv, TypeOK, RequestType, StateType, WithRoles
<1>3. /\ new.step = "READY" /\ new.target = req[r].target
      /\ new.shown.revision = req[r].shown.revision
      /\ new.shown.status = req[r].shown.status
      /\ new.shown.roles = roles[req[r].target]
  BY <1>1 DEF RequestType, StateType, WithRoles
<1> HIDE DEF new
<1>4. req' = [req EXCEPT ![r] = new] /\ UNCHANGED <<open, status, roles, revision>>
  BY DEF ShowRoles, new
<1>5. TypeOK'
  BY <1>2, <1>4 DEF IInv, TypeOK
<1>6. LastAdmin'
  BY <1>4, SameAdmins DEF IInv
<1>7. Shown'
  BY <1>1, <1>3, <1>4 DEF IInv, TypeOK, Shown, Current
<1> QED BY <1>5, <1>6, <1>7 DEF IInv

LEMMA AskUpdateInv ==
  ASSUME IInv, NEW r \in Requests, AskUpdate(r)
  PROVE  IInv'
<1> DEFINE new == [req[r] EXCEPT !.step = "UPDATING"]
<1>1. req[r] \in RequestType /\ req[r].step = "READY"
  BY RequestTyped DEF IInv, AskUpdate, None
<1>2. new \in RequestType
  BY <1>1 DEF RequestType
<1>3. new.step = "UPDATING" /\ new.target = req[r].target /\ new.shown = req[r].shown
  BY <1>1 DEF RequestType
<1> HIDE DEF new
<1>4. req' = [req EXCEPT ![r] = new] /\ UNCHANGED <<open, status, roles, revision>>
  BY DEF AskUpdate, new
<1>5. TypeOK'
  BY <1>2, <1>4 DEF IInv, TypeOK
<1>6. LastAdmin'
  BY <1>4, SameAdmins DEF IInv
<1>7. Shown'
  BY <1>1, <1>3, <1>4 DEF IInv, TypeOK, Shown, Current
<1> QED BY <1>5, <1>6, <1>7 DEF IInv

LEMMA AskAddInv ==
  ASSUME IInv, NEW r \in Requests, NEW a \in Users, NEW u \in Users, AskAdd(r, a, u)
  PROVE  IInv'
<1> DEFINE new == Request("ADDING", a, u, State(u))
<1>1. new \in RequestType /\ new.step = "ADDING"
  BY StateTyped DEF IInv, Request, RequestType
<1> HIDE DEF new
<1>2. req' = [req EXCEPT ![r] = new] /\ UNCHANGED <<open, status, roles, revision>>
  BY DEF AskAdd, new
<1>3. TypeOK'
  BY <1>1, <1>2 DEF IInv, TypeOK
<1>4. LastAdmin'
  BY <1>2, SameAdmins DEF IInv
<1>5. Shown'
  BY <1>1, <1>2 DEF IInv, TypeOK, Shown, Current
<1> QED BY <1>3, <1>4, <1>5 DEF IInv

(* update_member: the count is what keeps an administrator.                *)
LEMMA UpdateInv ==
  ASSUME IInv, NEW r \in Requests, NEW S \in {"ACTIVE", "REVOKED"}, NEW R \in Chosen,
         Update(r, S, R)
  PROVE  IInv'
<1> DEFINE u == req[r].target
<1>1. req[r] \in RequestType /\ u \in Users
  <2>1. req[r] \in RequestType
    BY RequestTyped DEF IInv, Update, None
  <2> QED BY <2>1 DEF RequestType
<1> HIDE DEF u
<1>2. /\ revision[u] < MaxRevision /\ KeepsAdmin(u, S, R)
      /\ roles' = [roles EXCEPT ![u] = R]
      /\ status' = [status EXCEPT ![u] = S]
      /\ revision' = [revision EXCEPT ![u] = revision[u] + 1]
      /\ req' = [req EXCEPT ![r] = None] /\ UNCHANGED open
  BY DEF Update, NextRevision, u
<1>3. R \subseteq Roles /\ R # {}
  BY DEF Chosen
<1>4. revision[u] \in Nat /\ revision[u] + 1 \in 0..MaxRevision
  BY <1>1, <1>2, MembershipAssumption DEF IInv, TypeOK
<1>5. TypeOK'
  BY <1>1, <1>2, <1>3, <1>4 DEF IInv, TypeOK
<1>6. LastAdmin'
  <2>1. CASE u \in ActiveAdmins /\ (S = "REVOKED" \/ Admin \notin R)
    <3>1. PICK v \in ActiveAdmins : v # u
      BY <1>2, <2>1, AnotherAdmin DEF KeepsAdmin
    <3>2. v \in ActiveAdmins'
      BY <1>2, <3>1 DEF ActiveAdmins, IInv, TypeOK
    <3> QED BY <3>2 DEF LastAdmin
  <2>2. CASE u \in ActiveAdmins /\ S # "REVOKED" /\ Admin \in R
    <3>1. u \in ActiveAdmins'
      BY <1>1, <1>2, <2>2 DEF ActiveAdmins, IInv, TypeOK
    <3> QED BY <3>1 DEF LastAdmin
  <2>3. CASE u \notin ActiveAdmins
    <3>1. PICK v \in ActiveAdmins : TRUE
      BY DEF IInv, LastAdmin
    <3>2. v # u
      BY <2>3, <3>1
    <3>3. v \in ActiveAdmins'
      BY <1>2, <3>1, <3>2 DEF ActiveAdmins, IInv, TypeOK
    <3> QED BY <3>3 DEF LastAdmin
  <2> QED BY <2>1, <2>2, <2>3
<1>7. Shown'
  <2> SUFFICES ASSUME NEW q \in Requests, req'[q].step \in {"SHOWN", "READY", "UPDATING"}
               PROVE  LET t == req'[q].target
                      IN  /\ status'[t] # "NONE"
                          /\ req'[q].shown.revision <= revision'[t]
                          /\ Current(q)' => req'[q].shown.status = status'[t]
                          /\ Current(q)' /\ req'[q].step # "SHOWN" => req'[q].shown.roles = roles'[t]
    BY DEF Shown
  <2>1. q # r /\ req'[q] = req[q]
    BY <1>2 DEF IInv, TypeOK, None
  <2>2. req[q] \in RequestType
    BY <2>1, RequestTyped DEF IInv, None
  <2>3. req[q].shown.revision \in Nat /\ req[q].target \in Users
    BY <2>2 DEF RequestType, StateType
  <2>4. CASE req[q].target = u
    <3>1. req[q].shown.revision <= revision[u]
      BY <2>1, <2>4 DEF IInv, Shown
    <3>2. revision'[u] = revision[u] + 1 /\ status'[u] = S
      BY <1>1, <1>2 DEF IInv, TypeOK
    <3>3. ~Current(q)'
      BY <1>4, <2>1, <2>3, <2>4, <3>1, <3>2 DEF Current
    <3> QED BY <1>4, <2>1, <2>3, <2>4, <3>1, <3>2, <3>3
  <2>5. CASE req[q].target # u
    <3>1. /\ status'[req[q].target] = status[req[q].target]
          /\ roles'[req[q].target] = roles[req[q].target]
          /\ revision'[req[q].target] = revision[req[q].target]
      BY <1>2, <2>3, <2>5 DEF IInv, TypeOK
    <3> QED BY <2>1, <3>1 DEF IInv, Shown, Current
  <2> QED BY <2>4, <2>5
<1> QED BY <1>5, <1>6, <1>7 DEF IInv

(* add_member writes a row that did not exist, which nobody was shown.     *)
LEMMA AddInv ==
  ASSUME IInv, NEW r \in Requests, NEW R \in Chosen, Add(r, R)
  PROVE  IInv'
<1> DEFINE u == req[r].target
<1>1. req[r] \in RequestType /\ u \in Users
  <2>1. req[r] \in RequestType
    BY RequestTyped DEF IInv, Add, None
  <2> QED BY <2>1 DEF RequestType
<1> HIDE DEF u
<1>2. /\ status[u] = "NONE"
      /\ roles' = [roles EXCEPT ![u] = R]
      /\ status' = [status EXCEPT ![u] = "ACTIVE"]
      /\ revision' = [revision EXCEPT ![u] = 1]
      /\ req' = [req EXCEPT ![r] = None] /\ UNCHANGED open
  BY DEF Add, u
<1>3. R \subseteq Roles /\ R # {}
  BY DEF Chosen
<1>4. 1 \in 0..MaxRevision
  BY MembershipAssumption
<1>5. TypeOK'
  BY <1>1, <1>2, <1>3, <1>4 DEF IInv, TypeOK
<1>6. LastAdmin'
  <2>1. PICK v \in ActiveAdmins : TRUE
    BY DEF IInv, LastAdmin
  <2>2. v # u
    BY <1>2, <2>1 DEF ActiveAdmins
  <2>3. v \in ActiveAdmins'
    BY <1>2, <2>1, <2>2 DEF ActiveAdmins, IInv, TypeOK
  <2> QED BY <2>3 DEF LastAdmin
<1>7. Shown'
  <2> SUFFICES ASSUME NEW q \in Requests, req'[q].step \in {"SHOWN", "READY", "UPDATING"}
               PROVE  LET t == req'[q].target
                      IN  /\ status'[t] # "NONE"
                          /\ req'[q].shown.revision <= revision'[t]
                          /\ Current(q)' => req'[q].shown.status = status'[t]
                          /\ Current(q)' /\ req'[q].step # "SHOWN" => req'[q].shown.roles = roles'[t]
    BY DEF Shown
  <2>1. q # r /\ req'[q] = req[q]
    BY <1>2 DEF IInv, TypeOK, None
  <2>2. req[q] \in RequestType
    BY <2>1, RequestTyped DEF IInv, None
  <2>3. req[q].target \in Users /\ req[q].target # u
    BY <1>2, <2>1, <2>2 DEF RequestType, IInv, Shown
  <2>4. /\ status'[req[q].target] = status[req[q].target]
        /\ roles'[req[q].target] = roles[req[q].target]
        /\ revision'[req[q].target] = revision[req[q].target]
    BY <1>2, <2>3 DEF IInv, TypeOK
  <2> QED BY <2>1, <2>4 DEF IInv, Shown, Current
<1> QED BY <1>5, <1>6, <1>7 DEF IInv

LEMMA SuspendInv ==
  ASSUME IInv, Suspend
  PROVE  IInv'
<1>1. TypeOK'
  BY DEF IInv, Suspend, TypeOK
<1>2. LastAdmin'
  BY SameAdmins DEF IInv, Suspend
<1>3. Shown'
  BY DEF IInv, Shown, Suspend, Current
<1> QED BY <1>1, <1>2, <1>3 DEF IInv

(* Every step preserves the invariant.                                     *)
LEMMA NextInv == IInv /\ [Next]_vars => IInv'
<1> SUFFICES ASSUME IInv, [Next]_vars PROVE IInv'
  OBVIOUS
<1>1. ASSUME NEW r \in Requests, NEW a \in Users, NEW u \in Users, Show(r, a, u) PROVE IInv'
  BY <1>1, ShowInv
<1>2. ASSUME NEW r \in Requests, NEW a \in Users, NEW u \in Users, AskAdd(r, a, u) PROVE IInv'
  BY <1>2, AskAddInv
<1>3. ASSUME NEW r \in Requests, ShowRoles(r) PROVE IInv'
  BY <1>3, ShowRolesInv
<1>4. ASSUME NEW r \in Requests, AskUpdate(r) PROVE IInv'
  BY <1>4, AskUpdateInv
<1>5. ASSUME NEW r \in Requests, Drop(r) PROVE IInv'
  BY <1>5, DropInv
<1>6. ASSUME NEW r \in Requests, NEW R \in Chosen, Add(r, R) PROVE IInv'
  BY <1>6, AddInv
<1>7. ASSUME NEW r \in Requests, NEW R \in Chosen, NEW S \in {"ACTIVE", "REVOKED"},
             Update(r, S, R)
      PROVE  IInv'
  BY <1>7, UpdateInv
<1>8. CASE Suspend
  BY <1>8, SuspendInv
<1>9. CASE UNCHANGED vars
  <2>1. TypeOK' /\ LastAdmin'
    BY <1>9, SameAdmins DEF IInv, vars, TypeOK
  <2>2. Shown'
    BY <1>9 DEF IInv, vars, Shown, Current
  <2> QED BY <2>1, <2>2 DEF IInv
<1> QED
  BY <1>1, <1>2, <1>3, <1>4, <1>5, <1>6, <1>7, <1>8, <1>9 DEF Next

(* The inductive invariant holds in every reachable state.                 *)
THEOREM Invariance == Spec => []IInv
<1> QED BY InitInv, NextInv, PTL DEF Spec

(* Every reachable state has the types, for any number of users.           *)
THEOREM TypeCorrect == Spec => []TypeOK
<1>1. IInv => TypeOK
  BY DEF IInv
<1> QED BY <1>1, Invariance, PTL

(* However many administrators demote and revoke each other at once, one   *)
(* stays (update_member counts them under the organisation's lock).        *)
THEOREM AdminRemains == Spec => []LastAdmin
<1>1. IInv => LastAdmin
  BY DEF IInv
<1> QED BY <1>1, Invariance, PTL
-------------------------------------------------------------------------------
(* Which step a request's change comes from.                               *)
LEMMA AppliedStep ==
  ASSUME IInv, [Next]_vars, NEW u \in Users, Changed(u)
  PROVE  \E r \in Requests :
           /\ req[r].target = u /\ req'[r] = None
           /\ MayAdminister(req[r].actor)
           /\ \/ req[r].step = "UPDATING" /\ Current(r)
              \/ req[r].step = "ADDING"
<1>1. ~(UNCHANGED <<status, roles, revision>>)
  BY DEF Changed
<1>2. PICK r \in Requests :
        (\E R \in Chosen : Add(r, R) \/ \E S \in {"ACTIVE", "REVOKED"} : Update(r, S, R))
  BY <1>1 DEF Next, vars, Show, AskAdd, ShowRoles, AskUpdate, Drop, Suspend
<1>3. req'[r] = None /\ MayAdminister(req[r].actor)
  BY <1>2 DEF Add, Update, StillAdmin, IInv, TypeOK
<1>4. \/ req[r].step = "UPDATING" /\ Current(r)
      \/ req[r].step = "ADDING"
  BY <1>2 DEF Add, Update
<1>5. req[r].target = u
  <2>1. ASSUME req[r].target # u PROVE FALSE
    <3>1. status'[u] = status[u] /\ roles'[u] = roles[u] /\ revision'[u] = revision[u]
      BY <1>2, <2>1 DEF Add, Update, IInv, TypeOK
    <3> QED BY <3>1 DEF Changed
  <2> QED BY <2>1
<1> QED BY <1>3, <1>4, <1>5

(* Whoever changes a membership administers the organisation at that       *)
(* moment (lock_and_check_admin).                                          *)
THEOREM ChangedByAdmin == Spec => ByAdmin
<1>1. ASSUME IInv, [Next]_vars
      PROVE  [\A u \in Users : Changed(u) =>
                open /\ \E r \in Requests :
                  Applied(r) /\ req[r].target = u /\ req[r].actor \in ActiveAdmins]_vars
  <2> SUFFICES ASSUME NEW u \in Users, Changed(u)
               PROVE  open /\ \E r \in Requests :
                        Applied(r) /\ req[r].target = u /\ req[r].actor \in ActiveAdmins
    OBVIOUS
  <2> QED BY <1>1, AppliedStep DEF MayAdminister, Applied
<1> QED BY <1>1, Invariance, PTL DEF Spec, ByAdmin

(* A change replaces what its author was shown and nothing else: the       *)
(* revision catches every change between the two statements of the list    *)
(* and the update (expected_revision in update_member).                    *)
THEOREM UpdateKeepsOthers == Spec => NoLostUpdate
<1>1. ASSUME IInv, [Next]_vars
      PROVE  [\A r \in Requests :
                Applied(r) /\ req[r].step = "UPDATING" /\ Changed(req[r].target)
                  => req[r].shown = State(req[r].target)]_vars
  <2> SUFFICES ASSUME NEW r \in Requests, Applied(r), req[r].step = "UPDATING",
                      Changed(req[r].target)
               PROVE  req[r].shown = State(req[r].target)
    OBVIOUS
  <2>1. req[r] \in RequestType
    BY <1>1, RequestTyped DEF IInv, None
  <2>2. req[r].target \in Users /\ req[r].shown \in StateType
    BY <2>1 DEF RequestType
  <2>3. PICK q \in Requests :
          /\ req'[q] = None
          /\ \/ req[q].step = "UPDATING" /\ Current(q)
             \/ req[q].step = "ADDING"
          /\ \/ \E R \in Chosen : Add(q, R)
             \/ \E R \in Chosen, S \in {"ACTIVE", "REVOKED"} : Update(q, S, R)
    <3>1. ~(UNCHANGED <<status, roles, revision>>)
      BY DEF Changed
    <3>2. PICK q \in Requests :
            (\E R \in Chosen : Add(q, R) \/ \E S \in {"ACTIVE", "REVOKED"} : Update(q, S, R))
      BY <1>1, <3>1 DEF Next, vars, Show, AskAdd, ShowRoles, AskUpdate, Drop, Suspend
    <3>3. req'[q] = None /\ (\/ req[q].step = "UPDATING" /\ Current(q)
                             \/ req[q].step = "ADDING")
      BY <1>1, <3>2 DEF Add, Update, IInv, TypeOK
    <3> QED BY <3>2, <3>3
  <2>4. req' = [req EXCEPT ![q] = None]
    BY <2>3 DEF Add, Update
  <2>5. q = r
    BY <1>1, <2>1, <2>4 DEF Applied, IInv, TypeOK, None
  <2>6. Current(r)
    BY <2>3, <2>5
  <2>7. /\ req[r].shown.revision = revision[req[r].target]
        /\ req[r].shown.status = status[req[r].target]
        /\ req[r].shown.roles = roles[req[r].target]
    BY <1>1, <2>6 DEF IInv, Shown, Current
  <2> QED BY <2>2, <2>7 DEF State, StateType
<1> QED BY <1>1, Invariance, PTL DEF Spec, NoLostUpdate
===============================================================================
