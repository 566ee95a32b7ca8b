--------------------------- MODULE DataTasks_proofs ---------------------------
(***************************************************************************)
(* Proofs about DataTasks.                                                 *)
(*                                                                         *)
(* Most steps are quiet: they move a process, end a task or renew a lease, *)
(* and touch neither the names of tasks nor their snapshots.  The others   *)
(* have a form of their own: a request that makes a task or repeats one, a *)
(* call of the provider, a claim, and what a run does with its snapshot.   *)
(* The invariant is followed form by form.                                 *)
(***************************************************************************)
EXTENDS DataTasks, FiniteSetTheorems, TLAPS

LEMMA Numbers ==
  /\ TotalLimit \in Nat /\ TotalLimit > 0 /\ WaitingLimit \in Nat /\ DatasetLimit \in Nat
  /\ MaxVersions \in Nat /\ MaxVersions > 0 /\ MaxAttempts \in Nat /\ MaxAttempts > 0
  /\ LeaseTime \in Nat /\ LeaseTime > 0
BY TaskAssumption

(* Tasks are identifiers, and a status tells whether there is a task.      *)
LEMMA TaskFacts ==
  ASSUME TypeOK
  PROVE  /\ created \in Nat /\ created <= TotalLimit /\ Tasks \subseteq TaskId
         /\ \A t \in TaskId : t \in Nat /\ (status[t] # "NONE" => t \in Tasks /\ task[t] \in TaskRow)
         /\ \A t \in Tasks : task[t] \in TaskRow /\ status[t] # "NONE"
<1>1. created \in Nat /\ created <= TotalLimit
  BY Numbers DEF TypeOK
<1>2. Tasks \subseteq TaskId /\ \A t \in TaskId : t \in Nat
  BY <1>1, Numbers DEF Tasks, TaskId
<1>3. ASSUME NEW t \in TaskId, status[t] # "NONE"
      PROVE  t \in Tasks /\ task[t] \in TaskRow
  BY <1>1, <1>2, <1>3, Numbers DEF TypeOK, Tasks, TaskId
<1>4. ASSUME NEW t \in Tasks PROVE task[t] \in TaskRow /\ status[t] # "NONE"
  <2>1. t \in TaskId /\ ~(t > created)
    BY <1>1, <1>2 DEF Tasks
  <2> QED BY <2>1 DEF TypeOK
<1> QED BY <1>1, <1>2, <1>3, <1>4

(* A task that some member's key names is a stored one.                    *)
LEMMA KnownStored ==
  ASSUME TypeOK, NEW u \in Users, NEW k, NEW t \in Known(u, k)
  PROVE  t \in Tasks /\ task[t].by = u /\ task[t].key = k
<1>1. t \in TaskId /\ task[t].by = u /\ task[t].key = k
  BY DEF Known
<1>2. task[t] # NoTask
  BY <1>1, TaskAssumption DEF NoTask
<1>3. t <= created
  BY <1>1, <1>2, TaskFacts DEF TypeOK
<1> QED BY <1>1, <1>3, TaskFacts DEF Tasks, TaskId

-------------------------------------------------------------------------------
(* The forms of a step.                                                    *)

\* a request under a new name makes the next task
Registered(u, k, r, n, s) ==
  LET t == created + 1
  IN  /\ Room /\ Known(u, k) = {}
      /\ created' = t
      /\ task' = [task EXCEPT ![t] = [by |-> u, key |-> k, request |-> r, version |-> n]]
      /\ status' = [status EXCEPT ![t] = s]
      /\ attempts' = attempts \/ attempts' = [attempts EXCEPT ![t] = 1]
      /\ lease' = lease \/ lease' = [lease EXCEPT ![t] = LeaseTime]
      /\ call' = call \/ (r.kind = "PLAN" /\ call' = [call EXCEPT ![t] = "reserved"])
      /\ answer' = [by |-> u, key |-> k, request |-> r, task |-> t]
      /\ UNCHANGED <<effects, workers, sends, orphans>>

RegisteredStep ==
  \E u \in Users, k \in Keys, r \in Requests, n \in VersionNo, s \in Open :
    Registered(u, k, r, n, s)

\* a request under a known name is answered with its task
RepeatedStep ==
  /\ \E t \in Tasks :
       answer' = [by |-> task[t].by, key |-> task[t].key, request |-> task[t].request, task |-> t]
  /\ UNCHANGED <<rows, effects, workers, call, sends, orphans>>

\* an open task ends; among these steps only a plan request ends one well
Ended(t) ==
  /\ status[t] \in Open
  /\ \E s \in Final : status' = [status EXCEPT ![t] = s] /\ (s = "SUCCEEDED" => call[t] # "none")

\* processes move, open tasks end, leases and what is around change
Quiet ==
  /\ UNCHANGED <<created, task, attempts, object, imported, run, observed>>
  /\ lease' \in [TaskId -> 0..LeaseTime]
  /\ pc' \in [Workers -> Steps]
  /\ \A w \in Workers : pc'[w] = "idle" <=> pc[w] = "idle"
  /\ call' \in [TaskId -> {"none", "reserved", "answered", "over"}]
  /\ \A t \in TaskId : call'[t] = call[t] \/ (call[t] \in {"reserved", "answered"} /\ call'[t] = "over")
  /\ status' \in [TaskId -> Statuses]
  /\ \A t \in TaskId : status'[t] = status[t] \/ (status[t] \in Open /\ status'[t] \in Final)
  /\ status' = status \/ \E t \in TaskId : Ended(t)
  /\ datasets' \in Nat /\ current' \in VersionNo /\ writers' \subseteq Users
  /\ previews' \in [Users -> [VersionNo -> [pending : Nat, ready : Nat]]]

Form ==
  \/ RegisteredStep \/ RepeatedStep \/ Quiet
  \/ \E t \in TaskId : CallProvider(t)
  \/ \E w \in Workers :
       \/ \E t \in TaskId : Claim(w, t)
       \/ Stage(w) \/ Publish(w) \/ Cleanup(w) \/ Crash(w)

(* A request that finds its key answers with that task.                    *)
LEMMA RepeatForm ==
  ASSUME TypeOK, NEW u \in Users, NEW k \in Keys, NEW r, Repeat(u, k, r)
  PROVE  RepeatedStep
<1>1. PICK t \in Known(u, k) : SameRequest(t, r) /\ Answer(u, k, r, t)
  BY DEF Repeat
<1>2. t \in Tasks /\ task[t].by = u /\ task[t].key = k
  BY KnownStored
<1> QED BY <1>1, <1>2 DEF Repeat, RepeatedStep, SameRequest, Answer

LEMMA AskForm ==
  ASSUME TypeOK, NEW u \in Users, NEW k \in Keys, NEW r \in Requests, Ask(u, k, r)
  PROVE  RegisteredStep \/ RepeatedStep
<1>1. CASE Known(u, k) # {}
  BY <1>1, RepeatForm DEF Ask
<1>2. CASE Known(u, k) = {}
  <2>1. current \in VersionNo
    BY DEF TypeOK
  <2>2. Registered(u, k, r, current, "QUEUED")
    BY <1>2 DEF Ask, NewRow, Registered, Answer
  <2> QED BY <2>1, <2>2 DEF RegisteredStep, Open
<1> QED BY <1>1, <1>2

LEMMA RetryForm ==
  ASSUME TypeOK, NEW u \in Users, NEW k \in Keys, NEW old \in TaskId, Retry(u, k, old)
  PROVE  RegisteredStep \/ RepeatedStep
<1>1. task[old].request \in Requests /\ task[old].version \in VersionNo
  <2>1. task[old] \in TaskRow
    BY TaskFacts DEF Retry
  <2> QED BY <2>1 DEF TaskRow
<1>2. CASE Known(u, k) # {}
  BY <1>2, RepeatForm DEF Retry
<1>3. CASE Known(u, k) = {}
  <2>1. Registered(u, k, task[old].request, task[old].version, "QUEUED")
    BY <1>3 DEF Retry, NewRow, Registered, Answer
  <2> QED BY <1>1, <2>1 DEF RegisteredStep, Open
<1> QED BY <1>2, <1>3

LEMMA AskPlanForm ==
  ASSUME TypeOK, NEW u \in Users, NEW k \in Keys, NEW r \in Requests, AskPlan(u, k, r)
  PROVE  RegisteredStep \/ RepeatedStep
<1>1. CASE Known(u, k) = {}
  <2>1. TaskOf(u, k) = created + 1 /\ ~(created + 1 <= created) /\ created + 1 > created
    BY <1>1, TaskFacts DEF TaskOf
  <2>2. current \in VersionNo
    BY DEF TypeOK
  <2>3. Registered(u, k, r, current, "RUNNING")
    BY <1>1, <2>1 DEF AskPlan, StartsCall, Registered, Answer
  <2> QED BY <2>2, <2>3 DEF RegisteredStep, Open
<1>2. CASE Known(u, k) # {}
  <2>1. TaskOf(u, k) \in Known(u, k)
    BY <1>2 DEF TaskOf
  <2>2. TaskOf(u, k) \in Tasks /\ task[TaskOf(u, k)].by = u /\ task[TaskOf(u, k)].key = k
    BY <2>1, KnownStored
  <2>3. TaskOf(u, k) <= created
    BY <2>2, TaskFacts DEF Tasks
  <2>4. /\ SameRequest(TaskOf(u, k), r) /\ Answer(u, k, r, TaskOf(u, k))
        /\ UNCHANGED <<rows, call>> /\ UNCHANGED <<effects, workers, sends, orphans>>
    BY <1>2, <2>3 DEF AskPlan, StartsCall
  <2> QED BY <2>2, <2>4 DEF RepeatedStep, SameRequest, Answer
<1> QED BY <1>1, <1>2

(* The parts of a quiet step that do not change.                           *)
LEMMA QuietRest ==
  ASSUME TypeOK
  PROVE  /\ lease \in [TaskId -> 0..LeaseTime] /\ pc \in [Workers -> Steps]
         /\ call \in [TaskId -> {"none", "reserved", "answered", "over"}]
         /\ status \in [TaskId -> Statuses]
         /\ datasets \in Nat /\ current \in VersionNo /\ writers \subseteq Users
         /\ previews \in [Users -> [VersionNo -> [pending : Nat, ready : Nat]]]
BY DEF TypeOK

(* Ending one open task.                                                   *)
LEMMA EndedStatus ==
  ASSUME TypeOK, NEW t \in TaskId, NEW s \in Final, status[t] \in Open,
         status' = [status EXCEPT ![t] = s], s = "SUCCEEDED" => call[t] # "none"
  PROVE  /\ status' \in [TaskId -> Statuses]
         /\ \A x \in TaskId : status'[x] = status[x] \/ (status[x] \in Open /\ status'[x] \in Final)
         /\ \E x \in TaskId : Ended(x)
<1>1. Ended(t)
  BY DEF Ended
<1> QED BY <1>1 DEF TypeOK, Final, Statuses

LEMMA CancelForm ==
  ASSUME TypeOK, NEW u \in Users, NEW t \in TaskId, Cancel(u, t)
  PROVE  Quiet
<1>1. status[t] \in Open /\ status' = [status EXCEPT ![t] = "CANCELLED"] /\ "CANCELLED" \in Final
  BY DEF Cancel, Final
<1>2. /\ status' \in [TaskId -> Statuses]
      /\ \A x \in TaskId : status'[x] = status[x] \/ (status[x] \in Open /\ status'[x] \in Final)
      /\ status' = status \/ \E x \in TaskId : Ended(x)
  BY <1>1, EndedStatus
<1> QED BY <1>2, QuietRest DEF Cancel, Quiet, effects, workers, observed

(* A plan's call is over.                                                  *)
LEMMA CallOver ==
  ASSUME TypeOK, NEW t \in TaskId, call[t] \in {"reserved", "answered"},
         call' = [call EXCEPT ![t] = "over"]
  PROVE  /\ call' \in [TaskId -> {"none", "reserved", "answered", "over"}]
         /\ \A x \in TaskId : call'[x] = call[x] \/ (call[x] \in {"reserved", "answered"} /\ call'[x] = "over")
BY DEF TypeOK

LEMMA RecordPlanForm ==
  ASSUME TypeOK, NEW t \in TaskId, RecordPlan(t)
  PROVE  Quiet
<1>1. /\ call' \in [TaskId -> {"none", "reserved", "answered", "over"}]
      /\ \A x \in TaskId : call'[x] = call[x] \/ (call[x] \in {"reserved", "answered"} /\ call'[x] = "over")
  BY CallOver DEF RecordPlan
<1>2. /\ status' \in [TaskId -> Statuses]
      /\ \A x \in TaskId : status'[x] = status[x] \/ (status[x] \in Open /\ status'[x] \in Final)
      /\ status' = status \/ \E x \in TaskId : Ended(x)
  <2>1. CASE task[t].by \in writers /\ CallHolds(t)
    <3>1. PICK end \in {"SUCCEEDED", "FAILED"} : status' = [status EXCEPT ![t] = end]
      BY <2>1 DEF RecordPlan
    <3>2. status[t] \in Open /\ end \in Final /\ call[t] # "none"
      BY <2>1 DEF CallHolds, Open, Final, RecordPlan
    <3> QED BY <3>1, <3>2, EndedStatus
  <2>2. CASE ~(task[t].by \in writers /\ CallHolds(t))
    BY <2>2, QuietRest DEF RecordPlan
  <2> QED BY <2>1, <2>2
<1> QED BY <1>1, <1>2, QuietRest DEF RecordPlan, Quiet, effects, workers, observed

LEMMA LosePlanForm ==
  ASSUME TypeOK, NEW t \in TaskId, LosePlan(t)
  PROVE  Quiet
<1>1. /\ call' \in [TaskId -> {"none", "reserved", "answered", "over"}]
      /\ \A x \in TaskId : call'[x] = call[x] \/ (call[x] \in {"reserved", "answered"} /\ call'[x] = "over")
  BY CallOver DEF LosePlan
<1> QED BY <1>1, QuietRest DEF LosePlan, Quiet, rows, effects, workers, observed

LEMMA PreviewForm ==
  ASSUME TypeOK, NEW u \in Users, NEW n \in VersionNo,
         NEW p \in [pending : Nat, ready : Nat], previews' = [previews EXCEPT ![u][n] = p],
         UNCHANGED <<rows, object, datasets, imported, current, writers, workers, call, observed>>
  PROVE  Quiet
<1>1. previews' \in [Users -> [VersionNo -> [pending : Nat, ready : Nat]]]
  BY DEF TypeOK
<1> QED BY <1>1, QuietRest DEF Quiet, rows, workers, observed

LEMMA PlanPreviewForm ==
  ASSUME TypeOK, NEW u \in Users, NEW t \in TaskId, PlanPreview(u, t)
  PROVE  Quiet
<1> DEFINE n == task[t].version
<1> DEFINE p == [previews[u][n] EXCEPT !.pending = @ + 1]
<1>1. n \in VersionNo
  <2>1. task[t] \in TaskRow
    BY TaskFacts DEF PlanPreview
  <2> QED BY <2>1 DEF TaskRow
<1>2. previews[u][n] \in [pending : Nat, ready : Nat]
  BY <1>1 DEF TypeOK
<1> HIDE DEF n
<1>3. p \in [pending : Nat, ready : Nat]
  BY <1>2
<1>4. previews' = [previews EXCEPT ![u][n] = p]
  BY <1>1 DEF PlanPreview, TypeOK, n
<1> QED BY <1>1, <1>3, <1>4, PreviewForm DEF PlanPreview

LEMMA PreviewEndsForm ==
  ASSUME TypeOK, NEW u \in Users, NEW n \in VersionNo, PreviewEnds(u, n)
  PROVE  Quiet
<1>1. PICK done \in {0, 1} :
        previews' = [previews EXCEPT ![u][n].pending = @ - 1, ![u][n].ready = @ + done]
  BY DEF PreviewEnds
<1> DEFINE p == [previews[u][n] EXCEPT !.pending = @ - 1, !.ready = @ + done]
<1>2. previews[u][n] \in [pending : Nat, ready : Nat] /\ previews[u][n].pending > 0
  BY DEF TypeOK, PreviewEnds
<1>3. p \in [pending : Nat, ready : Nat]
  <2>1. previews[u][n].pending - 1 \in Nat /\ previews[u][n].ready + done \in Nat
    BY <1>2
  <2> QED BY <1>2, <2>1
<1>4. previews' = [previews EXCEPT ![u][n] = p]
  BY <1>1 DEF TypeOK
<1> HIDE DEF p
<1> QED BY <1>3, <1>4, PreviewForm DEF PreviewEnds

LEMMA AroundForm ==
  ASSUME TypeOK, NewVersion \/ OtherDataset \/ \E u \in Users : ChangeRights(u)
  PROVE  Quiet
<1>1. /\ datasets' \in Nat /\ current' \in VersionNo /\ writers' \subseteq Users
      /\ UNCHANGED <<rows, object, imported, previews, workers, call, observed>>
  BY QuietRest, Numbers DEF NewVersion, OtherDataset, ChangeRights, VersionNo
<1> QED BY <1>1, QuietRest DEF Quiet, rows, workers, observed

LEMMA TickForm ==
  ASSUME TypeOK, Tick
  PROVE  Quiet
<1>1. \A t \in TaskId : (IF lease[t] > 0 THEN lease[t] - 1 ELSE 0) \in 0..LeaseTime
  BY QuietRest, Numbers
<1>2. lease' \in [TaskId -> 0..LeaseTime]
  BY <1>1 DEF Tick
<1> QED BY <1>2, QuietRest DEF Tick, Quiet, effects, workers, observed

LEMMA GiveUpForm ==
  ASSUME TypeOK, NEW w \in Workers, NEW t \in TaskId, GiveUp(w, t)
  PROVE  Quiet
<1>1. status[t] \in Open /\ status' = [status EXCEPT ![t] = "FAILED"] /\ "FAILED" \in Final
  BY DEF GiveUp, Oldest, Claimable, Open, Final
<1>2. /\ status' \in [TaskId -> Statuses]
      /\ \A x \in TaskId : status'[x] = status[x] \/ (status[x] \in Open /\ status'[x] \in Final)
      /\ status' = status \/ \E x \in TaskId : Ended(x)
  BY <1>1, EndedStatus
<1> QED BY <1>2, QuietRest DEF GiveUp, Quiet, effects, workers, observed

(* A busy process takes another step of its own.                           *)
LEMMA MoveForm ==
  ASSUME TypeOK, NEW w \in Workers, pc[w] # "idle", NEW step \in Steps \ {"idle"},
         pc' = [pc EXCEPT ![w] = step]
  PROVE  pc' \in [Workers -> Steps] /\ \A v \in Workers : pc'[v] = "idle" <=> pc[v] = "idle"
BY DEF TypeOK

LEMMA OnlyPcForm ==
  ASSUME TypeOK, NEW w \in Workers, pc[w] # "idle", NEW step \in Steps \ {"idle"},
         Goto(w, step), OnlyPc
  PROVE  Quiet
<1>1. pc' \in [Workers -> Steps] /\ \A v \in Workers : pc'[v] = "idle" <=> pc[v] = "idle"
  BY MoveForm DEF Goto
<1> QED BY <1>1, QuietRest DEF OnlyPc, Quiet, rows, effects, observed

LEMMA RenewForm ==
  ASSUME TypeOK, NEW w \in Workers, Renew(w),
         UNCHANGED pc \/ \E step \in Steps \ {"idle"} : pc[w] # "idle" /\ Goto(w, step)
  PROVE  Quiet
<1>1. pc' \in [Workers -> Steps] /\ \A v \in Workers : pc'[v] = "idle" <=> pc[v] = "idle"
  BY MoveForm, QuietRest DEF Goto
<1>2. LeaseTime \in 0..LeaseTime
  BY Numbers
<1>3. lease' \in [TaskId -> 0..LeaseTime]
  BY <1>2, QuietRest DEF Renew
<1> QED BY <1>1, <1>3, QuietRest DEF Renew, Quiet, effects, observed

(* A busy run belongs to a task that exists and to an attempt it counted.  *)
LEMMA RunFacts ==
  ASSUME IInv, NEW w \in Workers, pc[w] # "idle"
  PROVE  /\ run[w].task \in TaskId /\ run[w].task \in Tasks
         /\ run[w].attempt \in Attempt /\ run[w].attempt \in Nat
         /\ run[w].attempt <= attempts[run[w].task] /\ attempts[run[w].task] \in Nat
         /\ run[w].staged \in BOOLEAN
<1>1. run[w].task \in Tasks /\ run[w].attempt \in 1..attempts[run[w].task]
  BY DEF IInv, RunsCounted
<1>2. run[w].task \in TaskId /\ attempts[run[w].task] \in 0..MaxAttempts
  BY <1>1, TaskFacts DEF IInv, TypeOK
<1>3. run[w].staged \in BOOLEAN
  BY DEF IInv, TypeOK
<1> QED BY <1>1, <1>2, <1>3, Numbers DEF Attempt

LEMMA ReportFailureForm ==
  ASSUME IInv, NEW w \in Workers, ReportFailure(w)
  PROVE  Quiet
<1>1. pc' \in [Workers -> Steps] /\ \A v \in Workers : pc'[v] = "idle" <=> pc[v] = "idle"
  BY MoveForm DEF ReportFailure, Goto, Steps, IInv
<1>2. /\ status' \in [TaskId -> Statuses]
      /\ \A x \in TaskId : status'[x] = status[x] \/ (status[x] \in Open /\ status'[x] \in Final)
      /\ status' = status \/ \E x \in TaskId : Ended(x)
  <2>1. CASE status[run[w].task] = "RUNNING" /\ attempts[run[w].task] = run[w].attempt
    <3>1. /\ run[w].task \in TaskId /\ status[run[w].task] \in Open /\ "FAILED" \in Final
          /\ status' = [status EXCEPT ![run[w].task] = "FAILED"]
      BY <2>1, RunFacts DEF ReportFailure, Open, Final
    <3> QED BY <3>1, EndedStatus DEF IInv
  <2>2. CASE ~(status[run[w].task] = "RUNNING" /\ attempts[run[w].task] = run[w].attempt)
    BY <2>2, QuietRest DEF ReportFailure, IInv
  <2> QED BY <2>1, <2>2
<1> QED BY <1>1, <1>2, QuietRest DEF ReportFailure, Quiet, effects, observed, IInv

LEMMA WorkerForm ==
  ASSUME IInv, NEW w \in Workers, WorkerStep(w)
  PROVE  Form
<1>1. CASE \E t \in TaskId : GiveUp(w, t)
  BY <1>1, GiveUpForm DEF Form, IInv
<1>2. CASE Heartbeat(w)
  BY <1>2, RenewForm DEF Form, Heartbeat, IInv
<1>3. CASE BeatThen(w, "start", "compute") \/ BeatThen(w, "hold", "stage") \/ BeatThen(w, "confirm", "publish")
  <2>1. /\ "compute" \in Steps \ {"idle"} /\ "stage" \in Steps \ {"idle"} /\ "publish" \in Steps \ {"idle"}
    BY DEF Steps
  <2> QED BY <1>3, <2>1, RenewForm DEF Form, BeatThen, IInv
<1>4. CASE EndCompute(w) \/ StageRefused(w) \/ EndChunks(w) \/ PublishRefused(w) \/ LoseLease(w) \/ Denied(w) \/ Abort(w)
  <2>1. pc[w] # "idle" /\ OnlyPc
    BY <1>4 DEF EndCompute, StageRefused, EndChunks, PublishRefused, LoseLease, Denied, Abort, Beats
  <2>2. \E step \in {"hold", "confirm", "failed", "cleanup"} : Goto(w, step)
    BY <1>4 DEF EndCompute, StageRefused, EndChunks, PublishRefused, LoseLease, Denied, Abort
  <2>3. {"hold", "confirm", "failed", "cleanup"} \subseteq Steps \ {"idle"}
    BY DEF Steps
  <2> QED BY <2>1, <2>2, <2>3, OnlyPcForm DEF Form, IInv
<1>5. CASE ReportFailure(w)
  BY <1>5, ReportFailureForm DEF Form
<1> QED
  BY <1>1, <1>2, <1>3, <1>4, <1>5 DEF Form, WorkerStep, Advance

(* Every step has one of the forms.                                        *)
LEMMA FormOfStep ==
  ASSUME IInv, [Next]_vars
  PROVE  Form
<1>1. CASE MemberStep
  BY <1>1, AskForm, RetryForm, AskPlanForm, CancelForm, PlanPreviewForm, AroundForm
  DEF MemberStep, Form, IInv
<1>2. CASE OtherStep
  BY <1>2, PreviewEndsForm, AroundForm DEF OtherStep, Form, IInv
<1>3. CASE \E t \in TaskId : PlanStep(t) \/ LosePlan(t)
  BY <1>3, RecordPlanForm, LosePlanForm DEF PlanStep, Form, IInv
<1>4. CASE \E w \in Workers : WorkerStep(w)
  BY <1>4, WorkerForm
<1>5. CASE Tick
  BY <1>5, TickForm DEF Form, IInv
<1>6. CASE UNCHANGED vars
  BY <1>6, QuietRest DEF vars, rows, effects, workers, observed, Quiet, Form, IInv
<1> QED BY <1>1, <1>2, <1>3, <1>4, <1>5, <1>6 DEF Next
-------------------------------------------------------------------------------
(* Initially there are no tasks, runs or snapshots.                        *)
LEMMA InitInv == Init => IInv
<1> SUFFICES ASSUME Init PROVE IInv
  OBVIOUS
<1>1. TypeOK
  <2>1. 0 \in 0..TotalLimit /\ 0 \in 0..MaxAttempts /\ 0 \in 0..LeaseTime /\ 1 \in VersionNo
        /\ \A t \in TaskId : t > 0
    BY Numbers DEF VersionNo, TaskId
  <2>2. NoRun \in [task : 0..TotalLimit, attempt : 0..MaxAttempts, staged : BOOLEAN]
    BY <2>1 DEF NoRun
  <2>3. object \in [TaskId -> [Attempt -> {"NONE", "OPEN", "SEALED", "CANCELLED"}]]
    BY DEF Init
  <2>4. previews \in [Users -> [VersionNo -> [pending : Nat, ready : Nat]]]
    BY DEF Init
  <2> QED BY <2>1, <2>2, <2>3, <2>4, Numbers DEF Init, TypeOK, Statuses, Steps, NoAnswer
<1>2. RunsCounted /\ ImportsCounted /\ CallsMade
  BY DEF Init, RunsCounted, ImportsCounted, CallsMade
<1>3. AnswersTheRequest
  BY DEF Init, AnswersTheRequest, NoAnswer, Tasks
<1>4. SnapshotsAccounted
  BY DEF Init, SnapshotsAccounted
<1> QED BY <1>1, <1>2, <1>3, <1>4 DEF IInv

(* An open snapshot has a run that staged it or a process that died.       *)
LEMMA Owner ==
  ASSUME IInv, NEW x \in TaskId, NEW b \in Attempt, object[x][b] = "OPEN"
  PROVE  \/ \E v \in Workers : run[v] = [task |-> x, attempt |-> b, staged |-> TRUE]
         \/ \E m \in b..attempts[x] : m = attempts[x] /\ <<x, b, m>> \in orphans
BY DEF IInv, SnapshotsAccounted

(* A new task: its identifier was free, so nothing is about it yet.        *)
LEMMA RegisteredInv ==
  ASSUME IInv, RegisteredStep
  PROVE  IInv'
<1>1. PICK u \in Users, k \in Keys, r \in Requests, n \in VersionNo, s \in Open :
        Registered(u, k, r, n, s)
  BY DEF RegisteredStep
<1>2. PICK t : t = created + 1
  OBVIOUS
<1> DEFINE row == [by |-> u, key |-> k, request |-> r, version |-> n]
<1>3. /\ created < TotalLimit /\ Known(u, k) = {} /\ created' = t
      /\ task' = [task EXCEPT ![t] = row]
      /\ status' = [status EXCEPT ![t] = s]
      /\ attempts' = attempts \/ attempts' = [attempts EXCEPT ![t] = 1]
      /\ lease' = lease \/ lease' = [lease EXCEPT ![t] = LeaseTime]
      /\ call' = call \/ (r.kind = "PLAN" /\ call' = [call EXCEPT ![t] = "reserved"])
      /\ answer' = [by |-> u, key |-> k, request |-> r, task |-> t]
      /\ UNCHANGED <<object, datasets, imported, current, previews, writers, pc, run, sends, orphans>>
  BY <1>1, <1>2 DEF Registered, Room, effects, workers
<1>4. /\ t \in TaskId /\ t > created /\ created \in Nat /\ t \notin Tasks
      /\ created' \in 0..TotalLimit /\ Tasks' = Tasks \cup {t}
  BY <1>2, <1>3, TaskFacts, Numbers DEF IInv, TaskId, Tasks
<1>5. row \in TaskRow /\ row # NoTask /\ row.by = u /\ row.key = k /\ row.request = r
  BY TaskAssumption DEF TaskRow, NoTask
<1> HIDE DEF row
<1>6. task'[t] = row /\ status'[t] = s /\ \A x \in TaskId : x # t => task'[x] = task[x] /\ status'[x] = status[x]
  BY <1>3, <1>4 DEF IInv, TypeOK
<1>7. \A x \in TaskId : x # t => attempts'[x] = attempts[x] /\ call'[x] = call[x]
  BY <1>3 DEF IInv, TypeOK
<1>8. status[t] = "NONE" /\ s # "NONE" /\ s \in Statuses /\ s # "SUCCEEDED"
  BY <1>4 DEF IInv, TypeOK, Open, Statuses
<1>9. TypeOK'
  <2>1. task' \in [TaskId -> TaskRow \cup {NoTask}]
    BY <1>3, <1>5 DEF IInv, TypeOK
  <2>2. status' \in [TaskId -> Statuses]
    BY <1>3, <1>8 DEF IInv, TypeOK
  <2>3. ASSUME NEW x \in TaskId
        PROVE  (status'[x] = "NONE" <=> x > created') /\ (task'[x] = NoTask <=> x > created')
    <3>1. CASE x = t
      BY <1>2, <1>3, <1>4, <1>5, <1>6, <1>8, <3>1
    <3>2. CASE x # t
      <4>1. x > created <=> x > created'
        BY <1>2, <1>3, <1>4, <3>2 DEF TaskId
      <4> QED BY <1>6, <3>2, <4>1 DEF IInv, TypeOK
    <3> QED BY <3>1, <3>2
  <2>4. attempts' \in [TaskId -> 0..MaxAttempts]
    <3>1. 1 \in 0..MaxAttempts
      BY Numbers
    <3> QED BY <1>3, <3>1 DEF IInv, TypeOK
  <2>5. lease' \in [TaskId -> 0..LeaseTime]
    <3>1. LeaseTime \in 0..LeaseTime
      BY Numbers
    <3> QED BY <1>3, <3>1 DEF IInv, TypeOK
  <2>6. call' \in [TaskId -> {"none", "reserved", "answered", "over"}]
    BY <1>3 DEF IInv, TypeOK
  <2>7. answer'.task \in 0..created'
    BY <1>2, <1>3, <1>4
  <2> QED BY <1>3, <1>4, <2>1, <2>2, <2>3, <2>4, <2>5, <2>6, <2>7 DEF IInv, TypeOK
<1>10. RunsCounted'
  <2>1. \A x \in Tasks : x \in TaskId /\ x # t
    BY <1>4, TaskFacts DEF IInv
  <2> QED BY <1>3, <1>4, <1>7, <2>1 DEF IInv, RunsCounted
<1>11. ImportsCounted'
  BY <1>3, <1>6, <1>8 DEF IInv, ImportsCounted
<1>12. CallsMade'
  <2>1. ASSUME NEW x \in TaskId
        PROVE  /\ x > created' => call'[x] = "none" /\ attempts'[x] = 0
               /\ call'[x] # "none" => task'[x].request.kind = "PLAN"
               /\ call'[x] \in {"none", "reserved"} => sends[x] = 0
    <3>1. CASE x = t
      <4>1. call[t] = "none" /\ sends[t] = 0
        BY <1>4 DEF IInv, CallsMade
      <4>2. call'[t] # "none" => task'[t].request.kind = "PLAN"
        BY <1>3, <1>5, <1>6, <4>1
      <4> QED BY <1>2, <1>3, <1>4, <3>1, <4>1, <4>2
    <3>2. CASE x # t
      <4>1. x > created' => x > created
        BY <1>2, <1>3, <1>4, <3>2 DEF TaskId
      <4> QED BY <1>6, <1>7, <3>2, <4>1 DEF IInv, CallsMade
    <3> QED BY <3>1, <3>2
  <2> QED BY <1>3, <2>1 DEF CallsMade
<1>13. AnswersTheRequest'
  <2>1. ASSUME NEW x \in Tasks', NEW y \in Tasks',
               task'[x].by = task'[y].by, task'[x].key = task'[y].key
        PROVE  x = y
    <3>1. \A z \in Tasks : ~(task[z].by = u /\ task[z].key = k)
      BY <1>3, TaskFacts DEF IInv, Known
    <3>2. \A z \in Tasks : z \in TaskId /\ z # t /\ task'[z] = task[z]
      BY <1>4, <1>6, TaskFacts DEF IInv
    <3>3. CASE x = t /\ y = t
      BY <3>3
    <3>4. CASE x = t /\ y \in Tasks
      BY <1>5, <1>6, <2>1, <3>1, <3>2, <3>4
    <3>5. CASE x \in Tasks /\ y = t
      BY <1>5, <1>6, <2>1, <3>1, <3>2, <3>5
    <3>6. CASE x \in Tasks /\ y \in Tasks
      BY <2>1, <3>2, <3>6 DEF IInv, AnswersTheRequest
    <3> QED BY <1>4, <3>3, <3>4, <3>5, <3>6
  <2>2. ASSUME NEW x \in TaskId
        PROVE  sends[x] <= IF x <= created' /\ task'[x].request.external THEN 1 ELSE 0
    <3>1. CASE x = t
      <4>1. sends[t] = 0
        BY <1>4 DEF IInv, CallsMade
      <4> QED BY <3>1, <4>1
    <3>2. CASE x # t
      <4>1. x <= created <=> x <= created'
        BY <1>2, <1>3, <1>4, <3>2 DEF TaskId
      <4> QED BY <1>6, <3>2, <4>1 DEF IInv, AnswersTheRequest
    <3> QED BY <3>1, <3>2
  <2>3. /\ task'[answer'.task].by = answer'.by /\ task'[answer'.task].key = answer'.key
        /\ task'[answer'.task].request = answer'.request
    BY <1>3, <1>5, <1>6
  <2> QED BY <1>3, <2>1, <2>2, <2>3 DEF AnswersTheRequest
<1>14. SnapshotsAccounted'
  <2>1. ASSUME NEW x \in TaskId, NEW a \in Attempt
        PROVE  /\ object[x][a] = "SEALED" =>
                     status'[x] = "SUCCEEDED" /\ attempts'[x] = a /\ imported[x] = 1
               /\ object[x][a] = "OPEN" =>
                     \/ \E w \in Workers : run[w] = [task |-> x, attempt |-> a, staged |-> TRUE]
                     \/ \E m \in a..attempts'[x] : m = attempts'[x] /\ <<x, a, m>> \in orphans
    <3>1. CASE x # t
      BY <1>6, <1>7, <3>1 DEF IInv, SnapshotsAccounted
    <3>2. CASE x = t
      <4>1. object[t][a] # "SEALED"
        BY <1>8, <1>4 DEF IInv, SnapshotsAccounted
      <4>2. ~\E w \in Workers : run[w] = [task |-> t, attempt |-> a, staged |-> TRUE]
        BY <1>4, Numbers DEF IInv, RunsCounted, NoRun
      <4>3. attempts[t] = 0
        BY <1>4 DEF IInv, CallsMade
      <4>4. object[t][a] # "OPEN"
        <5>1. \A m \in a..0 : FALSE
          BY Numbers DEF Attempt
        <5> QED BY <1>4, <4>2, <4>3, <5>1, Owner
      <4> QED BY <3>2, <4>1, <4>4
    <3> QED BY <3>1, <3>2
  <2> QED BY <1>3, <2>1 DEF SnapshotsAccounted
<1> QED BY <1>9, <1>10, <1>11, <1>12, <1>13, <1>14 DEF IInv

(* The answer to a repeated request is about the task of its name.         *)
LEMMA RepeatedInv ==
  ASSUME IInv, RepeatedStep
  PROVE  IInv'
<1>1. PICK t \in Tasks :
        answer' = [by |-> task[t].by, key |-> task[t].key, request |-> task[t].request, task |-> t]
  BY DEF RepeatedStep
<1>2. /\ UNCHANGED <<created, task, status, attempts, lease, object, datasets, imported, current,
                      previews, writers, pc, run, call, sends, orphans>>
      /\ Tasks' = Tasks
  BY DEF RepeatedStep, rows, effects, workers, Tasks
<1>3. answer'.task \in 0..created
  BY <1>1, TaskFacts DEF IInv, Tasks
<1>4. TypeOK'
  BY <1>2, <1>3 DEF IInv, TypeOK
<1>5. RunsCounted' /\ ImportsCounted' /\ CallsMade'
  BY <1>2 DEF IInv, RunsCounted, ImportsCounted, CallsMade
<1>6. AnswersTheRequest'
  BY <1>1, <1>2 DEF IInv, AnswersTheRequest
<1>7. SnapshotsAccounted'
  BY <1>2 DEF IInv, SnapshotsAccounted
<1> QED BY <1>4, <1>5, <1>6, <1>7 DEF IInv

(* The invariant does not depend on what a quiet step changes.             *)
LEMMA QuietInv ==
  ASSUME IInv, Quiet
  PROVE  IInv'
<1>1. /\ UNCHANGED <<created, task, attempts, object, imported, run, answer, sends, orphans>>
      /\ Tasks' = Tasks
  BY DEF Quiet, observed, Tasks
<1>2. \A t \in TaskId : (status'[t] = "NONE" <=> status[t] = "NONE")
                       /\ (status[t] = "SUCCEEDED" => status'[t] = "SUCCEEDED")
  BY DEF Quiet, Open, Final
<1>3. TypeOK'
  BY <1>1, <1>2 DEF IInv, TypeOK, Quiet
<1>4. RunsCounted'
  BY <1>1 DEF IInv, RunsCounted, Quiet
<1>5. ImportsCounted'
  BY <1>1, <1>2 DEF IInv, ImportsCounted
<1>6. CallsMade'
  BY <1>1 DEF IInv, CallsMade, Quiet
<1>7. AnswersTheRequest'
  BY <1>1 DEF IInv, AnswersTheRequest
<1>8. SnapshotsAccounted'
  BY <1>1, <1>2 DEF IInv, SnapshotsAccounted
<1> QED BY <1>3, <1>4, <1>5, <1>6, <1>7, <1>8 DEF IInv

(* The provider is called for a reserved plan, once.                       *)
LEMMA CallProviderInv ==
  ASSUME IInv, NEW t \in TaskId, CallProvider(t)
  PROVE  IInv'
<1>1. /\ UNCHANGED <<created, task, status, attempts, lease, object, datasets, imported, current,
                      previews, writers, pc, run, answer, orphans>>
      /\ Tasks' = Tasks
      /\ call[t] = "reserved" /\ call' = [call EXCEPT ![t] = "answered"]
      /\ sends' = IF task[t].request.external THEN [sends EXCEPT ![t] = sends[t] + 1] ELSE sends
  BY DEF CallProvider, rows, effects, workers, Tasks
<1>2. sends[t] = 0 /\ t <= created
  BY <1>1, TaskFacts DEF IInv, CallsMade
<1>3. \A x \in TaskId : x # t => sends'[x] = sends[x] /\ call'[x] = call[x]
  BY <1>1 DEF IInv, TypeOK
<1>4. call'[t] = "answered" /\ sends'[t] = IF task[t].request.external THEN 1 ELSE 0
  BY <1>1, <1>2 DEF IInv, TypeOK
<1>5. TypeOK'
  BY <1>1 DEF IInv, TypeOK
<1>6. RunsCounted' /\ ImportsCounted'
  BY <1>1 DEF IInv, RunsCounted, ImportsCounted
<1>7. CallsMade'
  <2>1. ~(t > created)
    BY <1>2, TaskFacts DEF IInv
  <2> QED BY <1>1, <1>3, <1>4, <2>1 DEF IInv, CallsMade
<1>8. AnswersTheRequest'
  <2>1. \A x \in TaskId : sends'[x] <= IF x <= created /\ task[x].request.external THEN 1 ELSE 0
    BY <1>2, <1>3, <1>4 DEF IInv, AnswersTheRequest
  <2> QED BY <1>1, <2>1 DEF IInv, AnswersTheRequest
<1>9. SnapshotsAccounted'
  BY <1>1 DEF IInv, SnapshotsAccounted
<1> QED BY <1>5, <1>6, <1>7, <1>8, <1>9 DEF IInv

-------------------------------------------------------------------------------
(* Parts that no step of a run with its snapshot touches.                  *)
LEMMA RequestsKept ==
  ASSUME IInv, UNCHANGED <<created, task, call, sends, answer>>,
         \A t \in TaskId : t > created => attempts'[t] = attempts[t]
  PROVE  CallsMade' /\ AnswersTheRequest'
BY DEF IInv, CallsMade, AnswersTheRequest, Tasks

(* A claim counts an attempt and closes what earlier ones left open.       *)
LEMMA ClaimInv ==
  ASSUME IInv, NEW w \in Workers, NEW t \in TaskId, Claim(w, t)
  PROVE  IInv'
<1> DEFINE new == [task |-> t, attempt |-> attempts[t] + 1, staged |-> FALSE]
<1>1. /\ pc[w] = "idle" /\ status[t] \in Open /\ attempts[t] < MaxAttempts
      /\ status' = [status EXCEPT ![t] = "RUNNING"]
      /\ lease' = [lease EXCEPT ![t] = LeaseTime]
      /\ attempts' = [attempts EXCEPT ![t] = attempts[t] + 1]
      /\ object' = [object EXCEPT ![t] = [a \in Attempt |-> Discarded(object[t][a])]]
      /\ pc' = [pc EXCEPT ![w] = "start"]
      /\ run' = [run EXCEPT ![w] = new]
      /\ UNCHANGED <<created, task, datasets, imported, current, previews, writers, call,
                      answer, sends, orphans>>
  <2>1. attempts[t] < MaxAttempts
    <3>1. attempts[t] \in 0..MaxAttempts
      BY DEF IInv, TypeOK
    <3> QED BY <3>1, Numbers DEF Claim, GivesUp
  <2> QED BY <2>1 DEF Claim, Oldest, Claimable, Open, Freed, observed
<1>2. t \in Tasks /\ attempts[t] \in Nat /\ Tasks' = Tasks /\ ~(t > created)
  <2>1. t \in Tasks /\ attempts[t] \in Nat
    BY <1>1, TaskFacts, Numbers DEF IInv, Open, TypeOK
  <2> QED BY <1>1, <2>1, TaskFacts DEF IInv, Tasks
<1>3. \A x \in TaskId : x # t => /\ attempts'[x] = attempts[x] /\ status'[x] = status[x]
                               /\ object'[x] = object[x]
  BY <1>1 DEF IInv, TypeOK
<1>4. /\ attempts'[t] = attempts[t] + 1 /\ status'[t] = "RUNNING"
      /\ \A a \in Attempt : object'[t][a] = Discarded(object[t][a])
  BY <1>1 DEF IInv, TypeOK
<1>5. \A a \in Attempt : object'[t][a] \in {"NONE", "SEALED", "CANCELLED"}
                         /\ (object'[t][a] = "SEALED" => object[t][a] = "SEALED")
  BY <1>4 DEF IInv, TypeOK, Discarded
<1>6. run[w] = NoRun
  BY <1>1 DEF IInv, RunsCounted
<1>7. new \in [task : 0..TotalLimit, attempt : 0..MaxAttempts, staged : BOOLEAN]
      /\ new.task = t /\ new.attempt = attempts[t] + 1 /\ new.staged = FALSE
  BY <1>1, <1>2, Numbers DEF TaskId
<1> HIDE DEF new
<1>8. run'[w] = new /\ pc'[w] = "start" /\ \A v \in Workers : v # w => run'[v] = run[v] /\ pc'[v] = pc[v]
  BY <1>1 DEF IInv, TypeOK
<1>9. TypeOK'
  <2>1. status' \in [TaskId -> Statuses] /\ pc' \in [Workers -> Steps]
    BY <1>1 DEF IInv, TypeOK, Statuses, Steps
  <2>2. lease' \in [TaskId -> 0..LeaseTime]
    <3>1. LeaseTime \in 0..LeaseTime
      BY Numbers
    <3> QED BY <1>1, <3>1 DEF IInv, TypeOK
  <2>3. attempts' \in [TaskId -> 0..MaxAttempts]
    <3>1. attempts[t] + 1 \in 0..MaxAttempts
      BY <1>1, <1>2, Numbers
    <3> QED BY <1>1, <3>1 DEF IInv, TypeOK
  <2>4. object' \in [TaskId -> [Attempt -> {"NONE", "OPEN", "SEALED", "CANCELLED"}]]
    <3>1. [a \in Attempt |-> Discarded(object[t][a])] \in [Attempt -> {"NONE", "OPEN", "SEALED", "CANCELLED"}]
      BY DEF IInv, TypeOK, Discarded
    <3> QED BY <1>1, <3>1 DEF IInv, TypeOK
  <2>5. run' \in [Workers -> [task : 0..TotalLimit, attempt : 0..MaxAttempts, staged : BOOLEAN]]
    BY <1>1, <1>7 DEF IInv, TypeOK
  <2>6. \A x \in TaskId : status'[x] = "NONE" <=> status[x] = "NONE"
    BY <1>1, <1>3, <1>4 DEF Open
  <2> QED BY <1>1, <2>1, <2>2, <2>3, <2>4, <2>5, <2>6 DEF IInv, TypeOK
<1>10. RunsCounted'
  <2>1. ASSUME NEW v \in Workers, pc'[v] # "idle"
        PROVE  run'[v].task \in Tasks /\ run'[v].attempt \in 1..attempts'[run'[v].task]
    <3>1. CASE v = w
      BY <1>2, <1>4, <1>7, <1>8, <3>1
    <3>2. CASE v # w
      <4>1. /\ pc[v] # "idle" /\ run'[v] = run[v]
        BY <1>8, <2>1, <3>2
      <4>2. /\ run[v].task \in TaskId /\ run[v].task \in Tasks
            /\ run[v].attempt \in 1..attempts[run[v].task] /\ attempts[run[v].task] \in Nat
        BY <4>1, RunFacts DEF IInv, RunsCounted
      <4>3. attempts[run[v].task] <= attempts'[run[v].task] /\ attempts'[run[v].task] \in Nat
        BY <1>2, <1>3, <1>4, <4>2
      <4> QED BY <4>1, <4>2, <4>3
    <3> QED BY <3>1, <3>2
  <2>2. ASSUME NEW v \in Workers, pc'[v] = "idle" PROVE run'[v] = NoRun
    BY <1>8, <2>2 DEF IInv, RunsCounted
  <2> QED BY <1>2, <2>1, <2>2 DEF RunsCounted
<1>11. ImportsCounted'
  BY <1>1, <1>3, <1>4 DEF IInv, ImportsCounted, Open
<1>12. CallsMade' /\ AnswersTheRequest'
  BY <1>1, <1>2, <1>3, RequestsKept
<1>13. SnapshotsAccounted'
  <2>1. ASSUME NEW x \in TaskId, NEW a \in Attempt
        PROVE  /\ object'[x][a] = "SEALED" =>
                     status'[x] = "SUCCEEDED" /\ attempts'[x] = a /\ imported[x] = 1
               /\ object'[x][a] = "OPEN" =>
                     \/ \E v \in Workers : run'[v] = [task |-> x, attempt |-> a, staged |-> TRUE]
                     \/ \E m \in a..attempts'[x] : m = attempts'[x] /\ <<x, a, m>> \in orphans
    <3>1. CASE x = t
      <4>1. object[t][a] # "SEALED"
        BY <1>1 DEF IInv, SnapshotsAccounted, Open
      <4> QED BY <1>5, <3>1, <4>1
    <3>2. CASE x # t
      <4>1. \A v \in Workers : run[v] = [task |-> x, attempt |-> a, staged |-> TRUE] => v # w
        BY <1>6 DEF NoRun
      <4>2. object'[x][a] = object[x][a] /\ status'[x] = status[x] /\ attempts'[x] = attempts[x]
        BY <1>3, <3>2
      <4>3. ASSUME object[x][a] = "OPEN"
            PROVE  \/ \E v \in Workers : run'[v] = [task |-> x, attempt |-> a, staged |-> TRUE]
                   \/ \E m \in a..attempts[x] : m = attempts[x] /\ <<x, a, m>> \in orphans
        <5>1. CASE \E m \in a..attempts[x] : m = attempts[x] /\ <<x, a, m>> \in orphans
          BY <5>1
        <5>2. CASE \E v \in Workers : run[v] = [task |-> x, attempt |-> a, staged |-> TRUE]
          BY <1>8, <4>1, <5>2
        <5> QED BY <4>3, <5>1, <5>2, Owner
      <4>4. object[x][a] = "SEALED" => status[x] = "SUCCEEDED" /\ attempts[x] = a /\ imported[x] = 1
        BY DEF IInv, SnapshotsAccounted
      <4> QED BY <4>2, <4>3, <4>4
    <3> QED BY <3>1, <3>2
  <2> QED BY <1>1, <2>1, ZenonT(60) DEF SnapshotsAccounted
<1> QED BY <1>9, <1>10, <1>11, <1>12, <1>13 DEF IInv

(* A staged snapshot belongs to the run that staged it.                    *)
LEMMA StageInv ==
  ASSUME IInv, NEW w \in Workers, Stage(w)
  PROVE  IInv'
<1>1. PICK t \in TaskId, a \in Attempt : t = run[w].task /\ a = run[w].attempt
  BY RunFacts DEF Stage
<1>2. /\ pc[w] = "stage" /\ pc' = [pc EXCEPT ![w] = "chunks"]
      /\ object' = [object EXCEPT ![t][a] = "OPEN"]
      /\ run' = [run EXCEPT ![w].staged = TRUE]
      /\ UNCHANGED <<created, task, status, attempts, lease, datasets, imported, current, previews,
                      writers, call, answer, sends, orphans>>
  BY <1>1 DEF Stage, Goto, rows, observed
<1>3. run'[w] = [task |-> t, attempt |-> a, staged |-> TRUE]
      /\ \A v \in Workers : v # w => run'[v] = run[v]
  BY <1>1, <1>2 DEF IInv, TypeOK
<1>4. object' \in [TaskId -> [Attempt -> {"NONE", "OPEN", "SEALED", "CANCELLED"}]]
      /\ object'[t][a] = "OPEN"
      /\ \A x \in TaskId, b \in Attempt : ~(x = t /\ b = a) => object'[x][b] = object[x][b]
  BY <1>2 DEF IInv, TypeOK
<1>5. TypeOK'
  <2>1. run' \in [Workers -> [task : 0..TotalLimit, attempt : 0..MaxAttempts, staged : BOOLEAN]]
    BY <1>2 DEF IInv, TypeOK
  <2>2. pc' \in [Workers -> Steps]
    BY <1>2 DEF IInv, TypeOK, Steps
  <2> QED BY <1>2, <1>4, <2>1, <2>2 DEF IInv, TypeOK
<1>6. RunsCounted'
  <2>1. \A v \in Workers : /\ run'[v].task = run[v].task /\ run'[v].attempt = run[v].attempt
                          /\ (pc'[v] = "idle" <=> pc[v] = "idle")
                          /\ (pc[v] = "idle" => run'[v] = run[v])
    BY <1>1, <1>2, <1>3 DEF IInv, TypeOK
  <2> QED BY <1>2, <2>1 DEF IInv, RunsCounted, Tasks
<1>7. ImportsCounted' /\ CallsMade' /\ AnswersTheRequest'
  BY <1>2, RequestsKept DEF IInv, ImportsCounted
<1>8. SnapshotsAccounted'
  <2>1. ASSUME NEW x \in TaskId, NEW b \in Attempt
        PROVE  /\ object'[x][b] = "SEALED" =>
                     status[x] = "SUCCEEDED" /\ attempts[x] = b /\ imported[x] = 1
               /\ object'[x][b] = "OPEN" =>
                     \/ \E v \in Workers : run'[v] = [task |-> x, attempt |-> b, staged |-> TRUE]
                     \/ \E m \in b..attempts[x] : m = attempts[x] /\ <<x, b, m>> \in orphans
    <3>1. CASE x = t /\ b = a
      BY <1>3, <1>4, <3>1
    <3>2. CASE ~(x = t /\ b = a)
      <4>1. \A v \in Workers : run[v] = [task |-> x, attempt |-> b, staged |-> TRUE] => v # w
        BY <1>1, <3>2
      <4>2. object'[x][b] = object[x][b]
        BY <1>4, <3>2
      <4>3. ASSUME object[x][b] = "OPEN"
            PROVE  \/ \E v \in Workers : run'[v] = [task |-> x, attempt |-> b, staged |-> TRUE]
                   \/ \E m \in b..attempts[x] : m = attempts[x] /\ <<x, b, m>> \in orphans
        <5>1. CASE \E m \in b..attempts[x] : m = attempts[x] /\ <<x, b, m>> \in orphans
          BY <5>1
        <5>2. CASE \E v \in Workers : run[v] = [task |-> x, attempt |-> b, staged |-> TRUE]
          BY <1>3, <4>1, <5>2
        <5> QED BY <4>3, <5>1, <5>2, Owner
      <4>4. object[x][b] = "SEALED" => status[x] = "SUCCEEDED" /\ attempts[x] = b /\ imported[x] = 1
        BY DEF IInv, SnapshotsAccounted
      <4> QED BY <4>2, <4>3, <4>4
    <3> QED BY <3>1, <3>2
  <2> QED BY <1>2, <2>1 DEF SnapshotsAccounted
<1> QED BY <1>5, <1>6, <1>7, <1>8 DEF IInv

(* The run with the lease seals its snapshot with the import.              *)
LEMMA PublishInv ==
  ASSUME IInv, NEW w \in Workers, Publish(w)
  PROVE  IInv'
<1>1. PICK t \in TaskId, a \in Attempt : t = run[w].task /\ a = run[w].attempt
  BY RunFacts DEF Publish
<1>2. /\ pc[w] = "publish" /\ pc' = [pc EXCEPT ![w] = "cleanup"]
      /\ status[t] = "RUNNING" /\ attempts[t] = a
      /\ status' = [status EXCEPT ![t] = "SUCCEEDED"]
      /\ \/ /\ object' = [object EXCEPT ![t][a] = "SEALED"] /\ datasets' = datasets + 1
            /\ imported' = [imported EXCEPT ![t] = imported[t] + 1]
         \/ UNCHANGED <<object, datasets, imported>>
      /\ UNCHANGED <<created, task, attempts, lease, current, previews, writers, run, call,
                      answer, sends, orphans>>
  BY <1>1 DEF Publish, HoldsLease, Goto, observed
<1>3. imported[t] = 0 /\ \A b \in Attempt : object[t][b] # "SEALED"
  BY <1>2 DEF IInv, ImportsCounted, SnapshotsAccounted
<1>4. status'[t] = "SUCCEEDED" /\ \A x \in TaskId : x # t => status'[x] = status[x] /\ imported'[x] = imported[x]
  <2>1. status'[t] = "SUCCEEDED" /\ \A x \in TaskId : x # t => status'[x] = status[x]
    BY <1>2 DEF IInv, TypeOK
  <2>2. imported \in [TaskId -> Nat]
    BY DEF IInv, TypeOK
  <2>3. CASE imported' = [imported EXCEPT ![t] = imported[t] + 1]
    BY <2>1, <2>2, <2>3
  <2>4. CASE imported' = imported
    BY <2>1, <2>4
  <2> QED BY <1>2, <2>3, <2>4
<1>5. object' \in [TaskId -> [Attempt -> {"NONE", "OPEN", "SEALED", "CANCELLED"}]]
      /\ \A x \in TaskId, b \in Attempt : ~(x = t /\ b = a) => object'[x][b] = object[x][b]
  <2>1. object \in [TaskId -> [Attempt -> {"NONE", "OPEN", "SEALED", "CANCELLED"}]]
    BY DEF IInv, TypeOK
  <2>2. CASE object' = [object EXCEPT ![t][a] = "SEALED"]
    BY <2>1, <2>2
  <2>3. CASE object' = object
    BY <2>1, <2>3
  <2> QED BY <1>2, <2>2, <2>3
<1>6. object'[t][a] = "SEALED" => imported'[t] = 1
  BY <1>2, <1>3 DEF IInv, TypeOK
<1>7. object'[t][a] = "OPEN" => object[t][a] = "OPEN"
  BY <1>2 DEF IInv, TypeOK
<1>8. TypeOK'
  <2>1. status' \in [TaskId -> Statuses] /\ pc' \in [Workers -> Steps]
    BY <1>2 DEF IInv, TypeOK, Statuses, Steps
  <2>2. datasets' \in Nat /\ imported' \in [TaskId -> Nat]
    <3>1. datasets \in Nat /\ imported \in [TaskId -> Nat]
      BY DEF IInv, TypeOK
    <3>2. imported[t] + 1 \in Nat /\ datasets + 1 \in Nat
      BY <3>1
    <3>3. CASE datasets' = datasets + 1 /\ imported' = [imported EXCEPT ![t] = imported[t] + 1]
      BY <3>1, <3>2, <3>3
    <3>4. CASE UNCHANGED <<datasets, imported>>
      BY <3>1, <3>4
    <3> QED BY <1>2, <3>3, <3>4
  <2>3. \A x \in TaskId : status'[x] = "NONE" <=> status[x] = "NONE"
    BY <1>2, <1>4
  <2> QED BY <1>2, <1>5, <2>1, <2>2, <2>3 DEF IInv, TypeOK
<1>9. RunsCounted'
  <2>1. \A v \in Workers : pc'[v] = "idle" <=> pc[v] = "idle"
    BY <1>2 DEF IInv, TypeOK
  <2> QED BY <1>2, <2>1 DEF IInv, RunsCounted, Tasks
<1>10. ImportsCounted'
  BY <1>4 DEF IInv, ImportsCounted
<1>11. CallsMade' /\ AnswersTheRequest'
  BY <1>2, RequestsKept
<1>12. SnapshotsAccounted'
  <2>1. ASSUME NEW x \in TaskId, NEW b \in Attempt
        PROVE  /\ object'[x][b] = "SEALED" =>
                     status'[x] = "SUCCEEDED" /\ attempts[x] = b /\ imported'[x] = 1
               /\ object'[x][b] = "OPEN" =>
                     \/ \E v \in Workers : run[v] = [task |-> x, attempt |-> b, staged |-> TRUE]
                     \/ \E m \in b..attempts[x] : m = attempts[x] /\ <<x, b, m>> \in orphans
    <3>1. object'[x][b] = "OPEN" => object[x][b] = "OPEN"
      BY <1>5, <1>7
    <3>2. object'[x][b] = "SEALED" =>
            status'[x] = "SUCCEEDED" /\ attempts[x] = b /\ imported'[x] = 1
      <4>1. CASE x = t /\ b = a
        BY <1>2, <1>4, <1>6, <4>1
      <4>2. CASE x = t /\ b # a
        BY <1>3, <1>5, <4>2
      <4>3. CASE x # t
        <5>1. object'[x][b] = object[x][b] /\ status'[x] = status[x] /\ imported'[x] = imported[x]
          BY <1>4, <1>5, <4>3
        <5> QED BY <5>1, ZenonT(60) DEF IInv, SnapshotsAccounted
      <4> QED BY <4>1, <4>2, <4>3
    <3> QED BY <3>1, <3>2 DEF IInv, SnapshotsAccounted
  <2> QED BY <1>2, <2>1, ZenonT(60) DEF SnapshotsAccounted
<1> QED BY <1>8, <1>9, <1>10, <1>11, <1>12 DEF IInv

(* A worker becomes idle.                                                  *)
LEMMA IdleParts ==
  ASSUME IInv, NEW w \in Workers, pc' = [pc EXCEPT ![w] = "idle"], run' = [run EXCEPT ![w] = NoRun],
         UNCHANGED <<created, attempts>>
  PROVE  /\ pc' \in [Workers -> Steps]
         /\ run' \in [Workers -> [task : 0..TotalLimit, attempt : 0..MaxAttempts, staged : BOOLEAN]]
         /\ RunsCounted'
         /\ \A v \in Workers : v # w => run'[v] = run[v]
<1>1. NoRun \in [task : 0..TotalLimit, attempt : 0..MaxAttempts, staged : BOOLEAN]
  BY Numbers DEF NoRun
<1>2. pc' \in [Workers -> Steps] /\ pc'[w] = "idle" /\ \A v \in Workers : v # w => pc'[v] = pc[v]
  BY DEF IInv, TypeOK, Steps
<1>3. run'[w] = NoRun /\ \A v \in Workers : v # w => run'[v] = run[v]
  BY DEF IInv, TypeOK
<1>4. run' \in [Workers -> [task : 0..TotalLimit, attempt : 0..MaxAttempts, staged : BOOLEAN]]
  BY <1>1 DEF IInv, TypeOK
<1>5. RunsCounted'
  BY <1>2, <1>3 DEF IInv, RunsCounted, Tasks
<1> QED BY <1>2, <1>3, <1>4, <1>5

(* The finally block discards what the run staged and did not seal.        *)
LEMMA CleanupInv ==
  ASSUME IInv, NEW w \in Workers, Cleanup(w)
  PROVE  IInv'
<1>1. PICK t \in TaskId, a \in Attempt : t = run[w].task /\ a = run[w].attempt
  BY RunFacts DEF Cleanup
<1>2. /\ object' = IF run[w].staged THEN [object EXCEPT ![t][a] = Discarded(object[t][a])] ELSE object
      /\ pc' = [pc EXCEPT ![w] = "idle"] /\ run' = [run EXCEPT ![w] = NoRun]
      /\ UNCHANGED <<created, task, status, attempts, lease, datasets, imported, current, previews,
                      writers, call, answer, sends, orphans>>
  BY <1>1 DEF Cleanup, Goto, rows, observed
<1>3. /\ pc' \in [Workers -> Steps] /\ RunsCounted'
      /\ run' \in [Workers -> [task : 0..TotalLimit, attempt : 0..MaxAttempts, staged : BOOLEAN]]
      /\ \A v \in Workers : v # w => run'[v] = run[v]
  BY <1>2, IdleParts
<1>4. /\ object' \in [TaskId -> [Attempt -> {"NONE", "OPEN", "SEALED", "CANCELLED"}]]
      /\ \A x \in TaskId, b \in Attempt : ~(x = t /\ b = a) => object'[x][b] = object[x][b]
  BY <1>2 DEF IInv, TypeOK, Discarded
<1>5. /\ object'[t][a] = "SEALED" => object[t][a] = "SEALED"
      /\ object'[t][a] = "OPEN" => object[t][a] = "OPEN" /\ run[w].staged = FALSE
  <2>1. run[w].staged \in BOOLEAN
    BY DEF IInv, TypeOK
  <2> QED BY <1>2, <2>1 DEF IInv, TypeOK, Discarded
<1>6. TypeOK'
  BY <1>2, <1>3, <1>4 DEF IInv, TypeOK
<1>7. ImportsCounted' /\ CallsMade' /\ AnswersTheRequest'
  BY <1>2, RequestsKept DEF IInv, ImportsCounted
<1>8. SnapshotsAccounted'
  <2>1. ASSUME NEW x \in TaskId, NEW b \in Attempt
        PROVE  /\ object'[x][b] = "SEALED" =>
                     status[x] = "SUCCEEDED" /\ attempts[x] = b /\ imported[x] = 1
               /\ object'[x][b] = "OPEN" =>
                     \/ \E v \in Workers : run'[v] = [task |-> x, attempt |-> b, staged |-> TRUE]
                     \/ \E m \in b..attempts[x] : m = attempts[x] /\ <<x, b, m>> \in orphans
    <3>1. object'[x][b] = "SEALED" => object[x][b] = "SEALED"
      BY <1>4, <1>5
    <3>2. object'[x][b] = "OPEN" => object[x][b] = "OPEN"
      BY <1>4, <1>5
    <3>3. object'[x][b] = "OPEN" => run[w] # [task |-> x, attempt |-> b, staged |-> TRUE]
      BY <1>1, <1>5
    <3>4. ASSUME object'[x][b] = "OPEN"
          PROVE  \/ \E v \in Workers : run'[v] = [task |-> x, attempt |-> b, staged |-> TRUE]
                 \/ \E m \in b..attempts[x] : m = attempts[x] /\ <<x, b, m>> \in orphans
      <4>1. CASE \E m \in b..attempts[x] : m = attempts[x] /\ <<x, b, m>> \in orphans
        BY <4>1
      <4>2. CASE \E v \in Workers : run[v] = [task |-> x, attempt |-> b, staged |-> TRUE]
        BY <1>3, <3>3, <3>4, <4>2
      <4> QED BY <3>2, <3>4, <4>1, <4>2, Owner
    <3>5. object[x][b] = "SEALED" => status[x] = "SUCCEEDED" /\ attempts[x] = b /\ imported[x] = 1
      BY DEF IInv, SnapshotsAccounted
    <3> QED BY <3>1, <3>4, <3>5
  <2> QED BY <1>2, <2>1 DEF SnapshotsAccounted
<1> QED BY <1>3, <1>6, <1>7, <1>8 DEF IInv

(* A process that dies leaves its snapshot to its task and attempt.        *)
LEMMA CrashInv ==
  ASSUME IInv, NEW w \in Workers, Crash(w)
  PROVE  IInv'
<1>1. PICK t \in TaskId, a \in Attempt : t = run[w].task /\ a = run[w].attempt
  BY RunFacts DEF Crash
<1>2. /\ orphans' = orphans \cup {<<t, a, attempts[t]>>}
      /\ pc' = [pc EXCEPT ![w] = "idle"] /\ run' = [run EXCEPT ![w] = NoRun]
      /\ UNCHANGED <<created, task, status, attempts, lease, object, datasets, imported, current,
                      previews, writers, call, answer, sends>>
  BY <1>1 DEF Crash, Goto, rows, effects
<1>3. /\ pc' \in [Workers -> Steps] /\ RunsCounted'
      /\ run' \in [Workers -> [task : 0..TotalLimit, attempt : 0..MaxAttempts, staged : BOOLEAN]]
      /\ \A v \in Workers : v # w => run'[v] = run[v]
  BY <1>2, IdleParts
<1>4. attempts[t] \in a..attempts[t]
  BY <1>1, RunFacts DEF Crash
<1>5. TypeOK'
  BY <1>2, <1>3 DEF IInv, TypeOK
<1>6. ImportsCounted' /\ CallsMade' /\ AnswersTheRequest'
  BY <1>2, RequestsKept DEF IInv, ImportsCounted
<1>7. SnapshotsAccounted'
  <2>1. ASSUME NEW x \in TaskId, NEW b \in Attempt, object[x][b] = "OPEN"
        PROVE  \/ \E v \in Workers : run'[v] = [task |-> x, attempt |-> b, staged |-> TRUE]
               \/ \E m \in b..attempts[x] : m = attempts[x] /\ <<x, b, m>> \in orphans'
    <3>1. CASE run[w] = [task |-> x, attempt |-> b, staged |-> TRUE]
      <4>1. x = t /\ b = a
        BY <1>1, <3>1
      <4> QED BY <1>2, <1>4, <4>1
    <3>2. CASE \E v \in Workers : v # w /\ run[v] = [task |-> x, attempt |-> b, staged |-> TRUE]
      BY <1>3, <3>2
    <3>3. CASE \E m \in b..attempts[x] : m = attempts[x] /\ <<x, b, m>> \in orphans
      BY <1>2, <3>3
    <3> QED BY <2>1, <3>1, <3>2, <3>3, Owner
  <2> QED BY <1>2, <2>1 DEF IInv, SnapshotsAccounted
<1> QED BY <1>3, <1>5, <1>6, <1>7 DEF IInv

(* Every step preserves the invariant.                                     *)
LEMMA NextInv == IInv /\ [Next]_vars => IInv'
<1> SUFFICES ASSUME IInv, [Next]_vars PROVE IInv'
  OBVIOUS
<1>1. Form
  BY FormOfStep DEF IInv
<1> QED
  BY <1>1, RegisteredInv, RepeatedInv, QuietInv, CallProviderInv, ClaimInv, StageInv, PublishInv,
     CleanupInv, CrashInv DEF Form

(* The inductive invariant holds in every reachable state.                 *)
THEOREM Invariance == Spec => []IInv
<1> QED BY InitInv, NextInv, PTL DEF Spec

(* Every reachable state has the types, for all limits.                    *)
THEOREM TypeCorrect == Spec => []TypeOK
<1>1. IInv => TypeOK
  BY DEF IInv
<1> QED BY <1>1, Invariance, PTL

(* Every answer names the task of exactly the request that was asked under *)
(* the key, and no provider is called twice for one task (create_task).    *)
THEOREM AnswersName == Spec => []AnswersTheRequest
<1>1. IInv => AnswersTheRequest
  BY DEF IInv
<1> QED BY <1>1, Invariance, PTL

(* A sealed snapshot is the result of its task's last attempt, an open one *)
(* has a run that will close it or a process that died (process_task).     *)
THEOREM SnapshotsHaveOwner == Spec => []SnapshotsAccounted
<1>1. IInv => SnapshotsAccounted
  BY DEF IInv
<1> QED BY <1>1, Invariance, PTL
-------------------------------------------------------------------------------
(* Limits.                                                                 *)

(* The open tasks of a step are those of before, but for a new one when    *)
(* there is room.                                                          *)
OpenTasks == {t \in TaskId : status[t] \in Open}

LEMMA OpenTasksStep ==
  ASSUME IInv, [Next]_vars
  PROVE  \/ OpenTasks' \subseteq OpenTasks
         \/ Cardinality(OpenTasks) < WaitingLimit /\ OpenTasks' \subseteq OpenTasks \cup {created + 1}
<1>1. Form
  BY FormOfStep DEF IInv
<1>2. CASE RegisteredStep
  <2>1. PICK u \in Users, k \in Keys, r \in Requests, n \in VersionNo, s \in Open :
          Registered(u, k, r, n, s)
    BY <1>2 DEF RegisteredStep
  <2>2. Cardinality(OpenTasks) < WaitingLimit /\ status' = [status EXCEPT ![created + 1] = s]
    BY <2>1 DEF Registered, Room, OpenTasks
  <2>3. \A t \in TaskId : t # created + 1 => status'[t] = status[t]
    BY <2>2 DEF IInv, TypeOK
  <2> QED BY <2>2, <2>3 DEF OpenTasks
<1>3. CASE RepeatedStep \/ \E t \in TaskId : CallProvider(t)
  BY <1>3 DEF RepeatedStep, CallProvider, rows, OpenTasks
<1>4. CASE Quiet
  BY <1>4 DEF Quiet, OpenTasks
<1>5. CASE \E w \in Workers : Stage(w) \/ Cleanup(w) \/ Crash(w)
  BY <1>5 DEF Stage, Cleanup, Crash, rows, OpenTasks
<1>6. ASSUME NEW w \in Workers, NEW t \in TaskId, Claim(w, t)
      PROVE  OpenTasks' \subseteq OpenTasks
  <2>1. status[t] \in Open /\ status' = [status EXCEPT ![t] = "RUNNING"]
    BY <1>6 DEF Claim, Oldest, Claimable, Open
  <2>2. \A x \in TaskId : x # t => status'[x] = status[x]
    BY <2>1 DEF IInv, TypeOK
  <2> QED BY <2>1, <2>2 DEF OpenTasks
<1>7. ASSUME NEW w \in Workers, Publish(w)
      PROVE  OpenTasks' \subseteq OpenTasks
  <2>1. PICK t \in TaskId : status[t] \in Open /\ status' = [status EXCEPT ![t] = "SUCCEEDED"]
    BY <1>7, RunFacts DEF Publish, HoldsLease, Open
  <2>2. \A x \in TaskId : x # t => status'[x] = status[x]
    BY <2>1 DEF IInv, TypeOK
  <2> QED BY <2>1, <2>2 DEF OpenTasks
<1> QED BY <1>1, <1>2, <1>3, <1>4, <1>5, <1>6, <1>7 DEF Form

(* No organisation has more than the limit of queued and running tasks     *)
(* (create_task, plan), whatever is claimed, given up or retried.          *)
THEOREM WithinWaitingLimit == Spec => []OpenTasksBound
<1>1. IsFiniteSet(TaskId)
  BY FS_Interval, Numbers DEF TaskId
<1>2. IsFiniteSet(OpenTasks) /\ Cardinality(OpenTasks) \in Nat
  BY <1>1, FS_Subset, FS_CardinalityType DEF OpenTasks
<1>3. Init => OpenTasksBound
  <2> SUFFICES ASSUME Init PROVE OpenTasksBound
    OBVIOUS
  <2>1. OpenTasks = {}
    BY DEF Init, OpenTasks, Open
  <2> QED BY <2>1, FS_EmptySet, Numbers DEF OpenTasksBound, OpenTasks
<1>4. IInv /\ OpenTasksBound /\ [Next]_vars => OpenTasksBound'
  <2> SUFFICES ASSUME IInv, OpenTasksBound, [Next]_vars PROVE OpenTasksBound'
    OBVIOUS
  <2>1. CASE OpenTasks' \subseteq OpenTasks
    <3>1. Cardinality(OpenTasks') <= Cardinality(OpenTasks) /\ Cardinality(OpenTasks') \in Nat
      BY <1>2, <2>1, FS_Subset, FS_CardinalityType
    <3>2. Cardinality(OpenTasks) <= WaitingLimit
      BY DEF OpenTasksBound, OpenTasks
    <3>3. Cardinality(OpenTasks') <= WaitingLimit
      BY <1>2, <3>1, <3>2, Numbers
    <3> QED BY <3>3 DEF OpenTasksBound, OpenTasks
  <2>2. CASE Cardinality(OpenTasks) < WaitingLimit /\ OpenTasks' \subseteq OpenTasks \cup {created + 1}
    <3> DEFINE more == OpenTasks \cup {created + 1}
    <3>1. IsFiniteSet(more) /\ Cardinality(more) \in Nat /\ Cardinality(more) <= Cardinality(OpenTasks) + 1
      BY <1>2, FS_AddElement, FS_CardinalityType
    <3>2. Cardinality(OpenTasks') <= Cardinality(more) /\ Cardinality(OpenTasks') \in Nat
      BY <2>2, <3>1, FS_Subset, FS_CardinalityType
    <3>3. Cardinality(OpenTasks') <= WaitingLimit
      BY <1>2, <2>2, <3>1, <3>2, Numbers
    <3> QED BY <3>3 DEF OpenTasksBound, OpenTasks
  <2> QED BY <2>1, <2>2, OpenTasksStep
<1> QED BY <1>3, <1>4, Invariance, PTL DEF Spec

(* Imports and uploads together never pass the dataset quota               *)
(* (check_dataset_quota).                                                  *)
THEOREM WithinDatasetLimit == Spec => []DatasetsBound
<1>1. Init => DatasetsBound
  BY Numbers DEF Init, DatasetsBound
<1>2. IInv /\ DatasetsBound /\ [Next]_vars => DatasetsBound'
  <2> SUFFICES ASSUME IInv, DatasetsBound, [Next]_vars PROVE DatasetsBound'
    OBVIOUS
  <2>1. datasets' = datasets \/ (datasets < DatasetLimit /\ datasets' = datasets + 1)
    <3>1. CASE MemberStep
      <4>1. CASE RegisteredStep \/ RepeatedStep
        BY <4>1 DEF RegisteredStep, Registered, RepeatedStep, effects
      <4>2. CASE \E u \in Users : ChangeRights(u) \/ \E t \in TaskId : Cancel(u, t) \/ PlanPreview(u, t)
        BY <4>2 DEF Cancel, PlanPreview, ChangeRights, effects
      <4> QED BY <3>1, <4>1, <4>2, AskForm, AskPlanForm, RetryForm DEF MemberStep, IInv
    <3>2. CASE OtherStep
      BY <3>2 DEF OtherStep, PreviewEnds, NewVersion, OtherDataset
    <3>3. CASE \E t \in TaskId : PlanStep(t) \/ LosePlan(t)
      BY <3>3 DEF PlanStep, CallProvider, RecordPlan, LosePlan, effects
    <3>4. CASE Tick \/ UNCHANGED vars
      BY <3>4 DEF Tick, vars, effects
    <3>5. ASSUME NEW w \in Workers, WorkerStep(w)
          PROVE  datasets' = datasets \/ (datasets < DatasetLimit /\ datasets' = datasets + 1)
      BY <3>5 DEF WorkerStep, Advance, Claim, GiveUp, BeatThen, Renew, EndCompute, Stage,
                  StageRefused, EndChunks, Publish, DatasetFree, PublishRefused, LoseLease, Denied,
                  ReportFailure, Cleanup, Heartbeat, Abort, Crash, OnlyPc, effects
    <3> QED BY <3>1, <3>2, <3>3, <3>4, <3>5 DEF Next
  <2>2. datasets \in Nat
    BY DEF IInv, TypeOK
  <2> QED BY <2>1, <2>2, Numbers DEF DatasetsBound
<1> QED BY <1>1, <1>2, Invariance, PTL DEF Spec

(* A member has at most one live preview of a version's plan               *)
(* (plan_preview), although previews end and plans are repeated.           *)
THEOREM OnePreview == Spec => []OneLivePreview
<1>1. Init => OneLivePreview
  BY DEF Init, OneLivePreview
<1>2. IInv /\ OneLivePreview /\ [Next]_vars => OneLivePreview'
  <2> SUFFICES ASSUME IInv, OneLivePreview, [Next]_vars,
                      NEW u \in Users, NEW n \in VersionNo
               PROVE  previews'[u][n].pending + previews'[u][n].ready <= 1
    BY DEF OneLivePreview
  <2>1. previews \in [Users -> [VersionNo -> [pending : Nat, ready : Nat]]]
        /\ previews[u][n].pending + previews[u][n].ready <= 1
        /\ previews[u][n].pending \in Nat /\ previews[u][n].ready \in Nat
    BY DEF IInv, TypeOK, OneLivePreview
  <2>2. CASE \E v \in Users, t \in TaskId : PlanPreview(v, t)
    <3>1. PICK v \in Users, t \in TaskId : PlanPreview(v, t)
      BY <2>2
    <3>2. PICK m \in VersionNo : m = task[t].version
      <4>1. task[t] \in TaskRow
        BY <3>1, TaskFacts DEF PlanPreview, IInv
      <4> QED BY <4>1 DEF TaskRow
    <3>3. /\ ~(previews[v][m].pending + previews[v][m].ready > 0)
          /\ previews' = [previews EXCEPT ![v][m].pending = previews[v][m].pending + 1]
      BY <3>1, <3>2 DEF PlanPreview, LivePreview
    <3>4. CASE v = u /\ m = n
      <4>1. previews'[u][n].pending = previews[u][n].pending + 1 /\ previews'[u][n].ready = previews[u][n].ready
        BY <2>1, <3>3, <3>4
      <4> QED BY <2>1, <3>3, <3>4, <4>1
    <3>5. CASE ~(v = u /\ m = n)
      <4>1. previews'[u][n] = previews[u][n]
        BY <2>1, <3>3, <3>5
      <4> QED BY <2>1, <4>1
    <3> QED BY <3>4, <3>5
  <2>3. CASE \E v \in Users, m \in VersionNo : PreviewEnds(v, m)
    <3>1. PICK v \in Users, m \in VersionNo, done \in {0, 1} :
            /\ previews[v][m].pending > 0
            /\ previews' = [previews EXCEPT ![v][m].pending = previews[v][m].pending - 1,
                                            ![v][m].ready = previews[v][m].ready + done]
      BY <2>3 DEF PreviewEnds
    <3>2. CASE v = u /\ m = n
      <4>1. previews'[u][n].pending = previews[u][n].pending - 1
            /\ previews'[u][n].ready = previews[u][n].ready + done
        BY <2>1, <3>1, <3>2
      <4> QED BY <2>1, <3>1, <3>2, <4>1
    <3>3. CASE ~(v = u /\ m = n)
      <4>1. previews'[u][n] = previews[u][n]
        BY <2>1, <3>1, <3>3
      <4> QED BY <2>1, <4>1
    <3> QED BY <3>2, <3>3
  <2>4. CASE UNCHANGED previews
    BY <2>1, <2>4
  <2>5. CASE \E w \in Workers : WorkerStep(w)
    <3>1. UNCHANGED previews
      BY <2>5 DEF WorkerStep, Advance, Claim, GiveUp, BeatThen, Renew, EndCompute, Stage,
                  StageRefused, EndChunks, Publish, PublishRefused, LoseLease, Denied,
                  ReportFailure, Cleanup, Heartbeat, Abort, Crash, OnlyPc, effects
    <3> QED BY <2>4, <3>1
  <2>6. CASE MemberStep
    <3>1. UNCHANGED previews \/ \E v \in Users, t \in TaskId : PlanPreview(v, t)
      BY <2>6 DEF MemberStep, Ask, AskPlan, Retry, Repeat, Cancel, ChangeRights, effects
    <3> QED BY <2>2, <2>4, <3>1
  <2>7. CASE OtherStep
    <3>1. UNCHANGED previews \/ \E v \in Users, m \in VersionNo : PreviewEnds(v, m)
      BY <2>7 DEF OtherStep, NewVersion, OtherDataset
    <3> QED BY <2>3, <2>4, <3>1
  <2>8. CASE (\E t \in TaskId : PlanStep(t) \/ LosePlan(t)) \/ Tick \/ UNCHANGED vars
    <3>1. UNCHANGED previews
      BY <2>8 DEF PlanStep, CallProvider, RecordPlan, LosePlan, Tick, vars, effects
    <3> QED BY <2>4, <3>1
  <2> QED BY <2>5, <2>6, <2>7, <2>8 DEF Next
<1> QED BY <1>1, <1>2, Invariance, PTL DEF Spec

-------------------------------------------------------------------------------
(* How a task ends.                                                        *)

(* A finished task keeps its status: no late run, repeated report, cancel  *)
(* or plan request changes it.                                             *)
THEOREM EndsOnce == Spec => FinishedTasksStay
<1>1. IInv /\ [Next]_vars => [\A t \in TaskId : status[t] \in Final => status'[t] = status[t]]_vars
  <2> SUFFICES ASSUME IInv, [Next]_vars, NEW t \in TaskId, status[t] \in Final
               PROVE  status'[t] = status[t]
    OBVIOUS
  <2>1. Form /\ status \in [TaskId -> Statuses] /\ ~(status[t] \in Open)
    BY FormOfStep DEF IInv, TypeOK, Open, Final
  <2>2. CASE RegisteredStep
    <3>1. PICK s : status' = [status EXCEPT ![created + 1] = s]
      BY <2>2 DEF RegisteredStep, Registered
    <3>2. t # created + 1
      <4>1. t \in Tasks
        BY TaskFacts DEF IInv, Final
      <4> QED BY <4>1, TaskFacts DEF IInv, Tasks
    <3> QED BY <2>1, <3>1, <3>2
  <2>3. CASE RepeatedStep \/ \E x \in TaskId : CallProvider(x)
    BY <2>3 DEF RepeatedStep, CallProvider, rows
  <2>4. CASE Quiet
    BY <2>1, <2>4 DEF Quiet
  <2>5. CASE \E w \in Workers : Stage(w) \/ Cleanup(w) \/ Crash(w)
    BY <2>5 DEF Stage, Cleanup, Crash, rows
  <2>6. CASE \E w \in Workers, x \in TaskId : Claim(w, x)
    BY <2>1, <2>6 DEF Claim, Oldest, Claimable, Open
  <2>7. CASE \E w \in Workers : Publish(w)
    BY <2>1, <2>7 DEF Publish, HoldsLease, Open
  <2> QED BY <2>1, <2>2, <2>3, <2>4, <2>5, <2>6, <2>7 DEF Form
<1> QED BY <1>1, Invariance, PTL DEF Spec, FinishedTasksStay

(* Whoever lost the right to write while a task waited, ran or asked the   *)
(* provider gets no result (check_write in the publishing transaction).    *)
THEOREM SucceedsWithRight == Spec => OnlyWritersSucceed
<1>1. IInv /\ [Next]_vars => [\A t \in TaskId : status[t] # "SUCCEEDED" /\ status'[t] = "SUCCEEDED"
                                                  => task[t].by \in writers]_vars
  <2> SUFFICES ASSUME IInv, [Next]_vars, NEW t \in TaskId,
                      status[t] # "SUCCEEDED", status'[t] = "SUCCEEDED"
               PROVE  task[t].by \in writers
    OBVIOUS
  <2>1. status \in [TaskId -> Statuses]
    BY DEF IInv, TypeOK
  <2>2. CASE MemberStep
    <3>1. CASE RegisteredStep
      <4>1. PICK s \in Open : status' = [status EXCEPT ![created + 1] = s]
        BY <3>1 DEF RegisteredStep, Registered
      <4> QED BY <2>1, <4>1 DEF Open
    <3>2. CASE RepeatedStep
      BY <3>2 DEF RepeatedStep, rows
    <3>3. CASE \E u \in Users : ChangeRights(u) \/ \E x \in TaskId : Cancel(u, x) \/ PlanPreview(u, x)
      BY <2>1, <3>3 DEF Cancel, PlanPreview, ChangeRights, rows
    <3> QED BY <2>2, <3>1, <3>2, <3>3, AskForm, AskPlanForm, RetryForm DEF MemberStep, IInv
  <2>3. CASE OtherStep
    BY <2>3 DEF OtherStep, PreviewEnds, NewVersion, OtherDataset, rows
  <2>4. ASSUME NEW x \in TaskId, PlanStep(x) \/ LosePlan(x)
        PROVE  task[t].by \in writers
    <3>1. CASE RecordPlan(x)
      BY <2>1, <3>1 DEF RecordPlan
    <3>2. CASE CallProvider(x) \/ LosePlan(x)
      BY <3>2 DEF CallProvider, LosePlan, rows
    <3> QED BY <2>4, <3>1, <3>2 DEF PlanStep
  <2>5. CASE Tick \/ UNCHANGED vars
    BY <2>5 DEF Tick, vars, rows
  <2>6. ASSUME NEW w \in Workers, WorkerStep(w)
        PROVE  task[t].by \in writers
    <3>1. CASE Publish(w)
      BY <2>1, <3>1 DEF Publish, MayWrite
    <3>2. CASE \E x \in TaskId : Claim(w, x) \/ GiveUp(w, x)
      BY <2>1, <3>2 DEF Claim, GiveUp
    <3>3. CASE ReportFailure(w)
      BY <2>1, <3>3 DEF ReportFailure
    <3> QED BY <2>6, <3>1, <3>2, <3>3 DEF WorkerStep, Advance, BeatThen, Renew, EndCompute, Stage,
               StageRefused, EndChunks, PublishRefused, LoseLease, Denied, Cleanup, Heartbeat, Abort,
               Crash, OnlyPc, rows
  <2> QED BY <2>2, <2>3, <2>4, <2>5, <2>6 DEF Next
<1> QED BY <1>1, Invariance, PTL DEF Spec, OnlyWritersSucceed
-------------------------------------------------------------------------------
(* Requests with names.                                                    *)

(* A stored task is the only one of its name, and speaks for it.           *)
LEMMA NameOfTask ==
  ASSUME IInv, NEW t \in Tasks
  PROVE  /\ NameOf(t) \in Names /\ TasksOf(NameOf(t)) = {t} /\ TheTask(NameOf(t)) = t
<1>1. task[t] \in TaskRow /\ t \in TaskId
  BY TaskFacts DEF IInv
<1>2. NameOf(t) \in Names
  BY <1>1 DEF NameOf, Names, TaskRow
<1>3. \A x \in Tasks : NameOf(x) = NameOf(t) => x = t
  <2>1. ASSUME NEW x \in Tasks, NameOf(x) = NameOf(t) PROVE x = t
    <3>1. task[x].by = task[t].by /\ task[x].key = task[t].key
      BY <2>1 DEF NameOf
    <3> QED BY <3>1 DEF IInv, AnswersTheRequest
  <2> QED BY <2>1
<1>4. TasksOf(NameOf(t)) = {t}
  BY <1>3 DEF TasksOf
<1> QED BY <1>2, <1>4 DEF TheTask

(* What the abstract outcome says of a task.                               *)
Word(t) == IF status[t] \in Open THEN "open" ELSE status[t]

LEMMA SaidOfTask ==
  ASSUME IInv, NEW t \in Tasks
  PROVE  /\ NamedRequest[NameOf(t)] = task[t].request /\ NamedOutcome[NameOf(t)] = Word(t)
         /\ NamedImports[NameOf(t)] = imported[t]
<1>1. NameOf(t) \in Names /\ TasksOf(NameOf(t)) = {t} /\ TheTask(NameOf(t)) = t
  BY NameOfTask
<1> QED BY <1>1 DEF NamedRequest, NamedOutcome, NamedImports, Word

LEMMA SaidOfNone ==
  ASSUME NEW n \in Names, TasksOf(n) = {}
  PROVE  NamedRequest[n] = NoRequest /\ NamedOutcome[n] = "none" /\ NamedImports[n] = 0
BY DEF NamedRequest, NamedOutcome, NamedImports

(* A name that has a task is that task's.                                  *)
LEMMA NameHasTask ==
  ASSUME NEW n \in Names, TasksOf(n) # {}
  PROVE  \E t \in Tasks : n = NameOf(t)
BY DEF TasksOf

LEMMA AbstractTypes ==
  /\ NamedRequest = [n \in Names |-> NamedRequest[n]]
  /\ NamedOutcome = [n \in Names |-> NamedOutcome[n]]
  /\ NamedImports = [n \in Names |-> NamedImports[n]]
BY DEF NamedRequest, NamedOutcome, NamedImports

(* The abstract variables follow the statuses and imports of the tasks.    *)
LEMMA SameTasks ==
  ASSUME IInv, IInv', UNCHANGED <<created, task>>, NEW t \in Tasks,
         \A x \in Tasks : x # t => status'[x] = status[x] /\ imported'[x] = imported[x]
  PROVE  /\ NamedRequest' = NamedRequest
         /\ NamedOutcome' = [NamedOutcome EXCEPT ![NameOf(t)] = Word(t)']
         /\ NamedImports' = [NamedImports EXCEPT ![NameOf(t)] = imported'[t]]
<1>1. Tasks' = Tasks /\ (\A x : NameOf(x)' = NameOf(x)) /\ (\A n : TasksOf(n)' = TasksOf(n))
  BY DEF Tasks, NameOf, TasksOf
<1>2. ASSUME NEW n \in Names
      PROVE  /\ NamedRequest'[n] = NamedRequest[n]
             /\ NamedOutcome'[n] = IF n = NameOf(t) THEN Word(t)' ELSE NamedOutcome[n]
             /\ NamedImports'[n] = IF n = NameOf(t) THEN imported'[t] ELSE NamedImports[n]
  <2>1. CASE TasksOf(n) = {}
    <3>1. n # NameOf(t)
      BY <2>1, NameOfTask
    <3> QED BY <1>1, <2>1, <3>1 DEF NamedRequest, NamedOutcome, NamedImports
  <2>2. CASE TasksOf(n) # {}
    <3>1. PICK x \in Tasks : n = NameOf(x)
      BY <2>2, NameHasTask
    <3>2. TasksOf(n) = {x} /\ TheTask(n) = x /\ TheTask(n)' = x
      BY <1>1, <3>1, NameOfTask DEF TheTask
    <3>3. n = NameOf(t) <=> x = t
      BY <3>1, <3>2, NameOfTask
    <3>4. /\ NamedRequest[n] = task[x].request /\ NamedOutcome[n] = Word(x) /\ NamedImports[n] = imported[x]
      BY <3>1, SaidOfTask
    <3>5. /\ NamedRequest'[n] = task[x].request /\ NamedOutcome'[n] = Word(x)' /\ NamedImports'[n] = imported'[x]
      BY <1>1, <3>2 DEF NamedRequest, NamedOutcome, NamedImports, Word
    <3> QED BY <3>3, <3>4, <3>5 DEF Word
  <2> QED BY <2>1, <2>2
<1>3. /\ NamedRequest' = [n \in Names |-> NamedRequest'[n]]
      /\ NamedOutcome' = [n \in Names |-> NamedOutcome'[n]]
      /\ NamedImports' = [n \in Names |-> NamedImports'[n]]
  BY DEF NamedRequest, NamedOutcome, NamedImports
<1> QED BY <1>2, <1>3, AbstractTypes

(* A new task is an accepted request.                                      *)
LEMMA RegisteredAccepts ==
  ASSUME IInv, IInv', RegisteredStep
  PROVE  Outcome!Next
<1>1. PICK u \in Users, k \in Keys, r \in Requests, n \in VersionNo, s \in Open :
        Registered(u, k, r, n, s)
  BY DEF RegisteredStep
<1>2. PICK t : t = created + 1
  OBVIOUS
<1>3. PICK m \in Names : m = <<u, k>>
  BY DEF Names
<1>4. /\ created' = t /\ task' = [task EXCEPT ![t] = [by |-> u, key |-> k, request |-> r, version |-> n]]
      /\ status' = [status EXCEPT ![t] = s] /\ UNCHANGED imported /\ Known(u, k) = {}
      /\ created < TotalLimit
  BY <1>1, <1>2 DEF Registered, Room, effects
<1>5. t \in TaskId /\ t \notin Tasks /\ Tasks' = Tasks \cup {t} /\ Tasks \subseteq TaskId
  BY <1>2, <1>4, TaskFacts, Numbers DEF IInv, TaskId, Tasks
<1>6. /\ task'[t].by = u /\ task'[t].key = k /\ task'[t].request = r /\ status'[t] = s
      /\ \A x \in Tasks : task'[x] = task[x] /\ status'[x] = status[x]
  BY <1>4, <1>5 DEF IInv, TypeOK
<1>7. TasksOf(m) = {}
  BY <1>3, <1>4, TaskFacts DEF TasksOf, Known, NameOf, IInv
<1>8. imported[t] = 0
  <2>1. status[t] # "SUCCEEDED"
    BY <1>5, TaskFacts DEF IInv
  <2> QED BY <1>5, <2>1 DEF IInv, ImportsCounted
<1>9. (NameOf(t))' = m
  BY <1>3, <1>6 DEF NameOf
<1>10. \A x \in Tasks : (NameOf(x))' = NameOf(x)
  BY <1>6 DEF NameOf
<1>11. /\ NamedRequest'[m] = r /\ NamedOutcome'[m] = "open" /\ NamedImports'[m] = 0
  <2>1. (TasksOf(m))' = {t} /\ (TheTask(m))' = t
    <3>1. (TasksOf(m))' = {t}
      BY <1>5, <1>7, <1>9, <1>10 DEF TasksOf
    <3> QED BY <3>1 DEF TheTask
  <2> QED BY <1>4, <1>6, <1>8, <2>1 DEF NamedRequest, NamedOutcome, NamedImports
<1>12. ASSUME NEW x \in Names, x # m
       PROVE  /\ NamedRequest'[x] = NamedRequest[x] /\ NamedOutcome'[x] = NamedOutcome[x]
              /\ NamedImports'[x] = NamedImports[x]
  <2>1. (TasksOf(x))' = TasksOf(x)
    BY <1>5, <1>9, <1>10, <1>12 DEF TasksOf
  <2>2. (TheTask(x))' = TheTask(x)
    BY <2>1 DEF TheTask
  <2>3. CASE TasksOf(x) = {}
    BY <2>1, <2>3 DEF NamedRequest, NamedOutcome, NamedImports
  <2>4. CASE TasksOf(x) # {}
    <3>1. TheTask(x) \in Tasks
      BY <2>4 DEF TheTask, TasksOf
    <3> QED BY <1>4, <1>6, <2>1, <2>2, <2>4, <3>1 DEF NamedRequest, NamedOutcome, NamedImports
  <2> QED BY <2>3, <2>4
<1>13. NamedOutcome[m] = "none" /\ NamedImports[m] = 0
  BY <1>7, SaidOfNone
<1>14. /\ NamedRequest' = [x \in Names |-> NamedRequest'[x]]
       /\ NamedOutcome' = [x \in Names |-> NamedOutcome'[x]]
       /\ NamedImports' = [x \in Names |-> NamedImports'[x]]
  BY DEF NamedRequest, NamedOutcome, NamedImports
<1>15. /\ NamedRequest' = [NamedRequest EXCEPT ![m] = r]
       /\ NamedOutcome' = [NamedOutcome EXCEPT ![m] = "open"]
       /\ NamedImports' = NamedImports
  BY <1>11, <1>12, <1>13, <1>14, AbstractTypes
<1>16. Outcome!Accept(m, r)
  BY <1>13, <1>15 DEF Outcome!Accept
<1> QED BY <1>16 DEF Outcome!Next

(* A step that ends a task ends its request, with an import for a success. *)
LEMMA EndEnds ==
  ASSUME IInv, IInv', UNCHANGED <<created, task>>, NEW t \in Tasks, status[t] \in Open,
         NEW s \in Final, status' = [status EXCEPT ![t] = s],
         imported' = IF s = "SUCCEEDED" /\ task[t].request.kind = "SOURCE"
                     THEN [imported EXCEPT ![t] = imported[t] + 1] ELSE imported
  PROVE  Outcome!Next
<1>1. /\ t \in TaskId /\ status'[t] = s /\ Word(t)' = s /\ Word(t) = "open"
      /\ \A x \in Tasks : x # t => status'[x] = status[x] /\ imported'[x] = imported[x]
  BY TaskFacts DEF IInv, TypeOK, Word, Open, Final
<1>2. PICK n \in Names : n = NameOf(t)
  BY NameOfTask
<1>3. NamedRequest[n] = task[t].request /\ NamedOutcome[n] = "open" /\ NamedImports[n] = imported[t]
  BY <1>1, <1>2, SaidOfTask
<1>4. /\ NamedRequest' = NamedRequest
      /\ NamedOutcome' = [NamedOutcome EXCEPT ![n] = s]
      /\ NamedImports' = [NamedImports EXCEPT ![n] = imported'[t]]
  BY <1>1, <1>2, SameTasks
<1>5. imported[t] \in Nat /\ imported \in [TaskId -> Nat] /\ task[t].request \in Requests
  BY <1>1, TaskFacts DEF IInv, TypeOK, TaskRow
<1>6. CASE s = "SUCCEEDED" /\ task[t].request.kind = "SOURCE"
  <2>1. imported'[t] = NamedImports[n] + 1
    BY <1>1, <1>3, <1>5, <1>6
  <2>2. Outcome!Succeed(n)
    BY <1>3, <1>4, <1>5, <1>6, <2>1 DEF Outcome!Succeed
  <2> QED BY <2>2 DEF Outcome!Next
<1>7. CASE ~(s = "SUCCEEDED" /\ task[t].request.kind = "SOURCE")
  <2>1. NamedImports' = NamedImports
    BY <1>3, <1>4, <1>7, AbstractTypes
  <2>2. CASE s = "SUCCEEDED"
    <3>1. Outcome!Succeed(n)
      <4>1. NamedRequest[n] \notin {r \in Requests : r.kind = "SOURCE"}
        BY <1>3, <1>7, <2>2
      <4>2. NamedOutcome' = [NamedOutcome EXCEPT ![n] = "SUCCEEDED"] /\ NamedRequest' = NamedRequest
        BY <1>4, <2>2
      <4> QED BY <1>3, <2>1, <4>1, <4>2 DEF Outcome!Succeed
    <3> QED BY <3>1 DEF Outcome!Next
  <2>3. CASE s # "SUCCEEDED"
    <3>1. s \in {"FAILED", "CANCELLED"}
      BY <2>3 DEF Final
    <3>2. Outcome!Stop(n)
      BY <1>3, <1>4, <2>1, <3>1 DEF Outcome!Stop
    <3> QED BY <3>2 DEF Outcome!Next
  <2> QED BY <2>2, <2>3
<1> QED BY <1>6, <1>7

(* Other steps leave the abstract variables alone.                         *)
LEMMA Stutters ==
  ASSUME UNCHANGED <<created, task, imported>>,
         \A t \in Tasks : Word(t)' = Word(t)
  PROVE  UNCHANGED Outcome!vars
<1>1. Tasks' = Tasks /\ (\A x : NameOf(x)' = NameOf(x)) /\ (\A n : TasksOf(n)' = TasksOf(n))
      /\ (\A n : TheTask(n)' = TheTask(n))
  BY DEF Tasks, NameOf, TasksOf, TheTask
<1>2. \A n \in Names : TasksOf(n) # {} => TheTask(n) \in Tasks
  BY DEF TheTask, TasksOf
<1>3. \A n \in Names : NamedOutcome'[n] = NamedOutcome[n]
  BY <1>1, <1>2 DEF NamedOutcome, Word
<1>4. NamedOutcome' = NamedOutcome
  <2>1. NamedOutcome' = [n \in Names |-> NamedOutcome'[n]]
    BY DEF NamedOutcome
  <2> QED BY <1>3, <2>1, AbstractTypes
<1>5. NamedRequest' = NamedRequest /\ NamedImports' = NamedImports
  BY <1>1 DEF NamedRequest, NamedImports
<1> QED BY <1>4, <1>5 DEF Outcome!vars

(* Every step is a step of the abstract specification, or none.            *)
LEMMA StepImplements ==
  ASSUME IInv, IInv', [Next]_vars
  PROVE  [Outcome!Next]_(Outcome!vars)
<1>1. Form /\ status \in [TaskId -> Statuses] /\ Tasks \subseteq TaskId
  BY FormOfStep, TaskFacts DEF IInv, TypeOK
<1>2. CASE RegisteredStep
  BY <1>2, RegisteredAccepts
<1>3. CASE RepeatedStep \/ (\E t \in TaskId : CallProvider(t))
           \/ \E w \in Workers : Stage(w) \/ Cleanup(w) \/ Crash(w)
  <2>1. UNCHANGED <<created, task, imported, status>>
    BY <1>3 DEF RepeatedStep, CallProvider, Stage, Cleanup, Crash, rows, effects
  <2> QED BY <2>1, Stutters DEF Word
<1>4. CASE Quiet
  <2>1. UNCHANGED <<created, task, imported>>
    BY <1>4 DEF Quiet
  <2>2. CASE UNCHANGED status
    BY <2>1, <2>2, Stutters DEF Word
  <2>3. CASE \E t \in TaskId : Ended(t)
    <3>1. PICK t \in TaskId, s \in Final :
            /\ status[t] \in Open /\ status' = [status EXCEPT ![t] = s]
            /\ s = "SUCCEEDED" => call[t] # "none"
      BY <2>3 DEF Ended
    <3>2. t \in Tasks
      BY <3>1, TaskFacts DEF IInv, Open
    <3>3. ~(s = "SUCCEEDED" /\ task[t].request.kind = "SOURCE")
      BY <3>1 DEF IInv, CallsMade
    <3> QED BY <2>1, <3>1, <3>2, <3>3, EndEnds
  <2> QED BY <1>4, <2>2, <2>3 DEF Quiet
<1>5. ASSUME NEW w \in Workers, NEW t \in TaskId, Claim(w, t)
      PROVE  UNCHANGED Outcome!vars
  <2>1. /\ status[t] \in Open /\ status' = [status EXCEPT ![t] = "RUNNING"]
        /\ UNCHANGED <<created, task, imported>>
    BY <1>5 DEF Claim, Oldest, Claimable, Open
  <2>2. ASSUME NEW x \in Tasks PROVE Word(x)' = Word(x)
    BY <1>1, <2>1 DEF Word, Open
  <2> QED BY <2>1, <2>2, Stutters
<1>6. ASSUME NEW w \in Workers, Publish(w)
      PROVE  Outcome!Next
  <2>1. PICK t \in Tasks : t = run[w].task
    BY <1>6, RunFacts DEF Publish
  <2>2. /\ status[t] \in Open /\ status' = [status EXCEPT ![t] = "SUCCEEDED"]
        /\ imported' = IF task[t].request.kind = "SOURCE"
                       THEN [imported EXCEPT ![t] = imported[t] + 1] ELSE imported
        /\ UNCHANGED <<created, task>>
    BY <1>6, <2>1 DEF Publish, HoldsLease, Kind, Open
  <2> QED BY <2>1, <2>2, EndEnds DEF Final
<1> QED BY <1>1, <1>2, <1>3, <1>4, <1>5, <1>6 DEF Form

(* Tasks with leases, take-overs, retries and plan requests implement      *)
(* requests with names: bound once, ended at most once, and an import      *)
(* exactly for a success (intelligence_service.py, intelligence_worker.py).*)
THEOREM OutcomeImplemented == Spec => ImplementsOutcome
<1>1. Init => Outcome!Init
  <2> SUFFICES ASSUME Init PROVE Outcome!Init
    OBVIOUS
  <2>1. Tasks = {}
    BY DEF Init, Tasks
  <2>2. \A n \in Names : TasksOf(n) = {}
    BY <2>1 DEF TasksOf
  <2> QED BY <2>2 DEF Outcome!Init, NamedRequest, NamedOutcome, NamedImports
<1>2. IInv /\ IInv' /\ [Next]_vars => [Outcome!Next]_(Outcome!vars)
  BY StepImplements
<1> QED BY <1>1, <1>2, Invariance, PTL DEF Spec, ImplementsOutcome, Outcome!Spec
===============================================================================
