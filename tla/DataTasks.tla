------------------------------- MODULE DataTasks -------------------------------
(***************************************************************************)
(* Analyses, database imports and cleaning plans of one organisation       *)
(* (data/intelligence_service.py, intelligence_router.py,                  *)
(* intelligence_worker.py).  A member names a request with an idempotency  *)
(* key; analyses and imports are taken by workers under a lease, a plan is *)
(* made by the request itself, which calls the provider between two        *)
(* transactions while its task is RUNNING.                                 *)
(*                                                                         *)
(* One action is one transaction; each takes the organisation's row first. *)
(* lease[t] = 0 is lease_until < now().  A claim draws a new lease_token   *)
(* and counts the attempt, so the attempt stands for the token.            *)
(***************************************************************************)
EXTENDS Naturals, FiniteSets

CONSTANTS
  Users,         \* members of the organisation
  Keys,          \* idempotency keys a member may send
  Requests,      \* distinct requests, [kind, external, body]
  Workers,       \* intelligence workers
  TotalLimit,    \* tasks an organisation may ever create (10000)
  WaitingLimit,  \* tasks queued or running at a time (10)
  DatasetLimit,  \* datasets of the organisation
  MaxVersions,   \* versions of the one dataset plans are made for
  MaxAttempts,   \* claims of one task (3)
  LeaseTime      \* ticks a fresh lease lasts (90 s)

Kinds == {"ANALYSIS", "SOURCE", "PLAN"}

ASSUME TaskAssumption ==
  /\ "nobody" \notin Users
  /\ \A r \in Requests : r.kind \in Kinds /\ r.external \in BOOLEAN
  /\ TotalLimit \in Nat \ {0}
  /\ WaitingLimit \in Nat \ {0}
  /\ DatasetLimit \in Nat
  /\ MaxVersions \in Nat \ {0}
  /\ MaxAttempts \in Nat \ {0}
  /\ LeaseTime \in Nat \ {0}

TaskId == 1..TotalLimit
Attempt == 1..MaxAttempts
VersionNo == 1..MaxVersions

VARIABLES
  (* rows of the database *)
  created,     \* tasks created; ids follow created_at
  task,        \* creator, key, request and version of a task, never changed
  status, attempts, lease,
  object,      \* the snapshot an attempt staged in the chunk store
  datasets,    \* datasets of the organisation
  imported,    \* datasets a task created
  current,     \* current_version of the dataset plans are made for
  previews,    \* previews of plans by member and source version: pending, ready
  writers,     \* the users check_write accepts
  (* memory of the processes *)
  pc, run,     \* workers
  call,        \* the API process of a plan request
  (* observation *)
  answer,      \* the last answer to a request: who asked what and got which task
  sends,       \* provider calls made for a task
  orphans      \* <<task, attempt, attempts when its process died>>

rows == <<created, task, status, attempts, lease>>
effects == <<object, datasets, imported, current, previews, writers>>
workers == <<pc, run>>
observed == <<answer, sends, orphans>>
vars == <<rows, effects, workers, call, observed>>

Statuses == {"NONE", "QUEUED", "RUNNING", "SUCCEEDED", "FAILED", "CANCELLED"}
Open == {"QUEUED", "RUNNING"}
Final == {"SUCCEEDED", "FAILED", "CANCELLED"}

NoRequest == [kind |-> "none", external |-> FALSE, body |-> 0]
NoTask == [by |-> "nobody", key |-> "none", request |-> NoRequest, version |-> 0]
NoRun == [task |-> 0, attempt |-> 0, staged |-> FALSE]
NoAnswer == [by |-> "nobody", key |-> "none", request |-> NoRequest, task |-> 0]

Init ==
  /\ created = 0
  /\ task = [t \in TaskId |-> NoTask]
  /\ status = [t \in TaskId |-> "NONE"]
  /\ attempts = [t \in TaskId |-> 0]
  /\ lease = [t \in TaskId |-> 0]
  /\ object = [t \in TaskId |-> [a \in Attempt |-> "NONE"]]
  /\ datasets = 0
  /\ imported = [t \in TaskId |-> 0]
  /\ current = 1
  /\ previews = [u \in Users |-> [n \in VersionNo |-> [pending |-> 0, ready |-> 0]]]
  /\ writers = Users
  /\ pc = [w \in Workers |-> "idle"]
  /\ run = [w \in Workers |-> NoRun]
  /\ call = [t \in TaskId |-> "none"]
  /\ answer = NoAnswer
  /\ sends = [t \in TaskId |-> 0]
  /\ orphans = {}
-------------------------------------------------------------------------------
(* Plausible mistakes in the definitions below; no definition uses them.  *)

StartsCallWhileRunning(u, k) ==
  \A t \in TaskId : task[t].by = u /\ task[t].key = k => status[t] = "RUNNING"
LivePreviewPendingOnly(u, n) == previews[u][n].pending > 0
FreedNever(t) == object
MayWriteAlways(w) == task[run[w].task].by \in Users
DatasetFreeOneTooMany == datasets <= DatasetLimit
CallHoldsAnyStatus(t) == lease[t] > 0
ClaimableQueuedOnly(t) == status[t] = "QUEUED"
DiscardedNever(state) == state
-------------------------------------------------------------------------------
(* Requests of members: check_write first, then create_task.  Every        *)
(* refusal (403, 404, 409, 422, 429) rolls the transaction back and is a   *)
(* step that does not happen.                                              *)

Room == created < TotalLimit
        /\ Cardinality({t \in TaskId : status[t] \in Open}) < WaitingLimit

\* check_dataset_quota
DatasetFree == datasets < DatasetLimit

\* the row found by creator and key
Known(u, k) == {t \in TaskId : task[t].by = u /\ task[t].key = k}

\* request_hash = digest: kind, dataset, version and body together
SameRequest(t, r) == task[t].request = r

Answer(u, k, r, t) == answer' = [by |-> u, key |-> k, request |-> r, task |-> t]

\* create_task for a key that was used before: the same task or 409
Repeat(u, k, r) ==
  /\ \E t \in Known(u, k) : SameRequest(t, r) /\ Answer(u, k, r, t)
  /\ UNCHANGED <<rows, effects, workers, call, sends, orphans>>

\* create_task for a new key
NewRow(u, k, r, n) ==
  /\ Room
  /\ created' = created + 1
  /\ task' = [task EXCEPT ![created + 1] = [by |-> u, key |-> k, request |-> r, version |-> n]]
  /\ Answer(u, k, r, created + 1)

\* import_source, queue_analysis
Ask(u, k, r) ==
  /\ u \in writers
  /\ r.kind # "PLAN"
  /\ r.kind = "SOURCE" => DatasetFree
  /\ IF Known(u, k) # {}
     THEN Repeat(u, k, r)
     ELSE /\ NewRow(u, k, r, current)
          /\ status' = [status EXCEPT ![created + 1] = "QUEUED"]
          /\ UNCHANGED <<attempts, lease, effects, workers, call, sends, orphans>>

\* retry: a new task with the old task's request, or the one the key already names
Retry(u, k, old) ==
  LET r == task[old].request
  IN  /\ u \in writers
      /\ status[old] \in {"FAILED", "CANCELLED"}
      /\ r.kind # "PLAN"
      /\ IF Known(u, k) # {}
         THEN Repeat(u, k, r)
         ELSE /\ NewRow(u, k, r, task[old].version)
              /\ status' = [status EXCEPT ![created + 1] = "QUEUED"]
              /\ UNCHANGED <<attempts, lease, effects, workers, call, sends, orphans>>

\* cancel
Cancel(u, t) ==
  /\ u \in writers
  /\ status[t] \in Open
  /\ status' = [status EXCEPT ![t] = "CANCELLED"]
  /\ UNCHANGED <<created, task, attempts, lease, effects, workers, call, observed>>

\* plan: "if not created: return" keeps a repeated request from calling again
StartsCall(u, k) == Known(u, k) = {}

TaskOf(u, k) == IF Known(u, k) = {} THEN created + 1 ELSE CHOOSE t \in Known(u, k) : TRUE

\* plan, first transaction; the task is never QUEUED outside of it
AskPlan(u, k, r) ==
  LET t == TaskOf(u, k)
  IN  /\ u \in writers
      /\ r.kind = "PLAN"
      /\ IF t <= created THEN SameRequest(t, r) ELSE Room
      /\ Answer(u, k, r, t)
      /\ IF StartsCall(u, k)
         THEN /\ created' = IF t > created THEN t ELSE created
              /\ task' = [task EXCEPT ![t] =
                            [by |-> u, key |-> k, request |-> r, version |-> current]]
              /\ status' = [status EXCEPT ![t] = "RUNNING"]
              /\ attempts' = [attempts EXCEPT ![t] = 1]
              /\ lease' = [lease EXCEPT ![t] = LeaseTime]
              /\ call' = [call EXCEPT ![t] = "reserved"]
         ELSE UNCHANGED <<rows, call>>
      /\ UNCHANGED <<effects, workers, sends, orphans>>

\* the provider is called outside of any transaction, or the plan is computed
CallProvider(t) ==
  /\ call[t] = "reserved"
  /\ call' = [call EXCEPT ![t] = "answered"]
  /\ sends' = IF task[t].request.external THEN [sends EXCEPT ![t] = @ + 1] ELSE sends
  /\ UNCHANGED <<rows, effects, workers, answer, orphans>>

CallHolds(t) == status[t] = "RUNNING" /\ lease[t] > 0

\* plan, second transaction: record the verified plan or the failure; a lost
\* lease, a cancelled task or a lost right leaves the task as it is
RecordPlan(t) ==
  /\ call[t] = "answered"
  /\ call' = [call EXCEPT ![t] = "over"]
  /\ IF task[t].by \in writers /\ CallHolds(t)
     THEN \E end \in {"SUCCEEDED", "FAILED"} : status' = [status EXCEPT ![t] = end]
     ELSE UNCHANGED status
  /\ UNCHANGED <<created, task, attempts, lease, effects, workers, observed>>

\* the API process dies, or the database refuses the second transaction
LosePlan(t) ==
  /\ call[t] \in {"reserved", "answered"}
  /\ call' = [call EXCEPT ![t] = "over"]
  /\ UNCHANGED <<rows, effects, workers, observed>>

\* a preview with the plan's steps that is not failed or cancelled
LivePreview(u, n) == previews[u][n].pending + previews[u][n].ready > 0

\* plan_preview; a live preview of the member is returned instead of a new job
PlanPreview(u, t) ==
  LET n == task[t].version
  IN  /\ u \in writers
      /\ status[t] = "SUCCEEDED" /\ task[t].request.kind = "PLAN"
      /\ current = n
      /\ ~LivePreview(u, n)
      /\ previews' = [previews EXCEPT ![u][n].pending = @ + 1]
      /\ UNCHANGED <<rows, object, datasets, imported, current, writers, workers,
                     call, observed>>
-------------------------------------------------------------------------------
(* What other components do to the rows this one reads. *)

\* a preview succeeds, or fails or is cancelled
PreviewEnds(u, n) ==
  /\ previews[u][n].pending > 0
  /\ \E done \in {0, 1} :
       previews' = [previews EXCEPT ![u][n].pending = @ - 1, ![u][n].ready = @ + done]
  /\ UNCHANGED <<rows, object, datasets, imported, current, writers, workers,
                 call, observed>>

\* commit_preview publishes a version
NewVersion ==
  /\ current < MaxVersions
  /\ current' = current + 1
  /\ UNCHANGED <<rows, object, datasets, imported, previews, writers, workers,
                 call, observed>>

\* an upload makes a dataset, with the same check_dataset_quota
OtherDataset ==
  /\ datasets < DatasetLimit
  /\ datasets' = datasets + 1
  /\ UNCHANGED <<rows, object, imported, current, previews, writers, workers,
                 call, observed>>

\* update_member
ChangeRights(u) ==
  /\ writers' = IF u \in writers THEN writers \ {u} ELSE writers \cup {u}
  /\ UNCHANGED <<rows, object, datasets, imported, current, previews, workers,
                 call, observed>>

Tick ==
  /\ \E t \in TaskId : lease[t] > 0
  /\ lease' = [t \in TaskId |-> IF lease[t] > 0 THEN lease[t] - 1 ELSE 0]
  /\ UNCHANGED <<created, task, status, attempts, effects, workers, call, observed>>
-------------------------------------------------------------------------------
(* Workers: process_task, one transaction per action. *)

Claimable(t) ==
  \/ status[t] = "QUEUED"
  \/ status[t] = "RUNNING" /\ lease[t] = 0

\* ORDER BY created_at LIMIT 1
Oldest(t) == Claimable(t) /\ \A s \in TaskId : Claimable(s) => t <= s

\* a plan is never taken up again: its provider call may have happened
GivesUp(t) == attempts[t] >= MaxAttempts \/ task[t].request.kind = "PLAN"

Discarded(state) == IF state = "OPEN" THEN "CANCELLED" ELSE state

\* the claim cancels every snapshot an earlier attempt of the task left open
Freed(t) == [object EXCEPT ![t] = [a \in Attempt |-> Discarded(object[t][a])]]

Claim(w, t) ==
  /\ pc[w] = "idle"
  /\ Oldest(t)
  /\ ~GivesUp(t)
  /\ status' = [status EXCEPT ![t] = "RUNNING"]
  /\ lease' = [lease EXCEPT ![t] = LeaseTime]
  /\ attempts' = [attempts EXCEPT ![t] = @ + 1]
  /\ object' = Freed(t)
  /\ pc' = [pc EXCEPT ![w] = "start"]
  /\ run' = [run EXCEPT ![w] = [task |-> t, attempt |-> attempts[t] + 1, staged |-> FALSE]]
  /\ UNCHANGED <<created, task, datasets, imported, current, previews, writers, call, observed>>

GiveUp(w, t) ==
  /\ pc[w] = "idle"
  /\ Oldest(t)
  /\ GivesUp(t)
  /\ status' = [status EXCEPT ![t] = "FAILED"]
  /\ UNCHANGED <<created, task, attempts, lease, effects, workers, call, observed>>

HoldsLease(w) ==
  LET t == run[w].task
  IN  status[t] = "RUNNING" /\ attempts[t] = run[w].attempt /\ lease[t] > 0

MayWrite(w) == task[run[w].task].by \in writers

Kind(w) == task[run[w].task].request.kind

Goto(w, step) == pc' = [pc EXCEPT ![w] = step]

OnlyPc == UNCHANGED <<rows, effects, run, call, observed>>

Renew(w) ==
  /\ MayWrite(w)
  /\ HoldsLease(w)
  /\ lease' = [lease EXCEPT ![run[w].task] = LeaseTime]
  /\ UNCHANGED <<created, task, status, attempts, effects, run, call, observed>>

\* between blocks of the source, rules of the analysis, chunks of the snapshot
Heartbeat(w) == pc[w] \in {"compute", "chunks"} /\ Renew(w) /\ UNCHANGED pc

\* the forced heartbeats: before reading, before staging, before publication
BeatThen(w, from, to) == pc[w] = from /\ Renew(w) /\ Goto(w, to)

Beats == {"start", "compute", "hold", "chunks", "confirm"}

LoseLease(w) ==
  /\ pc[w] \in Beats \cup {"publish"}
  /\ MayWrite(w) /\ ~HoldsLease(w)
  /\ Goto(w, "cleanup")
  /\ OnlyPc

\* check_write raises, in a heartbeat or in one of the other transactions
Denied(w) ==
  /\ pc[w] \in Beats \cup {"stage", "publish"}
  /\ ~MayWrite(w)
  /\ Goto(w, "failed")
  /\ OnlyPc

\* the analysis or the snapshot is computed, or is refused: hash, disk, source,
\* structure, or the limit of thirty minutes
EndCompute(w) ==
  /\ pc[w] = "compute"
  /\ \E next \in {IF Kind(w) = "SOURCE" THEN "hold" ELSE "confirm", "failed"} : Goto(w, next)
  /\ OnlyPc

\* new_object; no lease is checked here
Stage(w) ==
  /\ pc[w] = "stage"
  /\ MayWrite(w)
  /\ DatasetFree
  /\ object' = [object EXCEPT ![run[w].task][run[w].attempt] = "OPEN"]
  /\ run' = [run EXCEPT ![w].staged = TRUE]
  /\ Goto(w, "chunks")
  /\ UNCHANGED <<rows, datasets, imported, current, previews, writers, call, observed>>

\* the dataset limit or the storage limit refuses the snapshot
StageRefused(w) == pc[w] = "stage" /\ MayWrite(w) /\ Goto(w, "failed") /\ OnlyPc

\* the last append_chunk, or a refused one: storage, or an object cancelled meanwhile
EndChunks(w) ==
  /\ pc[w] = "chunks"
  /\ \/ /\ MayWrite(w)
        /\ object[run[w].task][run[w].attempt] = "OPEN"
        /\ Goto(w, "confirm")
     \/ Goto(w, "failed")
  /\ OnlyPc

\* seal_blob, the dataset and its import job, and the result, in one transaction
Publish(w) ==
  LET t == run[w].task
      a == run[w].attempt
  IN  /\ pc[w] = "publish"
      /\ MayWrite(w)
      /\ HoldsLease(w)
      /\ IF Kind(w) = "SOURCE"
         THEN /\ DatasetFree
              /\ object[t][a] = "OPEN"
              /\ object' = [object EXCEPT ![t][a] = "SEALED"]
              /\ datasets' = datasets + 1
              /\ imported' = [imported EXCEPT ![t] = @ + 1]
         ELSE UNCHANGED <<object, datasets, imported>>
      /\ status' = [status EXCEPT ![t] = "SUCCEEDED"]
      /\ Goto(w, "cleanup")
      /\ UNCHANGED <<created, task, attempts, lease, current, previews, writers,
                     run, call, observed>>

\* the source's configuration, a quota or the object's state refuses publication
PublishRefused(w) ==
  /\ pc[w] = "publish"
  /\ Kind(w) = "SOURCE"
  /\ MayWrite(w) /\ HoldsLease(w)
  /\ Goto(w, "failed")
  /\ OnlyPc

\* DataError, HTTPException, OSError, ValueError: the token, not the expiry, decides
ReportFailure(w) ==
  LET t == run[w].task
  IN  /\ pc[w] = "failed"
      /\ status' = IF status[t] = "RUNNING" /\ attempts[t] = run[w].attempt
                   THEN [status EXCEPT ![t] = "FAILED"] ELSE status
      /\ Goto(w, "cleanup")
      /\ UNCHANGED <<created, task, attempts, lease, effects, run, call, observed>>

\* the finally block
Cleanup(w) ==
  /\ pc[w] = "cleanup"
  /\ object' = IF run[w].staged
               THEN [object EXCEPT ![run[w].task][run[w].attempt] = Discarded(@)]
               ELSE object
  /\ Goto(w, "idle")
  /\ run' = [run EXCEPT ![w] = NoRun]
  /\ UNCHANGED <<rows, datasets, imported, current, previews, writers, call, observed>>

\* any other exception leaves the task RUNNING but runs the finally block
Abort(w) ==
  /\ pc[w] \notin {"idle", "cleanup"}
  /\ Goto(w, "cleanup")
  /\ OnlyPc

\* the process dies and is started again, or its cleanup fails with the database
Crash(w) ==
  LET t == run[w].task
  IN  /\ pc[w] # "idle"
      /\ orphans' = orphans \cup {<<t, run[w].attempt, attempts[t]>>}
      /\ Goto(w, "idle")
      /\ run' = [run EXCEPT ![w] = NoRun]
      /\ UNCHANGED <<rows, effects, call, answer, sends>>
-------------------------------------------------------------------------------
MemberStep ==
  \E u \in Users :
    \/ \E k \in Keys :
         \/ \E r \in Requests : Ask(u, k, r) \/ AskPlan(u, k, r)
         \/ \E t \in TaskId : Retry(u, k, t)
    \/ \E t \in TaskId : Cancel(u, t) \/ PlanPreview(u, t)
    \/ ChangeRights(u)

OtherStep ==
  \/ \E u \in Users, n \in VersionNo : PreviewEnds(u, n)
  \/ NewVersion
  \/ OtherDataset

\* what a plan request does as long as the API lives
PlanStep(t) == CallProvider(t) \/ RecordPlan(t)

\* what the worker loop does as long as its process lives
Advance(w) ==
  \/ \E t \in TaskId : Claim(w, t) \/ GiveUp(w, t)
  \/ BeatThen(w, "start", "compute")
  \/ EndCompute(w)
  \/ BeatThen(w, "hold", "stage")
  \/ Stage(w) \/ StageRefused(w)
  \/ EndChunks(w)
  \/ BeatThen(w, "confirm", "publish")
  \/ Publish(w) \/ PublishRefused(w)
  \/ LoseLease(w) \/ Denied(w)
  \/ ReportFailure(w)
  \/ Cleanup(w)

WorkerStep(w) == Advance(w) \/ Heartbeat(w) \/ Abort(w) \/ Crash(w)

Next ==
  \/ MemberStep
  \/ OtherStep
  \/ \E t \in TaskId : PlanStep(t) \/ LosePlan(t)
  \/ \E w \in Workers : WorkerStep(w)
  \/ Tick

Spec == Init /\ [][Next]_vars

\* the worker loop runs as long as its container does, and time passes; nothing
\* is assumed of members, plan requests or crashes
FairSpec ==
  /\ Spec
  /\ \A w \in Workers : WF_vars(Advance(w))
  /\ WF_vars(Tick)
-------------------------------------------------------------------------------
Tasks == 1..created

\* Types.  The attempts never pass the limit that the give-up of the claim
\* (intelligence_worker.py:77) and the CHECK of data_tasks set.
TaskRow == [by : Users, key : Keys, request : Requests, version : VersionNo]
Steps == {"idle", "start", "compute", "hold", "stage", "chunks", "confirm", "publish",
          "failed", "cleanup"}
TypeOK ==
  /\ created \in 0..TotalLimit
  /\ task \in [TaskId -> TaskRow \cup {NoTask}]
  /\ status \in [TaskId -> Statuses]
  /\ \A t \in TaskId : (status[t] = "NONE" <=> t > created) /\ (task[t] = NoTask <=> t > created)
  /\ attempts \in [TaskId -> 0..MaxAttempts]
  /\ lease \in [TaskId -> 0..LeaseTime]
  /\ object \in [TaskId -> [Attempt -> {"NONE", "OPEN", "SEALED", "CANCELLED"}]]
  /\ datasets \in Nat
  /\ imported \in [TaskId -> Nat]
  /\ current \in VersionNo
  /\ previews \in [Users -> [VersionNo -> [pending : Nat, ready : Nat]]]
  /\ writers \subseteq Users
  /\ pc \in [Workers -> Steps]
  /\ run \in [Workers -> [task : 0..TotalLimit, attempt : 0..MaxAttempts, staged : BOOLEAN]]
  /\ call \in [TaskId -> {"none", "reserved", "answered", "over"}]
  /\ answer.task \in 0..created
  /\ sends \in [TaskId -> Nat]

\* Idempotency: whatever was retried, refused or repeated, an answer names the
\* task of exactly the request that was asked under this key, no key has two
\* tasks, and no task had its provider called twice.
AnswersTheRequest ==
  /\ answer.task > 0 =>
        /\ task[answer.task].by = answer.by
        /\ task[answer.task].key = answer.key
        /\ task[answer.task].request = answer.request
  /\ \A t, s \in Tasks :
        task[t].by = task[s].by /\ task[t].key = task[s].key => t = s
  /\ \A t \in TaskId : sends[t] <= IF t <= created /\ task[t].request.external THEN 1 ELSE 0

\* Queued and running tasks, plans included, stay within the limit of ten,
\* although claims, expiries and retries move tasks between the two states.
OpenTasksBound == Cardinality({t \in TaskId : status[t] \in Open}) <= WaitingLimit

\* The dataset quota is checked at the request, at staging and again at
\* publication, because uploads take places while the snapshot is read.
DatasetsBound == datasets <= DatasetLimit

\* plan_preview returns the live preview of the same steps instead of queueing
\* a second one, whether it still computes or waits for the confirmation.
OneLivePreview ==
  \A u \in Users, n \in VersionNo : previews[u][n].pending + previews[u][n].ready <= 1

\* A snapshot is sealed exactly for the import that succeeded; an open one
\* belongs to a run that will still clean it up or to a process that died, and
\* after a further claim no snapshot of a dead process is left.
SnapshotsAccounted ==
  \A t \in TaskId, a \in Attempt :
    /\ object[t][a] = "SEALED" =>
          status[t] = "SUCCEEDED" /\ attempts[t] = a /\ imported[t] = 1
    /\ object[t][a] = "OPEN" =>
          \/ \E w \in Workers : run[w] = [task |-> t, attempt |-> a, staged |-> TRUE]
          \/ \E n \in a..attempts[t] : n = attempts[t] /\ <<t, a, n>> \in orphans

\* Inductive strengthening: a busy worker runs an attempt its task has counted,
\* nothing is imported before the task succeeds, and a provider was called only
\* by the request that made the plan's task, after its reservation; no attempt
\* counts before there is a task.
RunsCounted ==
  \A w \in Workers :
    IF pc[w] = "idle" THEN run[w] = NoRun
    ELSE run[w].task \in Tasks /\ run[w].attempt \in 1..attempts[run[w].task]
ImportsCounted == \A t \in TaskId : status[t] # "SUCCEEDED" => imported[t] = 0
CallsMade ==
  \A t \in TaskId :
    /\ t > created => call[t] = "none" /\ attempts[t] = 0
    /\ call[t] # "none" => task[t].request.kind = "PLAN"
    /\ call[t] \in {"none", "reserved"} => sends[t] = 0
IInv ==
  /\ TypeOK /\ RunsCounted /\ ImportsCounted /\ CallsMade
  /\ AnswersTheRequest /\ SnapshotsAccounted

\* A finished task keeps its status whichever run or plan request comes late.
FinishedTasksStay ==
  [][\A t \in TaskId : status[t] \in Final => status'[t] = status[t]]_vars

\* No result is published in the name of a member whose write right is gone at
\* that moment, however long the task waited or ran.
OnlyWritersSucceed ==
  [][\A t \in TaskId : status[t] # "SUCCEEDED" /\ status'[t] = "SUCCEEDED"
                          => task[t].by \in writers]_vars

(* Refinement: the name of a task is its creator and key. *)
Names == Users \X Keys
NameOf(t) == <<task[t].by, task[t].key>>
TasksOf(n) == {t \in Tasks : NameOf(t) = n}
TheTask(n) == CHOOSE t \in TasksOf(n) : TRUE

NamedRequest == [n \in Names |-> IF TasksOf(n) = {} THEN NoRequest ELSE task[TheTask(n)].request]
NamedOutcome ==
  [n \in Names |-> IF TasksOf(n) = {} THEN "none"
                   ELSE IF status[TheTask(n)] \in Open THEN "open" ELSE status[TheTask(n)]]
NamedImports == [n \in Names |-> IF TasksOf(n) = {} THEN 0 ELSE imported[TheTask(n)]]

Outcome == INSTANCE RequestOutcome WITH
  ImportRequests <- {r \in Requests : r.kind = "SOURCE"},
  request <- NamedRequest, outcome <- NamedOutcome, datasets <- NamedImports

\* Tasks, leases, take-overs, retries and plan requests implement requests with
\* names: asked once, ended at most once, an import exactly for a success.
ImplementsOutcome == Outcome!Spec

\* Every accepted task ends: a dead worker's task is taken up or given up, a
\* plan whose API process died is failed by a worker.
TasksEnd == \A t \in TaskId : status[t] \in Open ~> status[t] \in Final

\* A staged snapshot is sealed or cancelled unless its process died.
SnapshotsSettle ==
  \A t \in TaskId, a \in Attempt :
    object[t][a] = "OPEN" ~>
      \/ object[t][a] # "OPEN"
      \/ \E n \in Attempt : <<t, a, n>> \in orphans

\* EXPLAIN.md: orphaned open chunks of a task are released after a crash.
OrphansReleased ==
  \A t \in TaskId, a \in Attempt : object[t][a] = "OPEN" ~> object[t][a] # "OPEN"
===============================================================================
