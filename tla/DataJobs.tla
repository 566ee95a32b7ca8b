------------------------------- MODULE DataJobs -------------------------------
(***************************************************************************)
(* The data jobs of one organisation: imports and previews queued by       *)
(* members, taken by workers under a renewable lease, published as         *)
(* immutable dataset versions (data/service.py, data/router.py,            *)
(* data/stream_worker.py).                                                 *)
(*                                                                         *)
(* One action is one database transaction.  Every transaction that writes  *)
(* takes the organisation's row FOR UPDATE first (check_write) or claims   *)
(* it, so transactions of one organisation do not interleave inside; what  *)
(* interleaves are the transactions of one long worker run with those of   *)
(* other workers and clients.                                              *)
(*                                                                         *)
(* Time is the number of ticks a lease still has: lease[j] = 0 is the      *)
(* code's lease_until < now().  A claim draws a fresh lease_token and      *)
(* counts the attempt, so the number of the attempt stands for the token.  *)
(***************************************************************************)
EXTENDS Naturals, FiniteSets

CONSTANTS
  Users,         \* members of the organisation
  Workers,       \* worker processes
  Modes,         \* how new datasets arrive: "STREAM", "LEGACY" or both
  TotalLimit,    \* jobs an organisation may ever create (500)
  WaitingLimit,  \* jobs queued or running at a time (10)
  DatasetLimit,  \* datasets of an organisation
  MaxVersions,   \* versions of a dataset a member can create (20)
  MaxAttempts,   \* claims of one job (3)
  LeaseTime      \* ticks a fresh lease lasts (90 s)

ASSUME LimitsAssumption ==
  /\ Modes \subseteq {"STREAM", "LEGACY"}
  /\ TotalLimit \in Nat \ {0}
  /\ WaitingLimit \in Nat \ {0}
  /\ DatasetLimit \in Nat \ {0}
  /\ MaxVersions \in Nat \ {0}
  /\ MaxAttempts \in Nat \ {0}
  /\ LeaseTime \in Nat \ {0}

JobId == 1..TotalLimit
DatasetId == 1..DatasetLimit
VersionNo == 1..MaxVersions
Attempt == 1..MaxAttempts
Part == {"rows", "export"}      \* the two objects a run stages, in this order

VARIABLES
  (* rows of the database *)
  created,    \* jobs created so far; ids follow created_at
  job,        \* what a job was created with, never changed afterwards
  status,     \* data_jobs.status
  attempts,   \* data_jobs.attempts; names data_jobs.lease_token as well
  lease,      \* ticks until lease_until < now()
  result,     \* the attempt whose objects are the result, 0: none or inline
  datasets,   \* datasets created so far
  current,    \* datasets.current_version
  version,    \* data_versions: the job of version n of a dataset, 0 for none
  object,     \* data_objects: status of the parts an attempt of a job staged
  writers,    \* the users check_write accepts
  (* memory of the worker processes *)
  pc, run,
  (* observation *)
  crashed     \* the attempts whose process died, as <<job, attempt>>

jobVars == <<created, job, status, attempts, lease, result>>
dataVars == <<datasets, current, version>>
workVars == <<pc, run>>
vars == <<jobVars, dataVars, object, writers, workVars, crashed>>

Kinds == {"IMPORT", "PREVIEW"}
Statuses == {"NONE", "QUEUED", "RUNNING", "SUCCEEDED", "FAILED", "CANCELLED"}
Open == {"QUEUED", "RUNNING"}
ObjectStatuses == {"NONE", "OPEN", "SEALED", "CANCELLED"}
Final == {"SUCCEEDED", "FAILED", "CANCELLED"}
Steps == {"idle", "start", "build", "save", "create", "store", "confirm", "publish",
          "failed", "cleanup"}

NoJob == [kind |-> "IMPORT", mode |-> "LEGACY", dataset |-> 0, by |-> "nobody",
          source |-> 0]
NoRun == [job |-> 0, attempt |-> 0, staged |-> {}]

Init ==
  /\ created = 0
  /\ job = [j \in JobId |-> NoJob]
  /\ status = [j \in JobId |-> "NONE"]
  /\ attempts = [j \in JobId |-> 0]
  /\ lease = [j \in JobId |-> 0]
  /\ result = [j \in JobId |-> 0]
  /\ datasets = 0
  /\ current = [d \in DatasetId |-> 0]
  /\ version = [d \in DatasetId |-> [n \in VersionNo |-> 0]]
  /\ object = [j \in JobId |-> [a \in Attempt |-> [p \in Part |-> "NONE"]]]
  /\ writers = Users
  /\ pc = [w \in Workers |-> "idle"]
  /\ run = [w \in Workers |-> NoRun]
  /\ crashed = {}
-------------------------------------------------------------------------------
(* Plausible mistakes in the definitions below; no definition uses them.  *)

PendingImportQueuedOnly(d) ==
  \E j \in JobId : /\ status[j] = "QUEUED"
                    /\ job[j].kind = "IMPORT" /\ job[j].dataset = d

ConfirmableByClientOnly(j, expected) ==
  LET d == job[j].dataset IN current[d] = expected /\ current[d] < MaxVersions

ClaimableQueuedOnly(j) == job[j].mode = "STREAM" /\ status[j] = "QUEUED"

HoldsLeaseAnyToken(w) ==
  LET j == run[w].job IN status[j] = "RUNNING" /\ lease[j] > 0

MayWriteAtCreationOnly(w) == job[run[w].job].by \in Users

DiscardedNever(state) == state
-------------------------------------------------------------------------------
(* Members: every request runs check_write first. *)

Waiting == {j \in JobId : status[j] \in Open}

\* check_quota
QuotaFree == created < TotalLimit /\ Cardinality(Waiting) < WaitingLimit

Enqueue(kind, mode, d, u, source) ==
  /\ created' = created + 1
  /\ job' = [job EXCEPT ![created + 1] =
               [kind |-> kind, mode |-> mode, dataset |-> d, by |-> u,
                source |-> source]]
  /\ status' = [status EXCEPT ![created + 1] = "QUEUED"]
  /\ UNCHANGED <<attempts, lease, result>>

\* a new dataset with its first job, the end of each way of bringing data in
ImportDataset(u, mode) ==
  /\ mode \in Modes
  /\ u \in writers
  /\ QuotaFree
  /\ datasets < DatasetLimit
  /\ datasets' = datasets + 1
  /\ Enqueue("IMPORT", mode, datasets + 1, u, 0)
  /\ UNCHANGED <<current, version, object, writers, workVars, crashed>>

\* upload: a small file in one request
Upload(u) == ImportDataset(u, "LEGACY")

\* complete: the last step of a chunked upload
CompleteUpload(u) == ImportDataset(u, "STREAM")

PendingImport(d) ==
  \E j \in Waiting : job[j].kind = "IMPORT" /\ job[j].dataset = d

\* retry_import; a pending import with the same options is returned unchanged
RetryImport(u, d) ==
  /\ u \in writers
  /\ d <= datasets
  /\ current[d] = 0
  /\ ~PendingImport(d)
  /\ QuotaFree
  /\ Enqueue("IMPORT", "STREAM", d, u, 0)
  /\ UNCHANGED <<dataVars, object, writers, workVars, crashed>>

\* preview: the mode follows how the source version is stored
Preview(u, d, n) ==
  /\ u \in writers
  /\ n <= current[d]
  /\ QuotaFree
  /\ Enqueue("PREVIEW", job[version[d][n]].mode, d, u, n)
  /\ UNCHANGED <<dataVars, object, writers, workVars, crashed>>

\* create_version
CreateVersion(d, j) ==
  /\ current' = [current EXCEPT ![d] = @ + 1]
  /\ version' = [version EXCEPT ![d][current[d] + 1] = j]
  /\ UNCHANGED datasets

HasVersion(j) == \E n \in VersionNo : version[job[j].dataset][n] = j

\* commit_preview's comparison of the confirmed and the current version
Confirmable(j, expected) ==
  LET d == job[j].dataset
  IN  /\ current[d] = expected
      /\ job[j].source = current[d]
      /\ current[d] < MaxVersions

\* commit_preview; a preview that already became a version is returned as it is
Commit(u, j, expected) ==
  /\ u \in writers
  /\ job[j].kind = "PREVIEW" /\ status[j] = "SUCCEEDED"
  /\ ~HasVersion(j)
  /\ Confirmable(j, expected)
  /\ CreateVersion(job[j].dataset, j)
  /\ UNCHANGED <<jobVars, object, writers, workVars, crashed>>

\* cancel_job
CancelJob(u, j) ==
  /\ u \in writers
  /\ status[j] \in Open
  /\ status' = [status EXCEPT ![j] = "CANCELLED"]
  /\ UNCHANGED <<created, job, attempts, lease, result, dataVars, object,
                 writers, workVars, crashed>>

\* update_member takes or returns the write role of a member
ChangeRights(u) ==
  /\ writers' = IF u \in writers THEN writers \ {u} ELSE writers \cup {u}
  /\ UNCHANGED <<jobVars, dataVars, object, workVars, crashed>>
-------------------------------------------------------------------------------
(* Workers: process_stream_job, one transaction per action. *)

Claimable(j) ==
  /\ job[j].mode = "STREAM"
  /\ \/ status[j] = "QUEUED"
     \/ status[j] = "RUNNING" /\ lease[j] = 0

\* ORDER BY created_at LIMIT 1
Oldest(j, S) == j \in S /\ \A k \in S : j <= k

ClaimableJobs == {j \in JobId : Claimable(j)}

Claim(w, j) ==
  /\ pc[w] = "idle"
  /\ Oldest(j, ClaimableJobs)
  /\ attempts[j] < MaxAttempts
  /\ status' = [status EXCEPT ![j] = "RUNNING"]
  /\ lease' = [lease EXCEPT ![j] = LeaseTime]
  /\ attempts' = [attempts EXCEPT ![j] = @ + 1]
  /\ pc' = [pc EXCEPT ![w] = "start"]
  /\ run' = [run EXCEPT ![w] = [job |-> j, attempt |-> attempts[j] + 1,
                                 staged |-> {}]]
  /\ UNCHANGED <<created, job, result, dataVars, object, writers, crashed>>

\* the third interrupted attempt ends the job instead of starting a fourth
GiveUp(w, j) ==
  /\ pc[w] = "idle"
  /\ Oldest(j, ClaimableJobs)
  /\ attempts[j] >= MaxAttempts
  /\ status' = [status EXCEPT ![j] = "FAILED"]
  /\ UNCHANGED <<created, job, attempts, lease, result, dataVars, object,
                 writers, workVars, crashed>>

\* the fence every transaction of a run checks before it writes
HoldsLease(w) ==
  LET j == run[w].job
  IN  /\ status[j] = "RUNNING"
      /\ attempts[j] = run[w].attempt
      /\ lease[j] > 0

MayWrite(w) == job[run[w].job].by \in writers

Goto(w, step) == pc' = [pc EXCEPT ![w] = step]

Renew(w) ==
  /\ MayWrite(w)
  /\ HoldsLease(w)
  /\ lease' = [lease EXCEPT ![run[w].job] = LeaseTime]
  /\ UNCHANGED <<created, job, status, attempts, result, dataVars, object,
                 writers, run, crashed>>

unchangedButPc == <<jobVars, dataVars, object, writers, run, crashed>>

\* a heartbeat between two blocks of the input or of the result
Heartbeat(w) == pc[w] \in {"build", "store"} /\ Renew(w) /\ UNCHANGED pc

Beats == {"start", "build", "save", "store", "confirm"}

\* LeaseLost: only the cleanup of the staged parts follows
LoseLease(w) ==
  /\ pc[w] \in Beats \cup {"publish"}
  /\ MayWrite(w) /\ ~HoldsLease(w)
  /\ Goto(w, "cleanup")
  /\ UNCHANGED unchangedButPc

\* check_write raises in a heartbeat, in a staging transaction or in publication
Denied(w) ==
  /\ pc[w] \in Beats \cup {"create", "publish"}
  /\ ~MayWrite(w)
  /\ Goto(w, "failed")
  /\ UNCHANGED unchangedButPc

\* build ends, or the source, the disk or the quota makes it a DataError
EndBuild(w) ==
  /\ pc[w] = "build"
  /\ \E next \in {"save", "failed"} : Goto(w, next)
  /\ UNCHANGED unchangedButPc

\* the forced heartbeats before reading, before each save and before publication
BeatThen(w, from, to) == pc[w] = from /\ Renew(w) /\ Goto(w, to)

NextPart(w) == IF run[w].staged = {} THEN "rows" ELSE "export"

\* new_object
CreateObject(w) ==
  /\ pc[w] = "create"
  /\ MayWrite(w)
  /\ object' = [object EXCEPT ![run[w].job][run[w].attempt][NextPart(w)] = "OPEN"]
  /\ run' = [run EXCEPT ![w].staged = @ \cup {NextPart(w)}]
  /\ Goto(w, "store")
  /\ UNCHANGED <<jobVars, dataVars, writers, crashed>>

\* the last append_chunk of a part, or a refused one; no lease is checked here
EndStore(w) ==
  /\ pc[w] = "store"
  /\ \/ MayWrite(w) /\ Goto(w, IF run[w].staged = Part THEN "confirm" ELSE "save")
     \/ Goto(w, "failed")
  /\ UNCHANGED unchangedButPc

\* seal_blob twice, the job's result, and the version of an import
Publish(w) ==
  LET j == run[w].job
      a == run[w].attempt
  IN  /\ pc[w] = "publish"
      /\ MayWrite(w)
      /\ HoldsLease(w)
      /\ \A p \in Part : object[j][a][p] = "OPEN"
      /\ object' = [object EXCEPT ![j][a] = [p \in Part |-> "SEALED"]]
      /\ status' = [status EXCEPT ![j] = "SUCCEEDED"]
      /\ result' = [result EXCEPT ![j] = a]
      /\ IF job[j].kind = "IMPORT"
         THEN CreateVersion(job[j].dataset, j)
         ELSE UNCHANGED dataVars
      /\ Goto(w, "cleanup")
      /\ UNCHANGED <<created, job, attempts, lease, writers, run,
                     crashed>>

\* the handler of DataError and HTTPException: token, but no expiry, is compared
OwnsJob(w) ==
  LET j == run[w].job
  IN  status[j] = "RUNNING" /\ attempts[j] = run[w].attempt

ReportFailure(w) ==
  /\ pc[w] = "failed"
  /\ status' = IF OwnsJob(w) THEN [status EXCEPT ![run[w].job] = "FAILED"] ELSE status
  /\ Goto(w, "cleanup")
  /\ UNCHANGED <<created, job, attempts, lease, result, dataVars, object,
                 writers, run, crashed>>

Discarded(state) == IF state = "OPEN" THEN "CANCELLED" ELSE state

\* one round of the finally block
CleanPart(w) ==
  /\ pc[w] = "cleanup"
  /\ run[w].staged # {}
  /\ LET p == IF "rows" \in run[w].staged THEN "rows" ELSE "export"
     IN  /\ object' = [object EXCEPT ![run[w].job][run[w].attempt][p] = Discarded(@)]
         /\ run' = [run EXCEPT ![w].staged = @ \ {p}]
  /\ UNCHANGED <<jobVars, dataVars, writers, pc, crashed>>

EndRun(w) ==
  /\ pc[w] = "cleanup"
  /\ run[w].staged = {}
  /\ Goto(w, "idle")
  /\ run' = [run EXCEPT ![w] = NoRun]
  /\ UNCHANGED <<jobVars, dataVars, object, writers, crashed>>

\* any other exception leaves the job RUNNING but still runs the finally block
Abort(w) ==
  /\ pc[w] \notin {"idle", "cleanup"}
  /\ Goto(w, "cleanup")
  /\ UNCHANGED unchangedButPc

\* the process dies and is started again, or its cleanup fails with the database
Crash(w) ==
  /\ pc[w] # "idle"
  /\ crashed' = crashed \cup {<<run[w].job, run[w].attempt>>}
  /\ Goto(w, "idle")
  /\ run' = [run EXCEPT ![w] = NoRun]
  /\ UNCHANGED <<jobVars, dataVars, object, writers>>

\* process_one on an inline job: one transaction from claim to result
LegacyJobs == {j \in JobId : job[j].mode = "LEGACY" /\ status[j] = "QUEUED"}

LegacySucceeds(w, j) ==
  /\ pc[w] = "idle"
  /\ Oldest(j, LegacyJobs)
  /\ job[j].by \in writers
  /\ status' = [status EXCEPT ![j] = "SUCCEEDED"]
  /\ IF job[j].kind = "IMPORT"
     THEN CreateVersion(job[j].dataset, j)
     ELSE UNCHANGED dataVars
  /\ UNCHANGED <<created, job, attempts, lease, result, object, writers,
                 workVars, crashed>>

LegacyFails(w, j) ==
  /\ pc[w] = "idle"
  /\ Oldest(j, LegacyJobs)
  /\ status' = [status EXCEPT ![j] = "FAILED"]
  /\ UNCHANGED <<created, job, attempts, lease, result, dataVars, object,
                 writers, workVars, crashed>>

Tick ==
  /\ \E j \in JobId : lease[j] > 0
  /\ lease' = [j \in JobId |-> IF lease[j] > 0 THEN lease[j] - 1 ELSE 0]
  /\ UNCHANGED <<created, job, status, attempts, result, dataVars, object,
                 writers, workVars, crashed>>
-------------------------------------------------------------------------------
MemberStep ==
  \E u \in Users :
    \/ Upload(u)
    \/ CompleteUpload(u)
    \/ \E d \in DatasetId : RetryImport(u, d)
    \/ \E d \in DatasetId, n \in VersionNo : Preview(u, d, n)
    \/ \E j \in JobId, n \in VersionNo : Commit(u, j, n)
    \/ \E j \in JobId : CancelJob(u, j)
    \/ ChangeRights(u)

\* what the worker loop does as long as its process lives
Advance(w) ==
  \/ \E j \in JobId :
        Claim(w, j) \/ GiveUp(w, j) \/ LegacySucceeds(w, j) \/ LegacyFails(w, j)
  \/ BeatThen(w, "start", "build")
  \/ EndBuild(w)
  \/ BeatThen(w, "save", "create")
  \/ CreateObject(w)
  \/ EndStore(w)
  \/ BeatThen(w, "confirm", "publish")
  \/ Publish(w)
  \/ LoseLease(w)
  \/ Denied(w)
  \/ ReportFailure(w)
  \/ CleanPart(w)
  \/ EndRun(w)

WorkerStep(w) == Advance(w) \/ Heartbeat(w) \/ Abort(w) \/ Crash(w)

Next == MemberStep \/ (\E w \in Workers : WorkerStep(w)) \/ Tick

Spec == Init /\ [][Next]_vars

(***************************************************************************)
(* A worker process keeps going or is restarted, a build ends, time        *)
(* passes.  Nothing forces a member to act, a heartbeat to come in time or *)
(* a process to crash.                                                     *)
(***************************************************************************)
Fairness == (\A w \in Workers : WF_vars(Advance(w))) /\ WF_vars(Tick)

FairSpec == Spec /\ Fairness
-------------------------------------------------------------------------------
JobRecord == [kind : Kinds, mode : {"STREAM", "LEGACY"}, dataset : 0..DatasetLimit,
              by : Users \cup {"nobody"}, source : 0..MaxVersions]

RunRecord == [job : 0..TotalLimit, attempt : 0..MaxAttempts,
              staged : SUBSET Part]

JobTypes ==
  /\ created \in 0..TotalLimit
  /\ job \in [JobId -> JobRecord]
  /\ status \in [JobId -> Statuses]
  /\ attempts \in [JobId -> 0..MaxAttempts]
  /\ lease \in [JobId -> 0..LeaseTime]
  /\ result \in [JobId -> 0..MaxAttempts]

DataTypes ==
  /\ datasets \in 0..DatasetLimit
  /\ current \in [DatasetId -> 0..MaxVersions]
  /\ version \in [DatasetId -> [VersionNo -> 0..TotalLimit]]

RunTypes ==
  /\ object \in [JobId -> [Attempt -> [Part -> ObjectStatuses]]]
  /\ pc \in [Workers -> Steps]
  /\ run \in [Workers -> RunRecord]
  /\ crashed \in SUBSET (JobId \X Attempt)

(* Every variable has its type: in particular no job is claimed more than  *)
(* MaxAttempts times and no dataset has more than MaxVersions versions.    *)
TypeOK == JobTypes /\ DataTypes /\ RunTypes /\ writers \in SUBSET Users

(* The versions of a dataset are numbered without a gap; the first is the  *)
(* result of an import, every later one is the result of a preview that    *)
(* was computed from the version right before it, however many previews,   *)
(* confirmations, cancellations and retried imports raced (commit_preview, *)
(* create_version, retry_import).                                          *)
LinearHistory ==
  \A d \in DatasetId, n \in VersionNo :
    IF n > current[d]
    THEN version[d][n] = 0
    ELSE /\ version[d][n] \in 1..created
         /\ LET j == version[d][n]
            IN  /\ status[j] = "SUCCEEDED"
                /\ job[j].dataset = d
                /\ job[j].source = n - 1
                /\ job[j].kind = IF n = 1 THEN "IMPORT" ELSE "PREVIEW"

(* A dataset never has two imports of which one may still publish while    *)
(* the other waits, runs or has published (retry_import, cancel_job).      *)
OneImport ==
  \A j, k \in 1..created :
    /\ job[j].kind = "IMPORT" /\ status[j] \in Open
    /\ job[k].kind = "IMPORT" /\ status[k] \in Open \cup {"SUCCEEDED"}
    /\ job[j].dataset = job[k].dataset
    => j = k

(* The result of a streamed job consists of the two sealed parts of the    *)
(* run that holds the job's last token, and a sealed part always belongs   *)
(* to the result of a finished job: a run that lost its lease publishes    *)
(* nothing and seals nothing (publication in process_stream_job).          *)
ResultsSealed ==
  /\ \A j \in JobId :
       job[j].mode = "STREAM" /\ status[j] = "SUCCEEDED"
       => /\ result[j] = attempts[j] /\ result[j] \in Attempt
          /\ \A p \in Part : object[j][result[j]][p] = "SEALED"
  /\ \A j \in JobId, a \in Attempt, p \in Part :
       object[j][a][p] = "SEALED" => result[j] = a /\ status[j] = "SUCCEEDED"

(* A part is left OPEN only while the run that staged it still has to      *)
(* clean up, or after its process died (the finally block of               *)
(* process_stream_job; EXPLAIN.md names the leak after a crash).           *)
PartsAccounted ==
  \A j \in JobId, a \in Attempt, p \in Part :
    object[j][a][p] = "OPEN"
    => \/ <<j, a>> \in crashed
       \/ \E w \in Workers :
            run[w].job = j /\ run[w].attempt = a /\ p \in run[w].staged

(* At most WaitingLimit jobs are queued or running, whatever expired,      *)
(* retried or took over (check_quota).                                     *)
WaitingBound == Cardinality(Waiting) <= WaitingLimit

(* A finished job stays as it is: a run that comes back after cancel_job,  *)
(* after GiveUp or after another worker finished changes neither the       *)
(* status nor the result (also protect_finished_data_job).                 *)
FinalStays ==
  [][\A j \in JobId : status[j] \in Final
       => status'[j] = status[j] /\ result'[j] = result[j]]_vars

(* No result appears in the name of a member whose write right was taken   *)
(* while the job waited or ran (check_write in the publication).           *)
OnlyWritersPublish ==
  [][\A j \in JobId : status'[j] = "SUCCEEDED" /\ status[j] # "SUCCEEDED"
       => job[j].by \in writers]_vars

(* Every accepted job ends, whatever crashes, expires or is revoked        *)
(* (worker loop, lease take-over, GiveUp).                                 *)
JobsEnd == \A j \in JobId : status[j] \in Open ~> status[j] \in Final

(* Every staged part is sealed or cancelled in the end unless the process  *)
(* that staged it died.                                                    *)
PartsSettle ==
  \A j \in JobId, a \in Attempt, p \in Part :
    object[j][a][p] = "OPEN"
    ~> object[j][a][p] # "OPEN" \/ <<j, a>> \in crashed
-------------------------------------------------------------------------------
History == [d \in DatasetId |->
             [n \in 1..current[d] |->
               [job |-> version[d][n], source |-> job[version[d][n]].source]]]

Abstract == INSTANCE VersionHistory WITH history <- History

(* The jobs, leases and confirmations together implement an append-only    *)
(* linear version history.                                                 *)
ImplementsHistory == Abstract!Spec
-------------------------------------------------------------------------------
(* The strengthening that makes the safety properties inductive. *)

\* what is known of a job from the row it was created with
JobsInv ==
  /\ \A j \in JobId :
       j > created => /\ job[j] = NoJob /\ status[j] = "NONE"
                      /\ attempts[j] = 0 /\ result[j] = 0
  /\ \A j \in 1..created :
       /\ status[j] # "NONE"
       /\ job[j].dataset \in 1..datasets
       /\ job[j].by \in Users
       /\ status[j] = "RUNNING" => job[j].mode = "STREAM"
       /\ job[j].kind = "IMPORT"
          => /\ job[j].source = 0
             /\ status[j] \in Open => current[job[j].dataset] = 0
             /\ status[j] = "SUCCEEDED" => /\ current[job[j].dataset] > 0
                                          /\ version[job[j].dataset][1] = j
       /\ job[j].kind = "PREVIEW"
          => job[j].source \in 1..current[job[j].dataset]
  /\ \A d \in DatasetId : d > datasets => current[d] = 0

\* a run works on an attempt that was claimed, and on no other run's attempt
RunsInv ==
  /\ \A w \in Workers :
       IF pc[w] = "idle"
       THEN run[w] = NoRun
       ELSE /\ run[w].job \in 1..created
            /\ job[run[w].job].mode = "STREAM"
            /\ run[w].attempt \in 1..attempts[run[w].job]
  /\ \A v, w \in Workers :
       /\ pc[v] # "idle" /\ pc[w] # "idle"
       /\ run[v].job = run[w].job /\ run[v].attempt = run[w].attempt
       => v = w

\* which parts a run has staged at each step
StagedInv ==
  \A w \in Workers :
    /\ pc[w] \in {"start", "build"} => run[w].staged = {}
    /\ pc[w] \in {"save", "create"} => run[w].staged \in {{}, {"rows"}}
    /\ pc[w] = "store" => run[w].staged \in {{"rows"}, Part}
    /\ pc[w] \in {"confirm", "publish"} => run[w].staged = Part

\* the objects of an attempt follow what its run has staged
PartsInv ==
  /\ \A j \in JobId, a \in Attempt, p \in Part :
       a > attempts[j] => object[j][a][p] = "NONE"
  /\ \A w \in Workers, p \in Part :
       /\ pc[w] \notin {"idle", "cleanup"}
          => object[run[w].job][run[w].attempt][p] =
               IF p \in run[w].staged THEN "OPEN" ELSE "NONE"
       /\ pc[w] = "cleanup" /\ p \in run[w].staged
          => object[run[w].job][run[w].attempt][p] \in {"OPEN", "SEALED"}
  /\ \A j \in JobId : result[j] # 0 => status[j] = "SUCCEEDED"

IInv ==
  /\ TypeOK
  /\ JobsInv
  /\ LinearHistory
  /\ OneImport
  /\ RunsInv
  /\ StagedInv
  /\ PartsInv
  /\ ResultsSealed
  /\ PartsAccounted
===============================================================================
