---------------------------- MODULE DataJobs_proofs ----------------------------
(***************************************************************************)
(* Proofs about DataJobs.                                                  *)
(*                                                                         *)
(* The argument: IInv is inductive.  What a step does to jobs and versions *)
(* has one of five forms (FormOfStep); each keeps the histories linear and *)
(* the imports single (FormsKeep).  What it does to runs and parts is      *)
(* followed action by action (RunsStep, StagedStep, the lemmas *Parts).    *)
(* The theorems at the end are projections of IInv.                        *)
(***************************************************************************)
EXTENDS DataJobs, Sequences, FiniteSetTheorems, TLAPS

(* A queued job (import, retry_import, preview) keeps the job rows well   *)
(* typed: check_quota leaves an id free.                                  *)
LEMMA EnqueueType ==
  ASSUME JobTypes, QuotaFree,
         NEW kind \in Kinds, NEW mode \in {"STREAM", "LEGACY"}, NEW d \in DatasetId,
         NEW u \in Users, NEW n \in 0..MaxVersions, Enqueue(kind, mode, d, u, n)
  PROVE  JobTypes'
<1>1. created + 1 \in JobId
  BY LimitsAssumption DEF JobTypes, QuotaFree, JobId
<1>2. [kind |-> kind, mode |-> mode, dataset |-> d, by |-> u, source |-> n] \in JobRecord
  BY LimitsAssumption DEF JobRecord, DatasetId
<1>3. job' \in [JobId -> JobRecord]
  BY <1>1, <1>2 DEF JobTypes, Enqueue
<1>4. status' \in [JobId -> Statuses]
  BY <1>1 DEF JobTypes, Enqueue, Statuses
<1> QED
  BY <1>1, <1>3, <1>4, LimitsAssumption DEF JobTypes, Enqueue, JobId

(* create_version keeps the dataset rows well typed while the dataset has *)
(* fewer than MaxVersions versions.                                       *)
LEMMA CreateType ==
  ASSUME DataTypes, NEW d \in DatasetId, NEW j \in JobId, current[d] < MaxVersions,
         CreateVersion(d, j)
  PROVE  DataTypes'
<1>1. current' \in [DatasetId -> 0..MaxVersions]
  BY LimitsAssumption DEF DataTypes, CreateVersion
<1>2. version' \in [DatasetId -> [VersionNo -> 0..TotalLimit]]
  <2>1. version[d] \in [VersionNo -> 0..TotalLimit]
    BY DEF DataTypes
  <2>2. [version[d] EXCEPT ![current[d] + 1] = j] \in [VersionNo -> 0..TotalLimit]
    <3>1. j \in 0..TotalLimit
      BY LimitsAssumption DEF JobId
    <3> QED
      BY <2>1, <3>1
  <2>3. version' = [version EXCEPT ![d] = [version[d] EXCEPT ![current[d] + 1] = j]]
    BY DEF CreateVersion
  <2> QED
    BY <2>2, <2>3 DEF DataTypes
<1> QED
  BY <1>1, <1>2 DEF DataTypes, CreateVersion

(* A job that was created names an existing dataset.                      *)
LEMMA CreatedDataset ==
  ASSUME JobTypes, DataTypes, JobsInv, NEW j \in JobId, status[j] # "NONE"
  PROVE  /\ j \in 1..created
         /\ job[j].dataset \in 1..datasets
         /\ job[j].dataset \in DatasetId
<1>1. j \in 1..created
  BY LimitsAssumption DEF JobsInv, JobTypes, JobId
<1>2. job[j].dataset \in 1..datasets
  BY <1>1 DEF JobsInv
<1> QED
  BY <1>1, <1>2, LimitsAssumption DEF DataTypes, DatasetId

(* What a busy worker remembers of its claim names an existing job and    *)
(* one of its attempts.                                                   *)
LEMMA RunInDomain ==
  ASSUME TypeOK, RunsInv, NEW w \in Workers, pc[w] # "idle"
  PROVE  /\ run[w].job \in 1..created
         /\ run[w].job \in JobId
         /\ run[w].attempt \in Attempt
         /\ run[w].attempt <= attempts[run[w].job]
         /\ run[w].staged \in SUBSET Part
<1>1. /\ run[w].job \in 1..created
      /\ run[w].attempt \in 1..attempts[run[w].job]
  BY DEF RunsInv
<1>2. run[w].job \in JobId
  BY <1>1, LimitsAssumption DEF TypeOK, JobTypes, JobId
<1> QED
  BY <1>1, <1>2, LimitsAssumption DEF TypeOK, JobTypes, RunTypes, RunRecord, Attempt

(* No request of a member (upload, retry_import, preview, commit,         *)
(* cancel_job, update_member) breaks a type.                              *)
LEMMA MemberType ==
  ASSUME TypeOK, JobsInv, LinearHistory, MemberStep PROVE TypeOK'
<1> USE DEF TypeOK
<1>1. ASSUME NEW u \in Users, NEW m \in {"STREAM", "LEGACY"}, ImportDataset(u, m) PROVE TypeOK'
  <2>1. datasets + 1 \in DatasetId
    BY <1>1, LimitsAssumption DEF ImportDataset, DataTypes, DatasetId
  <2>2. JobTypes'
    BY <1>1, <2>1, EnqueueType, LimitsAssumption DEF ImportDataset, Kinds
  <2>3. DataTypes'
    BY <1>1, <2>1 DEF ImportDataset, DataTypes, DatasetId
  <2> QED
    BY <1>1, <2>2, <2>3 DEF ImportDataset, RunTypes, workVars
<1>2. ASSUME NEW u \in Users, NEW d \in DatasetId, RetryImport(u, d) PROVE TypeOK'
  <2>1. JobTypes'
    BY <1>2, EnqueueType, LimitsAssumption DEF RetryImport, Kinds
  <2> QED
    BY <1>2, <2>1 DEF RetryImport, RunTypes, DataTypes, workVars, dataVars
<1>3. ASSUME NEW u \in Users, NEW d \in DatasetId, NEW n \in VersionNo, Preview(u, d, n)
      PROVE  TypeOK'
  <2>1. version[d][n] \in JobId
    <3>1. ~(n > current[d])
      BY <1>3, LimitsAssumption DEF Preview, DataTypes, VersionNo
    <3>2. version[d][n] \in 1..created
      BY <3>1 DEF LinearHistory
    <3> QED
      BY <3>2, LimitsAssumption DEF JobTypes, JobId
  <2>2. job[version[d][n]].mode \in {"STREAM", "LEGACY"}
    BY <2>1 DEF JobTypes, JobRecord
  <2>3. JobTypes'
    BY <1>3, <2>2, EnqueueType, LimitsAssumption DEF Preview, Kinds, VersionNo
  <2> QED
    BY <1>3, <2>3 DEF Preview, RunTypes, DataTypes, workVars, dataVars
<1>4. ASSUME NEW u \in Users, NEW j \in JobId, NEW n \in VersionNo, Commit(u, j, n)
      PROVE  TypeOK'
  <2>1. job[j].dataset \in DatasetId
    BY <1>4, CreatedDataset DEF Commit
  <2>2. DataTypes'
    BY <1>4, <2>1, CreateType DEF Commit, Confirmable
  <2> QED
    BY <1>4, <2>2 DEF Commit, JobTypes, RunTypes, workVars, jobVars
<1>5. ASSUME NEW u \in Users, NEW j \in JobId, CancelJob(u, j) PROVE TypeOK'
  BY <1>5 DEF CancelJob, JobTypes, RunTypes, DataTypes, workVars, dataVars, Statuses
<1>6. ASSUME NEW u \in Users, ChangeRights(u) PROVE TypeOK'
  BY <1>6 DEF ChangeRights, JobTypes, RunTypes, DataTypes, workVars, dataVars, jobVars
<1> QED
  BY <1>1, <1>2, <1>3, <1>4, <1>5, <1>6 DEF MemberStep, Upload, CompleteUpload

(* No transaction of a worker and no crash breaks a type: a claim never   *)
(* exceeds MaxAttempts.                                                   *)
LEMMA WorkerType ==
  ASSUME TypeOK, JobsInv, RunsInv, NEW w \in Workers, WorkerStep(w) PROVE TypeOK'
<1> USE DEF TypeOK
<1>1. ASSUME NEW j \in JobId, Claim(w, j) PROVE TypeOK'
  <2>1. attempts[j] + 1 \in Attempt
    BY <1>1, LimitsAssumption DEF Claim, JobTypes, Attempt
  <2>2. [job |-> j, attempt |-> attempts[j] + 1, staged |-> {}] \in RunRecord
    BY <2>1, LimitsAssumption DEF RunRecord, Attempt, JobId
  <2>3. JobTypes'
    BY <1>1, <2>1, LimitsAssumption DEF Claim, JobTypes, Statuses, Attempt
  <2> QED
    BY <1>1, <2>2, <2>3 DEF Claim, RunTypes, DataTypes, dataVars, Steps
<1>2. ASSUME NEW j \in JobId, GiveUp(w, j) PROVE TypeOK'
  BY <1>2 DEF GiveUp, JobTypes, RunTypes, DataTypes, workVars, dataVars, Statuses
<1>3. ASSUME NEW j \in JobId, LegacySucceeds(w, j) PROVE TypeOK'
  <2>1. j \in 1..created
    BY <1>3 DEF LegacySucceeds, Oldest, LegacyJobs, JobsInv, JobTypes, JobId
  <2>2. DataTypes'
    <3>1. job[j].dataset \in DatasetId /\ (job[j].kind = "IMPORT" => current[job[j].dataset] < MaxVersions)
      BY <1>3, <2>1, LimitsAssumption DEF LegacySucceeds, Oldest, LegacyJobs, JobsInv, DataTypes, DatasetId, Open
    <3> QED
      BY <1>3, <3>1, CreateType DEF LegacySucceeds, dataVars, DataTypes
  <2> QED
    BY <1>3, <2>2 DEF LegacySucceeds, JobTypes, RunTypes, workVars, Statuses
<1>4. ASSUME NEW j \in JobId, LegacyFails(w, j) PROVE TypeOK'
  BY <1>4 DEF LegacyFails, JobTypes, RunTypes, DataTypes, workVars, dataVars, Statuses
<1>5. ASSUME Renew(w), NEW to \in Steps, Goto(w, to) \/ UNCHANGED pc PROVE TypeOK'
  <2>1. lease' \in [JobId -> 0..LeaseTime]
    <3>1. LeaseTime \in 0..LeaseTime
      BY LimitsAssumption
    <3> QED
      BY <1>5, <3>1 DEF Renew, JobTypes
  <2>2. JobTypes'
    BY <1>5, <2>1 DEF Renew, JobTypes
  <2>3. RunTypes'
    BY <1>5 DEF Renew, Goto, RunTypes
  <2> QED
    BY <1>5, <2>2, <2>3 DEF Renew, DataTypes, dataVars
<1>6. ASSUME NEW to \in Steps, Goto(w, to), UNCHANGED unchangedButPc PROVE TypeOK'
  BY <1>6 DEF Goto, unchangedButPc, JobTypes, RunTypes, DataTypes, jobVars, dataVars
<1>7. ASSUME CreateObject(w) PROVE TypeOK'
  <2>1. NextPart(w) \in Part
    BY DEF NextPart, Part
  <2>2. run' \in [Workers -> RunRecord]
    BY <1>7, <2>1 DEF CreateObject, RunTypes, RunRecord
  <2>3. object' \in [JobId -> [Attempt -> [Part -> ObjectStatuses]]]
    BY <1>7, <2>1 DEF CreateObject, RunTypes, ObjectStatuses
  <2> QED
    BY <1>7, <2>2, <2>3 DEF CreateObject, Goto, RunTypes, JobTypes, DataTypes, jobVars, dataVars, Steps
<1>8. ASSUME Publish(w) PROVE TypeOK'
  <2>1. /\ run[w].job \in JobId
        /\ run[w].attempt \in 0..MaxAttempts
    BY <1>8, LimitsAssumption DEF Publish, RunsInv, RunTypes, RunRecord, JobTypes, JobId
  <2>2. DataTypes'
    <3>1. /\ job[run[w].job].dataset \in DatasetId
          /\ run[w].job \in 1..created
      BY <1>8, <2>1, CreatedDataset DEF Publish, HoldsLease
    <3>2. job[run[w].job].kind = "IMPORT" => current[job[run[w].job].dataset] < MaxVersions
      BY <1>8, <3>1, LimitsAssumption DEF Publish, HoldsLease, JobsInv, Open
    <3> QED
      BY <1>8, <2>1, <3>1, <3>2, CreateType DEF Publish, dataVars, DataTypes
  <2>3. JobTypes'
    BY <1>8, <2>1 DEF Publish, JobTypes, Statuses
  <2>4. RunTypes'
    BY <1>8 DEF Publish, RunTypes, Goto, Steps, ObjectStatuses
  <2> QED
    BY <1>8, <2>2, <2>3, <2>4 DEF Publish
<1>9. ASSUME ReportFailure(w) PROVE TypeOK'
  BY <1>9 DEF ReportFailure, Goto, Steps, JobTypes, RunTypes, DataTypes, dataVars, Statuses
<1>10. ASSUME CleanPart(w) PROVE TypeOK'
  <2>1. run' \in [Workers -> RunRecord]
    BY <1>10 DEF CleanPart, RunTypes, RunRecord
  <2>2. object' \in [JobId -> [Attempt -> [Part -> ObjectStatuses]]]
    <3> DEFINE p == IF "rows" \in run[w].staged THEN "rows" ELSE "export"
               j == run[w].job
               a == run[w].attempt
    <3>1. j \in JobId /\ a \in Attempt /\ p \in Part
      BY <1>10, RunInDomain DEF CleanPart, Part
    <3>2. object[j][a][p] \in ObjectStatuses
      BY <3>1 DEF RunTypes
    <3>3. Discarded(object[j][a][p]) \in ObjectStatuses
      BY <3>2 DEF Discarded, ObjectStatuses
    <3>4. object' = [object EXCEPT ![j][a][p] = Discarded(@)]
      BY <1>10 DEF CleanPart
    <3> QED
      BY <3>1, <3>3, <3>4 DEF RunTypes
  <2> QED
    BY <1>10, <2>1, <2>2 DEF CleanPart, RunTypes, JobTypes, DataTypes, jobVars, dataVars
<1>11. NoRun \in RunRecord
  BY LimitsAssumption DEF NoRun, RunRecord
<1>12. ASSUME EndRun(w) PROVE TypeOK'
  BY <1>11, <1>12 DEF EndRun, Goto, Steps, RunTypes, JobTypes, DataTypes, jobVars, dataVars
<1>13. ASSUME Crash(w) PROVE TypeOK'
  <2>1. <<run[w].job, run[w].attempt>> \in JobId \X Attempt
    BY <1>13, LimitsAssumption DEF Crash, RunsInv, RunTypes, RunRecord, JobTypes, JobId, Attempt
  <2> QED
    BY <1>11, <1>13, <2>1 DEF Crash, Goto, Steps, RunTypes, JobTypes, DataTypes, jobVars, dataVars
<1>14. ASSUME LoseLease(w) \/ Denied(w) \/ EndBuild(w) \/ EndStore(w) \/ Abort(w)
       PROVE  TypeOK'
  <2>1. PICK to \in Steps : Goto(w, to)
    BY <1>14 DEF LoseLease, Denied, EndBuild, EndStore, Abort, Steps
  <2>2. UNCHANGED unchangedButPc
    BY <1>14 DEF LoseLease, Denied, EndBuild, EndStore, Abort
  <2> QED
    BY <1>6, <2>1, <2>2
<1>15. ASSUME NEW from \in Steps, NEW to \in Steps, BeatThen(w, from, to) PROVE TypeOK'
  BY <1>5, <1>15 DEF BeatThen
<1>16. ASSUME Heartbeat(w) PROVE TypeOK'
  <2>1. "build" \in Steps
    BY DEF Steps
  <2> QED
    BY <1>5, <1>16, <2>1 DEF Heartbeat
<1>17. {"start", "build", "save", "create", "confirm", "publish"} \subseteq Steps
  BY DEF Steps
<1> QED
  BY <1>1, <1>2, <1>3, <1>4, <1>7, <1>8, <1>9, <1>10, <1>12, <1>13, <1>14, <1>15,
     <1>16, <1>17 DEF WorkerStep, Advance
(* The passing of time keeps every type.                                  *)
LEMMA TickType == ASSUME TypeOK, Tick PROVE TypeOK'
<1>1. lease' \in [JobId -> 0..LeaseTime]
  <2>1. ASSUME NEW j \in JobId
        PROVE  (IF lease[j] > 0 THEN lease[j] - 1 ELSE 0) \in 0..LeaseTime
    BY LimitsAssumption DEF TypeOK, JobTypes
  <2> QED
    BY <2>1 DEF Tick
<1> QED
  BY <1>1 DEF Tick, TypeOK, JobTypes, RunTypes, DataTypes, workVars, dataVars

(* No step of the system breaks a type.                                   *)
LEMMA TypeStep ==
  ASSUME TypeOK, JobsInv, LinearHistory, RunsInv, [Next]_vars PROVE TypeOK'
<1>1. ASSUME UNCHANGED vars PROVE TypeOK'
  BY <1>1 DEF vars, jobVars, dataVars, workVars, TypeOK, JobTypes, RunTypes, DataTypes
<1> QED
  BY <1>1, MemberType, WorkerType, TickType DEF Next
-------------------------------------------------------------------------------
(***************************************************************************)
(* What a step can do to the rows of jobs and versions: nothing, queue a   *)
(* job, move an unfinished job, finish one with a result, or confirm a     *)
(* preview.  The invariants about jobs and versions are proved for these   *)
(* five forms of a step.                                                   *)
(***************************************************************************)

Quiet == UNCHANGED <<created, job, status, attempts, result, dataVars>>

HasRoom == Cardinality(Waiting) < WaitingLimit

Queues(kind, mode, d, u, n) ==
  /\ Enqueue(kind, mode, d, u, n)
  /\ HasRoom
  /\ created + 1 \in JobId
  /\ UNCHANGED <<current, version>>
  /\ datasets' \in {datasets, datasets + 1}
  /\ d \in 1..datasets' /\ d \in DatasetId
  /\ kind = "IMPORT"
     => /\ n = 0 /\ current[d] = 0
        /\ \A j \in 1..created : job[j].kind = "IMPORT" /\ job[j].dataset = d
                                => status[j] \notin Open
  /\ kind = "PREVIEW" => n \in 1..current[d]

Queued ==
  \E kind \in Kinds, mode \in {"STREAM", "LEGACY"}, d \in DatasetId, u \in Users,
     n \in 0..MaxVersions : Queues(kind, mode, d, u, n)

Moves(j, s) ==
  /\ status[j] \in Open
  /\ status' = [status EXCEPT ![j] = s]
  /\ s = "RUNNING" => job[j].mode = "STREAM"
  /\ attempts' = IF s = "RUNNING" THEN [attempts EXCEPT ![j] = @ + 1] ELSE attempts
  /\ UNCHANGED <<created, job, result, dataVars>>

Moved == \E j \in JobId, s \in {"RUNNING", "FAILED", "CANCELLED"} : Moves(j, s)

Succeeds(j) ==
  /\ status[j] \in Open
  /\ status' = [status EXCEPT ![j] = "SUCCEEDED"]
  /\ IF job[j].kind = "IMPORT" THEN CreateVersion(job[j].dataset, j)
                               ELSE UNCHANGED dataVars
  /\ \E a \in 0..MaxAttempts : result' = [result EXCEPT ![j] = a]
  /\ UNCHANGED <<created, job, attempts>>

Succeeded == \E j \in JobId : Succeeds(j)

Confirms(j) ==
  /\ status[j] = "SUCCEEDED" /\ job[j].kind = "PREVIEW"
  /\ Confirmable(j, current[job[j].dataset])
  /\ CreateVersion(job[j].dataset, j)
  /\ UNCHANGED <<created, job, status, attempts, result>>

Confirmed == \E j \in JobId : Confirms(j)

(* A member either queues a job, cancels one, confirms a preview or       *)
(* leaves jobs and versions alone.                                        *)
LEMMA FormOfMemberStep ==
  ASSUME TypeOK, JobsInv, LinearHistory, MemberStep
  PROVE  Quiet \/ Queued \/ Moved \/ Succeeded \/ Confirmed
<1>1. ASSUME NEW u \in Users, NEW m \in {"STREAM", "LEGACY"}, ImportDataset(u, m) PROVE Queued
  <2>1. /\ datasets + 1 \in DatasetId
        /\ created + 1 \in JobId
        /\ created \in Nat /\ datasets \in Nat
    BY <1>1, LimitsAssumption
    DEF ImportDataset, QuotaFree, TypeOK, DataTypes, JobTypes, DatasetId, JobId
  <2>2. \A j \in 1..created : job[j].dataset # datasets + 1
    BY <2>1 DEF JobsInv
  <2>3. current[datasets + 1] = 0
    BY <2>1 DEF JobsInv
  <2>4. Queues("IMPORT", m, datasets + 1, u, 0)
    <3>1. HasRoom
      BY <1>1 DEF ImportDataset, QuotaFree, HasRoom
    <3> QED
      BY <1>1, <2>1, <2>2, <2>3, <3>1 DEF ImportDataset, Queues
  <2>5. m \in {"STREAM", "LEGACY"} /\ 0 \in 0..MaxVersions /\ "IMPORT" \in Kinds
    BY LimitsAssumption DEF Kinds
  <2> QED
    BY <2>1, <2>4, <2>5 DEF Queued
<1>2. ASSUME NEW u \in Users, NEW d \in DatasetId, RetryImport(u, d) PROVE Queued
  <2>1. /\ d \in 1..datasets
        /\ created + 1 \in JobId
        /\ 1..created \subseteq JobId
    BY <1>2, LimitsAssumption
    DEF RetryImport, QuotaFree, TypeOK, DataTypes, JobTypes, DatasetId, JobId
  <2>2. Queues("IMPORT", "STREAM", d, u, 0)
    <3>1. HasRoom
      BY <1>2 DEF RetryImport, QuotaFree, HasRoom
    <3> QED
      BY <1>2, <2>1, <3>1 DEF RetryImport, Queues, PendingImport, Waiting, dataVars
  <2>3. 0 \in 0..MaxVersions /\ "IMPORT" \in Kinds
    BY LimitsAssumption DEF Kinds
  <2> QED
    BY <2>2, <2>3 DEF Queued
<1>3. ASSUME NEW u \in Users, NEW d \in DatasetId, NEW n \in VersionNo, Preview(u, d, n)
      PROVE  Queued
  <2>1. /\ n \in 1..current[d] /\ n \in 0..MaxVersions
        /\ created + 1 \in JobId
    BY <1>3, LimitsAssumption
    DEF Preview, QuotaFree, TypeOK, DataTypes, JobTypes, VersionNo, JobId
  <2>2. d \in 1..datasets
    BY <2>1, LimitsAssumption DEF JobsInv, TypeOK, DataTypes, DatasetId
  <2>3. version[d][n] \in JobId
    BY <2>1, LimitsAssumption DEF LinearHistory, TypeOK, DataTypes, JobTypes, JobId
  <2> DEFINE mode == job[version[d][n]].mode
  <2>4. mode \in {"STREAM", "LEGACY"}
    BY <2>3 DEF TypeOK, JobTypes, JobRecord
  <2>5. Queues("PREVIEW", mode, d, u, n)
    <3>1. HasRoom
      BY <1>3 DEF Preview, QuotaFree, HasRoom
    <3> QED
      BY <1>3, <2>1, <2>2, <3>1 DEF Preview, Queues, dataVars
  <2>6. "PREVIEW" \in Kinds
    BY DEF Kinds
  <2> QED
    BY <2>1, <2>4, <2>5, <2>6 DEF Queued
<1>4. ASSUME NEW u \in Users, NEW j \in JobId, NEW n \in VersionNo, Commit(u, j, n)
      PROVE  Confirmed
  BY <1>4 DEF Commit, Confirmed, Confirms, Confirmable, jobVars
<1>5. ASSUME NEW u \in Users, NEW j \in JobId, CancelJob(u, j) PROVE Moved
  BY <1>5 DEF CancelJob, Moved, Moves
<1>6. ASSUME NEW u \in Users, ChangeRights(u) PROVE Quiet
  BY <1>6 DEF ChangeRights, Quiet, jobVars
<1> QED
  BY <1>1, <1>2, <1>3, <1>4, <1>5, <1>6 DEF MemberStep, Upload, CompleteUpload

QuietWorkerStep(w) ==
  \/ Heartbeat(w) \/ Abort(w) \/ Crash(w) \/ EndBuild(w) \/ CreateObject(w)
  \/ EndStore(w) \/ LoseLease(w) \/ Denied(w) \/ CleanPart(w) \/ EndRun(w)
  \/ BeatThen(w, "start", "build") \/ BeatThen(w, "save", "create")
  \/ BeatThen(w, "confirm", "publish")

(* The staging steps of a run (heartbeats, objects, cleanup, abort,       *)
(* crash) leave job results and versions alone.                           *)
LEMMA QuietSteps == ASSUME NEW w, QuietWorkerStep(w) PROVE Quiet
<1>1. CASE Heartbeat(w) \/ BeatThen(w, "start", "build") \/ BeatThen(w, "save", "create")
             \/ BeatThen(w, "confirm", "publish")
  BY <1>1 DEF Heartbeat, BeatThen, Renew, Quiet
<1>2. CASE Abort(w) \/ EndBuild(w) \/ EndStore(w) \/ LoseLease(w) \/ Denied(w)
  BY <1>2 DEF Abort, EndBuild, EndStore, LoseLease, Denied, unchangedButPc, jobVars, Quiet
<1>3. CASE Crash(w) \/ CreateObject(w) \/ CleanPart(w) \/ EndRun(w)
  BY <1>3 DEF Crash, CreateObject, CleanPart, EndRun, jobVars, Quiet
<1> QED
  BY <1>1, <1>2, <1>3 DEF QuietWorkerStep

(* A worker either ends a job, with or without a version, or leaves jobs  *)
(* and versions alone.                                                    *)
LEMMA FormOfWorkerStep ==
  ASSUME TypeOK, RunsInv, NEW w \in Workers, WorkerStep(w)
  PROVE  Quiet \/ Queued \/ Moved \/ Succeeded \/ Confirmed
<1>1. ASSUME NEW j \in JobId, Claim(w, j) PROVE Moved
  BY <1>1 DEF Claim, Oldest, ClaimableJobs, Claimable, Moved, Moves, Open
<1>2. ASSUME NEW j \in JobId, GiveUp(w, j) PROVE Moved
  BY <1>2 DEF GiveUp, Oldest, ClaimableJobs, Claimable, Moved, Moves, Open
<1>3. ASSUME NEW j \in JobId, LegacySucceeds(w, j) PROVE Succeeded
  <2>1. result' = [result EXCEPT ![j] = result[j]] /\ result[j] \in 0..MaxAttempts
    BY <1>3 DEF LegacySucceeds, TypeOK, JobTypes
  <2> QED
    BY <1>3, <2>1 DEF LegacySucceeds, Oldest, LegacyJobs, Succeeded, Succeeds, Open
<1>4. ASSUME NEW j \in JobId, LegacyFails(w, j) PROVE Moved
  BY <1>4 DEF LegacyFails, Oldest, LegacyJobs, Moved, Moves, Open
<1>5. ASSUME Publish(w) PROVE Succeeded
  <2>1. run[w].job \in JobId /\ run[w].attempt \in 0..MaxAttempts
    BY <1>5, RunInDomain, LimitsAssumption DEF Publish, Attempt
  <2> QED
    BY <1>5, <2>1 DEF Publish, HoldsLease, Succeeded, Succeeds, Open
<1>6. ASSUME ReportFailure(w) PROVE Quiet \/ Moved
  <2>1. run[w].job \in JobId
    BY <1>6, RunInDomain DEF ReportFailure
  <2>2. CASE OwnsJob(w)
    BY <1>6, <2>1, <2>2 DEF ReportFailure, OwnsJob, Moved, Moves, Open
  <2>3. CASE ~OwnsJob(w)
    BY <1>6, <2>3 DEF ReportFailure, Quiet
  <2> QED
    BY <2>2, <2>3
<1> QED
  BY <1>1, <1>2, <1>3, <1>4, <1>5, <1>6, QuietSteps DEF WorkerStep, Advance, QuietWorkerStep

(* Every step of the system has one of five effects on jobs and versions. *)
LEMMA FormOfStep ==
  ASSUME TypeOK, JobsInv, LinearHistory, RunsInv, [Next]_vars
  PROVE  Quiet \/ Queued \/ Moved \/ Succeeded \/ Confirmed
<1>1. Tick \/ UNCHANGED vars => Quiet
  BY DEF Tick, vars, jobVars, Quiet
<1> QED
  BY <1>1, FormOfMemberStep, FormOfWorkerStep DEF Next
-------------------------------------------------------------------------------
(* The invariants about jobs and versions, one form of a step at a time. *)

(* A step that leaves jobs and versions alone keeps the history linear    *)
(* and imports single.                                                    *)
LEMMA QuietKeeps ==
  ASSUME JobsInv, LinearHistory, OneImport, Quiet
  PROVE  JobsInv' /\ LinearHistory' /\ OneImport'
BY DEF Quiet, dataVars, JobsInv, LinearHistory, OneImport

(* A newly queued job (enqueue of import, retry_import, preview) keeps    *)
(* the history linear and imports single.                                 *)
LEMMA QueuedKeeps ==
  ASSUME TypeOK, JobsInv, LinearHistory, OneImport, Queued
  PROVE  JobsInv' /\ LinearHistory' /\ OneImport'
<1>1. PICK kind \in Kinds, mode \in {"STREAM", "LEGACY"}, d \in DatasetId, u \in Users,
           n \in 0..MaxVersions : Queues(kind, mode, d, u, n)
  BY DEF Queued
<1> DEFINE new == [kind |-> kind, mode |-> mode, dataset |-> d, by |-> u, source |-> n]
<1>2. /\ created' = created + 1 /\ created' \in JobId /\ created \in Nat
      /\ datasets \in Nat /\ datasets' \in {datasets, datasets + 1}
      /\ current' = current /\ version' = version
      /\ attempts' = attempts /\ result' = result
  BY <1>1, LimitsAssumption DEF Queues, Enqueue, TypeOK, JobTypes, DataTypes
<1>3. \A j \in JobId :
        /\ job'[j] = IF j = created' THEN new ELSE job[j]
        /\ status'[j] = IF j = created' THEN "QUEUED" ELSE status[j]
  BY <1>1, <1>2 DEF Queues, Enqueue, TypeOK, JobTypes
<1>4. 1..created \subseteq JobId /\ 1..created' \subseteq JobId
  BY <1>2, LimitsAssumption DEF JobId
<1>5. \A j \in JobId : job[j].kind \in Kinds
  BY DEF TypeOK, JobTypes, JobRecord
<1>6. LinearHistory'
  BY <1>2, <1>3, <1>4 DEF LinearHistory
<1>7. JobsInv'
  <2>1. ASSUME NEW j \in JobId, j > created'
        PROVE  /\ job'[j] = NoJob /\ status'[j] = "NONE"
               /\ attempts'[j] = 0 /\ result'[j] = 0
    BY <1>2, <1>3, <2>1 DEF JobsInv, JobId
  <2>2. ASSUME NEW j \in 1..created
        PROVE  job'[j] = job[j] /\ status'[j] = status[j] /\ j \in JobId
    BY <1>2, <1>3, <1>4
  <2>3. /\ job'[created'] = new /\ status'[created'] = "QUEUED"
        /\ d \in 1..datasets' /\ (kind = "IMPORT" => n = 0 /\ current[d] = 0)
        /\ (kind = "PREVIEW" => n \in 1..current[d])
    BY <1>1, <1>2, <1>3 DEF Queues
  <2>4. \A dd \in DatasetId : dd > datasets' => current'[dd] = 0
    BY <1>2 DEF JobsInv, DatasetId
  <2>5. ASSUME NEW j \in 1..created'
        PROVE  j = created' \/ j \in 1..created
    BY <1>2
  <2>6. ASSUME NEW j \in 1..created, NEW dd \in 1..datasets
        PROVE  dd \in 1..datasets'
    BY <1>2
  <2> QED
    BY <1>2, <2>1, <2>2, <2>3, <2>4, <2>5, <2>6 DEF JobsInv, Open
<1>8. OneImport'
  <2>1. ASSUME NEW j \in 1..created, job[j].kind = "IMPORT", job[j].dataset = d, kind = "IMPORT"
        PROVE  status[j] \notin Open \cup {"SUCCEEDED"}
    BY <1>1, <2>1 DEF Queues, JobsInv
  <2>2. ASSUME NEW j \in 1..created'
        PROVE  \/ j = created' /\ job'[j] = new
               \/ /\ j \in 1..created
                  /\ job'[j] = job[j] /\ status'[j] = status[j]
    BY <1>2, <1>3, <1>4
  <2>3. ASSUME NEW j \in 1..created', NEW k \in 1..created',
               job'[j].kind = "IMPORT", status'[j] \in Open,
               job'[k].kind = "IMPORT", status'[k] \in Open \cup {"SUCCEEDED"},
               job'[j].dataset = job'[k].dataset
        PROVE  j = k
    BY <2>1, <2>2, <2>3 DEF OneImport, Open
  <2> QED
    BY <2>3 DEF OneImport, Open
<1> QED
  BY <1>6, <1>7, <1>8

(* A claim, cancellation or failure keeps the history linear and imports  *)
(* single.                                                                *)
LEMMA MovedKeeps ==
  ASSUME TypeOK, JobsInv, LinearHistory, OneImport, Moved
  PROVE  JobsInv' /\ LinearHistory' /\ OneImport'
<1>1. PICK i \in JobId, s \in {"RUNNING", "FAILED", "CANCELLED"} : Moves(i, s)
  BY DEF Moved
<1>2. /\ created' = created /\ job' = job /\ result' = result
      /\ datasets' = datasets /\ current' = current /\ version' = version
      /\ created \in 0..TotalLimit
  BY <1>1 DEF Moves, dataVars, TypeOK, JobTypes
<1>3. i \in 1..created
  BY <1>1, CreatedDataset DEF Moves, Open, TypeOK
<1>4. \A j \in JobId : /\ status'[j] = IF j = i THEN s ELSE status[j]
                       /\ j # i => attempts'[j] = attempts[j]
  BY <1>1 DEF Moves, TypeOK, JobTypes
<1>5. 1..created \subseteq JobId
  BY <1>2, LimitsAssumption DEF JobId
<1>6. LinearHistory'
  BY <1>1, <1>2, <1>4, <1>5 DEF LinearHistory, Moves, Open
<1>7. JobsInv'
  BY <1>1, <1>2, <1>3, <1>4, <1>5, LimitsAssumption DEF JobsInv, Moves, Open
<1>8. OneImport'
  BY <1>1, <1>2, <1>3, <1>4, <1>5 DEF OneImport, Moves, Open
<1> QED
  BY <1>6, <1>7, <1>8

(* create_version writes exactly the entry after the dataset's last version. *)
LEMMA CreateVersionEffect ==
  ASSUME DataTypes, NEW d \in DatasetId, NEW j \in JobId, current[d] < MaxVersions,
         CreateVersion(d, j)
  PROVE  /\ current[d] + 1 \in VersionNo
         /\ \A e \in DatasetId :
              current'[e] = IF e = d THEN current[e] + 1 ELSE current[e]
         /\ \A e \in DatasetId, n \in VersionNo :
              version'[e][n] = IF e = d /\ n = current[d] + 1 THEN j ELSE version[e][n]
<1>1. current[d] \in 0..MaxVersions
  BY DEF DataTypes
<1>2. current[d] + 1 \in VersionNo
  BY <1>1, LimitsAssumption DEF VersionNo
<1>3. version' = [version EXCEPT ![d] = [version[d] EXCEPT ![current[d] + 1] = j]]
  BY DEF CreateVersion
<1>4. version[d] \in [VersionNo -> 0..TotalLimit]
  BY DEF DataTypes
<1> QED
  BY <1>2, <1>3, <1>4 DEF CreateVersion, DataTypes

(* Appending a version for j keeps the history linear when j has the right *)
(* source and its row says SUCCEEDED after the step.                       *)
LEMMA AppendKeepsLinear ==
  ASSUME TypeOK, LinearHistory, NEW j \in 1..created,
         created' = created, job' = job,
         \A k \in JobId : status[k] = "SUCCEEDED" => status'[k] = "SUCCEEDED",
         status'[j] = "SUCCEEDED",
         job[j].dataset \in DatasetId,
         current[job[j].dataset] < MaxVersions,
         job[j].source = current[job[j].dataset],
         job[j].kind = (IF current[job[j].dataset] = 0 THEN "IMPORT" ELSE "PREVIEW"),
         CreateVersion(job[j].dataset, j)
  PROVE  LinearHistory'
<1> DEFINE d == job[j].dataset
<1>1. j \in JobId /\ 1..created \subseteq JobId /\ current[d] \in Nat
  BY LimitsAssumption DEF TypeOK, JobTypes, DataTypes, JobId
<1>2. /\ \A e \in DatasetId :
           current'[e] = IF e = d THEN current[e] + 1 ELSE current[e]
      /\ \A e \in DatasetId, n \in VersionNo :
           version'[e][n] = IF e = d /\ n = current[d] + 1 THEN j ELSE version[e][n]
  BY <1>1, CreateVersionEffect DEF TypeOK
<1>3. SUFFICES ASSUME NEW e \in DatasetId, NEW n \in VersionNo
               PROVE  IF n > current'[e]
                      THEN version'[e][n] = 0
                      ELSE /\ version'[e][n] \in 1..created'
                           /\ LET k == version'[e][n]
                              IN  /\ status'[k] = "SUCCEEDED"
                                  /\ job'[k].dataset = e
                                  /\ job'[k].source = n - 1
                                  /\ job'[k].kind = IF n = 1 THEN "IMPORT" ELSE "PREVIEW"
  BY DEF LinearHistory
<1>4. n \in Nat \ {0}
  BY LimitsAssumption DEF VersionNo
<1>5. CASE e = d /\ n = current[d] + 1
  BY <1>1, <1>2, <1>4, <1>5
<1>6. CASE ~(e = d /\ n = current[d] + 1)
  <2>1. version'[e][n] = version[e][n]
    BY <1>2, <1>6
  <2>2. n > current'[e] <=> n > current[e]
    BY <1>1, <1>2, <1>4, <1>6
  <2> QED
    BY <1>1, <2>1, <2>2 DEF LinearHistory
<1> QED
  BY <1>5, <1>6

(* A published result (stream publication, process_one) keeps the history *)
(* linear and imports single.                                             *)
LEMMA SucceededKeeps ==
  ASSUME TypeOK, JobsInv, LinearHistory, OneImport, Succeeded
  PROVE  JobsInv' /\ LinearHistory' /\ OneImport'
<1>1. PICK i \in JobId : Succeeds(i)
  BY DEF Succeeded
<1> DEFINE d == job[i].dataset
<1>2. /\ created' = created /\ job' = job /\ attempts' = attempts
      /\ datasets' = datasets /\ created \in 0..TotalLimit
  BY <1>1 DEF Succeeds, dataVars, CreateVersion, TypeOK, JobTypes
<1>3. i \in 1..created /\ d \in 1..datasets /\ d \in DatasetId
  BY <1>1, CreatedDataset DEF Succeeds, Open, TypeOK
<1>4. \A j \in JobId : /\ status'[j] = IF j = i THEN "SUCCEEDED" ELSE status[j]
                       /\ j # i => result'[j] = result[j]
  BY <1>1 DEF Succeeds, TypeOK, JobTypes
<1>5. 1..created \subseteq JobId /\ \A j \in JobId : job[j].kind \in Kinds
  BY <1>2, LimitsAssumption DEF JobId, TypeOK, JobTypes, JobRecord
<1>6. OneImport'
  BY <1>1, <1>2, <1>3, <1>4, <1>5 DEF OneImport, Succeeds, Open
<1>7. CASE job[i].kind = "IMPORT"
  <2>1. current[d] = 0 /\ job[i].source = 0 /\ CreateVersion(d, i)
    BY <1>1, <1>3, <1>7 DEF Succeeds, JobsInv
  <2>2. LinearHistory'
    BY <1>2, <1>3, <1>4, <1>7, <2>1, AppendKeepsLinear, LimitsAssumption
  <2>3. /\ \A e \in DatasetId :
             current'[e] = IF e = d THEN 1 ELSE current[e]
        /\ \A e \in DatasetId, n \in VersionNo :
             version'[e][n] = IF e = d /\ n = 1 THEN i ELSE version[e][n]
    BY <1>3, <2>1, CreateVersionEffect, LimitsAssumption DEF TypeOK
  <2>4. 1 \in VersionNo
    BY LimitsAssumption DEF VersionNo
  <2>5. ASSUME NEW j \in 1..created, j # i, job[j].kind = "IMPORT", job[j].dataset = d
        PROVE  status[j] \notin Open \cup {"SUCCEEDED"}
    BY <1>1, <1>3, <1>7, <2>5 DEF OneImport, Succeeds, Open
  <2>6. ASSUME NEW j \in 1..created, job[j].kind = "PREVIEW"
        PROVE  job[j].dataset # d
    BY <1>3, <2>1, <2>6, LimitsAssumption DEF JobsInv
  <2>7. \A j \in JobId : j > created => j # i
    BY <1>2, <1>3
  <2>8. ASSUME NEW j \in 1..created
        PROVE  /\ job[j].dataset \in 1..datasets /\ job[j].dataset \in DatasetId
               /\ status[j] # "NONE" /\ job[j].by \in Users
               /\ status[j] = "RUNNING" => job[j].mode = "STREAM"
               /\ job[j].kind = "IMPORT" => job[j].source = 0
    BY <1>5, CreatedDataset DEF JobsInv, TypeOK
  <2>9. ASSUME NEW j \in 1..created
        PROVE  /\ job[j].kind = "IMPORT"
                  => /\ status'[j] \in Open => current'[job[j].dataset] = 0
                     /\ status'[j] = "SUCCEEDED"
                        => /\ current'[job[j].dataset] > 0
                           /\ version'[job[j].dataset][1] = j
               /\ job[j].kind = "PREVIEW"
                  => job[j].source \in 1..current'[job[j].dataset]
    <3>1. CASE j = i
      BY <1>3, <1>4, <1>7, <2>3, <2>4, <3>1 DEF Open
    <3>2. CASE j # i /\ job[j].kind = "IMPORT"
      BY <1>4, <1>5, <2>3, <2>4, <2>5, <2>8, <3>2 DEF JobsInv, Open
    <3>3. CASE job[j].kind = "PREVIEW"
      BY <2>3, <2>6, <2>8, <3>3 DEF JobsInv
    <3> QED
      BY <1>5, <3>1, <3>2, <3>3 DEF Kinds
  <2>10. \A j \in JobId : j > created' => /\ job'[j] = NoJob /\ status'[j] = "NONE"
                                        /\ attempts'[j] = 0 /\ result'[j] = 0
    BY <1>2, <1>4, <2>7 DEF JobsInv
  <2>11. \A j \in 1..created' : /\ status'[j] # "NONE"
                                /\ status'[j] = "RUNNING" => job'[j].mode = "STREAM"
    BY <1>2, <1>4, <1>5, <2>8
  <2>12. \A e \in DatasetId : e > datasets' => current'[e] = 0
    BY <1>2, <1>3, <2>3 DEF JobsInv, TypeOK, DataTypes
  <2>13. JobsInv'
    BY <1>2, <2>8, <2>9, <2>10, <2>11, <2>12 DEF JobsInv
  <2> QED
    BY <1>6, <2>2, <2>13
<1>8. CASE job[i].kind # "IMPORT"
  <2>1. current' = current /\ version' = version
    BY <1>1, <1>8 DEF Succeeds, dataVars
  <2>2. LinearHistory'
    BY <1>2, <1>4, <1>5, <2>1 DEF LinearHistory
  <2>3. JobsInv'
    BY <1>1, <1>2, <1>3, <1>4, <1>5, <1>8, <2>1, LimitsAssumption DEF JobsInv, Succeeds, Open
  <2> QED
    BY <1>6, <2>2, <2>3
<1> QED
  BY <1>7, <1>8

(* A confirmed preview (commit_preview) keeps the history linear and      *)
(* imports single.                                                        *)
LEMMA ConfirmedKeeps ==
  ASSUME TypeOK, JobsInv, LinearHistory, OneImport, Confirmed
  PROVE  JobsInv' /\ LinearHistory' /\ OneImport'
<1>1. PICK i \in JobId : Confirms(i)
  BY DEF Confirmed
<1> DEFINE d == job[i].dataset
<1>2. /\ created' = created /\ job' = job /\ attempts' = attempts /\ result' = result
      /\ datasets' = datasets /\ status' = status /\ created \in 0..TotalLimit
  BY <1>1 DEF Confirms, CreateVersion, TypeOK, JobTypes
<1>3. i \in 1..created /\ d \in 1..datasets /\ d \in DatasetId
  BY <1>1, CreatedDataset DEF Confirms, TypeOK
<1>4. /\ current[d] < MaxVersions /\ job[i].source = current[d]
      /\ current[d] \in Nat /\ current[d] > 0 /\ CreateVersion(d, i)
  BY <1>1, <1>3, LimitsAssumption DEF Confirms, Confirmable, JobsInv, TypeOK, DataTypes
<1>5. LinearHistory'
  BY <1>1, <1>2, <1>3, <1>4, AppendKeepsLinear DEF Confirms
<1>6. OneImport'
  BY <1>2 DEF OneImport
<1>7. JobsInv'
  <2>1. /\ \A e \in DatasetId :
             current'[e] = IF e = d THEN current[e] + 1 ELSE current[e]
        /\ \A e \in DatasetId, n \in VersionNo :
             version'[e][n] = IF e = d /\ n = current[d] + 1 THEN i ELSE version[e][n]
    BY <1>3, <1>4, CreateVersionEffect DEF TypeOK
  <2>2. 1 \in VersionNo
    BY LimitsAssumption DEF VersionNo
  <2>3. ASSUME NEW j \in 1..created
        PROVE  /\ job[j].dataset \in DatasetId /\ j \in JobId
               /\ current[job[j].dataset] \in Nat
    BY <1>2, CreatedDataset, LimitsAssumption DEF JobsInv, TypeOK, DataTypes, JobId
  <2>4. ASSUME NEW j \in 1..created
        PROVE  /\ job[j].kind = "IMPORT"
                  => /\ status[j] \in Open => current'[job[j].dataset] = 0
                     /\ status[j] = "SUCCEEDED"
                        => /\ current'[job[j].dataset] > 0
                           /\ version'[job[j].dataset][1] = j
               /\ job[j].kind = "PREVIEW"
                  => job[j].source \in 1..current'[job[j].dataset]
    <3>1. CASE job[j].dataset = d
      BY <1>4, <2>1, <2>2, <2>3, <3>1 DEF JobsInv
    <3>2. CASE job[j].dataset # d
      BY <2>1, <2>2, <2>3, <3>2 DEF JobsInv
    <3> QED
      BY <3>1, <3>2
  <2>5. \A e \in DatasetId : e > datasets' => current'[e] = 0
    BY <1>2, <1>3, <2>1 DEF JobsInv, TypeOK, DataTypes
  <2> QED
    BY <1>2, <2>4, <2>5 DEF JobsInv
<1> QED
  BY <1>5, <1>6, <1>7

(* No step breaks the linear history or the single import of a dataset.   *)
LEMMA FormsKeep ==
  ASSUME TypeOK, JobsInv, LinearHistory, OneImport, RunsInv, [Next]_vars
  PROVE  JobsInv' /\ LinearHistory' /\ OneImport'
BY FormOfStep, QuietKeeps, QueuedKeeps, MovedKeeps, SucceededKeeps, ConfirmedKeeps

(* Rows are never rewritten: what a job was created with stays, attempts   *)
(* only grow, and a finished job keeps status, result and attempts.        *)
LEMMA RowsStay ==
  ASSUME TypeOK, JobsInv, LinearHistory, RunsInv, [Next]_vars
  PROVE  /\ 1..created \subseteq 1..created'
         /\ \A j \in 1..created : job'[j] = job[j]
         /\ \A j \in JobId : attempts[j] <= attempts'[j]
         /\ \A j \in JobId : status[j] \in Final
              => status'[j] = status[j] /\ result'[j] = result[j] /\ attempts'[j] = attempts[j]
<1>1. created \in Nat /\ 1..created \subseteq JobId
  BY LimitsAssumption DEF TypeOK, JobTypes, JobId
<1>2. \A j \in JobId : attempts[j] \in Nat
  BY LimitsAssumption DEF TypeOK, JobTypes
<1>3. CASE Quiet \/ Confirmed
  BY <1>1, <1>2, <1>3 DEF Quiet, Confirmed, Confirms
<1>4. CASE Queued
  <2>1. PICK kind \in Kinds, mode \in {"STREAM", "LEGACY"}, d \in DatasetId, u \in Users,
             n \in 0..MaxVersions : Queues(kind, mode, d, u, n)
    BY <1>4 DEF Queued
  <2>2. status[created + 1] = "NONE"
    BY <1>1, <2>1 DEF Queues, JobsInv
  <2> QED
    BY <1>1, <1>2, <2>1, <2>2 DEF Queues, Enqueue, TypeOK, JobTypes, Final
<1>5. CASE Moved
  BY <1>1, <1>2, <1>5 DEF Moved, Moves, TypeOK, JobTypes, Open, Final
<1>6. CASE Succeeded
  BY <1>1, <1>2, <1>6 DEF Succeeded, Succeeds, TypeOK, JobTypes, Open, Final
<1> QED
  BY <1>3, <1>4, <1>5, <1>6, FormOfStep
-------------------------------------------------------------------------------
(***************************************************************************)
(* What a step can do to the runs and their parts.                         *)
(***************************************************************************)

NoNewResult ==
  /\ result' = result
  /\ \A j \in JobId :
       status'[j] = "SUCCEEDED" => status[j] = "SUCCEEDED" \/ job[j].mode = "LEGACY"

Still == UNCHANGED <<pc, run, object, crashed>> /\ NoNewResult

MoveOk(w, to) ==
  \/ to \in {"failed", "cleanup"}
  \/ pc[w] = "start" /\ to = "build"
  \/ pc[w] = "build" /\ to = "save"
  \/ pc[w] = "save" /\ to = "create"
  \/ pc[w] = "store" /\ to = IF run[w].staged = Part THEN "confirm" ELSE "save"
  \/ pc[w] = "confirm" /\ to = "publish"

PcMove(w) ==
  /\ \E to \in Steps \ {"idle"} : Goto(w, to) /\ MoveOk(w, to)
  /\ pc[w] \notin {"idle", "cleanup"}
  /\ UNCHANGED <<run, object, crashed>>

PartStep(w) == CreateObject(w) \/ CleanPart(w) \/ EndRun(w) \/ Crash(w)

(* A request of a member disturbs no run and no staged part.              *)
LEMMA MemberStill ==
  ASSUME TypeOK, MemberStep PROVE Still
<1>1. ASSUME NEW u \in Users, NEW m \in {"STREAM", "LEGACY"}, ImportDataset(u, m) PROVE Still
  <2>1. created + 1 \in JobId
    BY <1>1, LimitsAssumption DEF ImportDataset, QuotaFree, TypeOK, JobTypes, JobId
  <2> QED
    BY <1>1, <2>1 DEF ImportDataset, Enqueue, Still, NoNewResult, workVars, TypeOK, JobTypes
<1>2. ASSUME NEW u \in Users, NEW d \in DatasetId, RetryImport(u, d) PROVE Still
  <2>1. created + 1 \in JobId
    BY <1>2, LimitsAssumption DEF RetryImport, QuotaFree, TypeOK, JobTypes, JobId
  <2> QED
    BY <1>2, <2>1 DEF RetryImport, Enqueue, Still, NoNewResult, workVars, TypeOK, JobTypes
<1>3. ASSUME NEW u \in Users, NEW d \in DatasetId, NEW n \in VersionNo, Preview(u, d, n)
      PROVE  Still
  <2>1. created + 1 \in JobId
    BY <1>3, LimitsAssumption DEF Preview, QuotaFree, TypeOK, JobTypes, JobId
  <2> QED
    BY <1>3, <2>1 DEF Preview, Enqueue, Still, NoNewResult, workVars, TypeOK, JobTypes
<1>4. ASSUME NEW u \in Users, NEW j \in JobId, NEW n \in VersionNo, Commit(u, j, n)
      PROVE  Still
  BY <1>4 DEF Commit, Still, NoNewResult, workVars, jobVars
<1>5. ASSUME NEW u \in Users, NEW j \in JobId, CancelJob(u, j) PROVE Still
  BY <1>5 DEF CancelJob, Still, NoNewResult, workVars, TypeOK, JobTypes
<1>6. ASSUME NEW u \in Users, ChangeRights(u) PROVE Still
  BY <1>6 DEF ChangeRights, Still, NoNewResult, workVars, jobVars
<1> QED
  BY <1>1, <1>2, <1>3, <1>4, <1>5, <1>6 DEF MemberStep, Upload, CompleteUpload

(* A worker step moves one run, claims an attempt for it, or ends it.     *)
LEMMA FormOfRunStep ==
  ASSUME TypeOK, RunsInv, [Next]_vars
  PROVE  \/ Still
         \/ \E w \in Workers :
              \/ \E j \in JobId : Claim(w, j)
              \/ Publish(w)
              \/ (PcMove(w) \/ PartStep(w)) /\ NoNewResult
<1>1. Tick \/ UNCHANGED vars => Still
  BY DEF Tick, vars, jobVars, workVars, Still, NoNewResult
<1>2. ASSUME NEW w \in Workers, WorkerStep(w)
      PROVE  \/ Still
             \/ \E j \in JobId : Claim(w, j)
             \/ Publish(w)
             \/ (PcMove(w) \/ PartStep(w)) /\ NoNewResult
  <2>1. ASSUME NEW j \in JobId, GiveUp(w, j) \/ LegacyFails(w, j) PROVE Still
    BY <2>1 DEF GiveUp, LegacyFails, Still, NoNewResult, workVars, TypeOK, JobTypes
  <2>2. ASSUME NEW j \in JobId, LegacySucceeds(w, j) PROVE Still
    BY <2>2 DEF LegacySucceeds, Oldest, LegacyJobs, Still, NoNewResult, workVars, TypeOK,
                JobTypes
  <2>3. Heartbeat(w) => Still
    BY DEF Heartbeat, Renew, Still, NoNewResult
  <2>4. PartStep(w) => NoNewResult
    BY DEF PartStep, CreateObject, CleanPart, EndRun, Crash, jobVars, NoNewResult
  <2>5. ASSUME LoseLease(w) \/ Denied(w) \/ EndBuild(w) \/ EndStore(w) \/ Abort(w)
        PROVE  PcMove(w) /\ NoNewResult
    <3>1. UNCHANGED <<run, object, crashed>> /\ NoNewResult
      BY <2>5 DEF LoseLease, Denied, EndBuild, EndStore, Abort, unchangedButPc, jobVars,
                  NoNewResult
    <3>2. \E to \in Steps \ {"idle"} : Goto(w, to) /\ MoveOk(w, to)
      BY <2>5 DEF LoseLease, Denied, EndBuild, EndStore, Abort, Steps, MoveOk
    <3>3. pc[w] \notin {"idle", "cleanup"}
      BY <2>5 DEF LoseLease, Denied, EndBuild, EndStore, Abort, Beats
    <3> QED
      BY <3>1, <3>2, <3>3 DEF PcMove
  <2>6. ASSUME \/ BeatThen(w, "start", "build") \/ BeatThen(w, "save", "create")
               \/ BeatThen(w, "confirm", "publish")
        PROVE  PcMove(w) /\ NoNewResult
    BY <2>6 DEF BeatThen, Renew, PcMove, MoveOk, NoNewResult, Steps
  <2>7. ASSUME ReportFailure(w) PROVE PcMove(w) /\ NoNewResult
    <3>1. NoNewResult
      BY <2>7 DEF ReportFailure, NoNewResult, TypeOK, JobTypes
    <3> QED
      BY <2>7, <3>1 DEF ReportFailure, PcMove, MoveOk, Steps
  <2> QED
    BY <1>2, <2>1, <2>2, <2>3, <2>4, <2>5, <2>6, <2>7 DEF WorkerStep, Advance, PartStep
<1> QED
  BY <1>1, <1>2, MemberStill DEF Next

(* No step lets two runs work on the same attempt (claim in               *)
(* process_stream_job).                                                   *)
LEMMA RunsStep ==
  ASSUME TypeOK, JobsInv, LinearHistory, RunsInv, [Next]_vars
  PROVE  RunsInv'
<1>1. /\ \A j \in 1..created : j \in 1..created' /\ job'[j] = job[j]
      /\ \A j \in JobId : attempts[j] <= attempts'[j]
      /\ \A j \in JobId : attempts[j] \in Nat /\ attempts'[j] \in Nat
  BY RowsStay, TypeStep, LimitsAssumption DEF TypeOK, JobTypes
<1>2. ASSUME NEW w \in Workers, pc[w] # "idle"
      PROVE  /\ run[w].job \in 1..created'
             /\ job'[run[w].job].mode = "STREAM"
             /\ run[w].attempt \in 1..attempts'[run[w].job]
  BY <1>1, <1>2, RunInDomain DEF RunsInv
<1>3. CASE Still
  BY <1>2, <1>3 DEF Still, RunsInv
<1>4. ASSUME NEW w \in Workers, NEW j \in JobId, Claim(w, j) PROVE RunsInv'
  <2>1. /\ j \in 1..created /\ job[j].mode = "STREAM"
        /\ attempts'[j] = attempts[j] + 1
    BY <1>4, CreatedDataset DEF Claim, Oldest, ClaimableJobs, Claimable, TypeOK, JobTypes
  <2>2. \A v \in Workers : v # w /\ pc[v] # "idle" /\ run[v].job = j
                           => run[v].attempt # attempts[j] + 1
    BY <1>1 DEF RunsInv
  <2>3. \A v \in Workers :
          /\ pc'[v] = IF v = w THEN "start" ELSE pc[v]
          /\ run'[v] = IF v = w THEN [job |-> j, attempt |-> attempts[j] + 1, staged |-> {}]
                       ELSE run[v]
    BY <1>4 DEF Claim, TypeOK, RunTypes
  <2> QED
    BY <1>1, <1>2, <2>1, <2>2, <2>3 DEF RunsInv
<1>5. ASSUME NEW w \in Workers, EndRun(w) \/ Crash(w) PROVE RunsInv'
  <2>1. \A v \in Workers : /\ pc'[v] = IF v = w THEN "idle" ELSE pc[v]
                           /\ run'[v] = IF v = w THEN NoRun ELSE run[v]
    BY <1>5 DEF EndRun, Crash, Goto, TypeOK, RunTypes
  <2> QED
    BY <1>2, <2>1 DEF RunsInv
<1>6. ASSUME NEW w \in Workers,
             PcMove(w) \/ CreateObject(w) \/ CleanPart(w) \/ Publish(w)
      PROVE  RunsInv'
  <2>1. pc[w] # "idle" /\ pc'[w] # "idle" /\ \A v \in Workers : v # w => pc'[v] = pc[v]
    BY <1>6 DEF PcMove, CreateObject, CleanPart, Publish, Goto, TypeOK, RunTypes
  <2>2. \A v \in Workers : /\ run'[v].job = run[v].job /\ run'[v].attempt = run[v].attempt
                           /\ v # w => run'[v] = run[v]
    BY <1>6 DEF PcMove, CreateObject, CleanPart, Publish, TypeOK, RunTypes, RunRecord
  <2> QED
    BY <1>2, <2>1, <2>2 DEF RunsInv
<1> QED
  BY <1>3, <1>4, <1>5, <1>6, FormOfRunStep DEF PartStep

(* No step breaks the correspondence of a run's position and the parts it *)
(* has staged (save in process_stream_job).                               *)
LEMMA StagedStep ==
  ASSUME TypeOK, RunsInv, StagedInv, [Next]_vars
  PROVE  StagedInv'
<1>1. CASE Still
  BY <1>1 DEF Still, StagedInv
<1>2. ASSUME NEW w \in Workers, NEW j \in JobId, Claim(w, j) PROVE StagedInv'
  BY <1>2 DEF Claim, StagedInv, TypeOK, RunTypes
<1>3. ASSUME NEW w \in Workers, EndRun(w) \/ Crash(w) \/ CleanPart(w) \/ Publish(w)
      PROVE  StagedInv'
  <2>1. /\ pc'[w] \in {"idle", "cleanup"}
        /\ \A v \in Workers : v # w => pc'[v] = pc[v] /\ run'[v] = run[v]
    BY <1>3 DEF EndRun, Crash, CleanPart, Publish, Goto, TypeOK, RunTypes
  <2> QED
    BY <2>1 DEF StagedInv
<1>4. ASSUME NEW w \in Workers, PcMove(w) PROVE StagedInv'
  <2>1. PICK to \in Steps \ {"idle"} : Goto(w, to) /\ MoveOk(w, to)
    BY <1>4 DEF PcMove
  <2>2. \A v \in Workers : run'[v] = run[v] /\ pc'[v] = IF v = w THEN to ELSE pc[v]
    BY <1>4, <2>1 DEF PcMove, Goto, TypeOK, RunTypes
  <2> QED
    BY <2>1, <2>2 DEF StagedInv, MoveOk, Part
<1>5. ASSUME NEW w \in Workers, CreateObject(w) PROVE StagedInv'
  <2>1. \A v \in Workers :
          /\ pc'[v] = IF v = w THEN "store" ELSE pc[v]
          /\ v # w => run'[v] = run[v]
          /\ run'[w].staged = run[w].staged \cup {NextPart(w)}
    BY <1>5 DEF CreateObject, Goto, TypeOK, RunTypes, RunRecord
  <2>2. run'[w].staged \in {{"rows"}, Part}
    BY <1>5, <2>1 DEF CreateObject, NextPart, StagedInv, Part
  <2> QED
    BY <2>1, <2>2 DEF StagedInv
<1> QED
  BY <1>1, <1>2, <1>3, <1>4, <1>5, FormOfRunStep DEF PartStep

SetsPart(i, b, q, x) == object' = [object EXCEPT ![i][b][q] = x]

(* The effect of writing one part: all others keep their status. *)
LEMMA ObjectEffect ==
  ASSUME RunTypes, NEW i \in JobId, NEW b \in Attempt, NEW q \in Part, NEW x,
         SetsPart(i, b, q, x)
  PROVE  \A j \in JobId, a \in Attempt, p \in Part :
           object'[j][a][p] = IF j = i /\ a = b /\ p = q THEN x ELSE object[j][a][p]
<1> USE DEF SetsPart
<1> DEFINE old == object[i][b]
           new == [old EXCEPT ![q] = x]
<1>1. old \in [Part -> ObjectStatuses] /\ object[i] \in [Attempt -> [Part -> ObjectStatuses]]
  BY DEF RunTypes
<1>2. \A p \in Part : new[p] = IF p = q THEN x ELSE old[p]
  BY <1>1
<1>3. object' = [object EXCEPT ![i] = [object[i] EXCEPT ![b] = new]]
  OBVIOUS
<1>4. \A a \in Attempt : object'[i][a] = IF a = b THEN new ELSE object[i][a]
  BY <1>1, <1>3 DEF RunTypes
<1>5. \A j \in JobId : j # i => object'[j] = object[j]
  BY <1>3 DEF RunTypes
<1> QED
  BY <1>2, <1>4, <1>5

(* No two runs work on the same attempt, so a run disturbs no other's parts. *)
LEMMA OtherRun ==
  ASSUME TypeOK, RunsInv, NEW v \in Workers, NEW w \in Workers, v # w,
         pc[v] # "idle", pc[w] # "idle"
  PROVE  ~(run[v].job = run[w].job /\ run[v].attempt = run[w].attempt)
BY DEF RunsInv

PartsKeep == PartsInv' /\ ResultsSealed' /\ PartsAccounted'

Base == /\ TypeOK /\ JobsInv /\ LinearHistory /\ RunsInv /\ StagedInv
        /\ PartsInv /\ ResultsSealed /\ PartsAccounted

Rows ==
  \A j \in JobId :
    /\ attempts[j] \in Nat /\ attempts'[j] \in Nat
    /\ attempts[j] <= attempts'[j]
    /\ result'[j] = result[j]
    /\ status[j] = "SUCCEEDED" => status'[j] = "SUCCEEDED" /\ attempts'[j] = attempts[j]
    /\ status'[j] = "SUCCEEDED" /\ job'[j].mode = "STREAM"
       => status[j] = "SUCCEEDED" /\ job[j].mode = "STREAM"

(* Facts about rows in the form the lemmas on parts use them. *)
LEMMA RowFacts ==
  ASSUME TypeOK, JobsInv, LinearHistory, RunsInv, [Next]_vars, NoNewResult
  PROVE  Rows
<1>1. /\ created \in Nat /\ \A j \in JobId : j \in Nat /\ j > 0
      /\ \A j \in JobId : attempts[j] \in Nat /\ attempts'[j] \in Nat
  <2>1. TypeOK'
    BY TypeStep
  <2> QED
    BY <2>1, LimitsAssumption DEF TypeOK, JobTypes, JobId
<1>2. \A j \in JobId : j \notin 1..created => status[j] = "NONE" /\ job[j].mode = "LEGACY"
  BY <1>1 DEF JobsInv, NoJob
<1>3. \A j \in JobId : status'[j] = "SUCCEEDED" => j \in 1..created
  <2>1. ASSUME NEW j \in JobId, j \notin 1..created PROVE status'[j] # "SUCCEEDED"
    <3>1. CASE Quiet \/ Confirmed \/ Moved \/ Succeeded
      BY <1>2, <2>1, <3>1
      DEF Quiet, Confirmed, Confirms, Moved, Moves, Succeeded, Succeeds, Open, TypeOK, JobTypes
    <3>2. CASE Queued
      BY <1>2, <2>1, <3>2 DEF Queued, Queues, Enqueue, TypeOK, JobTypes
    <3> QED
      BY <3>1, <3>2, FormOfStep
  <2> QED
    BY <2>1
<1> QED
  <2>1. /\ \A j \in 1..created : job'[j] = job[j]
        /\ \A j \in JobId : attempts[j] <= attempts'[j]
        /\ \A j \in JobId : status[j] \in Final
              => status'[j] = status[j] /\ result'[j] = result[j] /\ attempts'[j] = attempts[j]
    BY RowsStay
  <2> QED
    BY <1>1, <1>2, <1>3, <2>1 DEF NoNewResult, Final, Rows

(* A step that touches neither runs nor objects keeps the parts accounted *)
(* for and sealed with their job.                                         *)
LEMMA StillParts ==
  ASSUME Base, [Next]_vars, Still PROVE PartsKeep
<1>0. Rows
  BY RowFacts DEF Base, Still
<1>1. PartsInv'
  BY <1>0, LimitsAssumption DEF Rows, Base, Still, PartsInv, Attempt
<1>2. ResultsSealed'
  BY <1>0 DEF Rows, Base, Still, ResultsSealed
<1>3. PartsAccounted'
  BY DEF Base, Still, PartsAccounted
<1> QED
  BY <1>1, <1>2, <1>3 DEF PartsKeep

(* A step that only moves a run keeps the parts accounted for and sealed  *)
(* with their job.                                                        *)
LEMMA MoveParts ==
  ASSUME Base, [Next]_vars, NEW w \in Workers, PcMove(w), NoNewResult PROVE PartsKeep
<1>1. PICK to \in Steps \ {"idle"} : Goto(w, to)
  BY DEF PcMove
<1>2. /\ \A v \in Workers : pc'[v] = IF v = w THEN to ELSE pc[v]
      /\ run' = run /\ object' = object /\ crashed' = crashed
      /\ pc[w] \notin {"idle", "cleanup"}
  BY <1>1 DEF PcMove, Goto, Base, TypeOK, RunTypes
<1>0. Rows
  BY RowFacts DEF Base
<1>3. PartsInv'
  BY <1>0, <1>1, <1>2, LimitsAssumption DEF Rows, Base, PartsInv, Attempt
<1>4. ResultsSealed'
  BY <1>0, <1>2 DEF Rows, Base, ResultsSealed
<1>5. PartsAccounted'
  BY <1>2 DEF Base, PartsAccounted
<1> QED
  BY <1>3, <1>4, <1>5 DEF PartsKeep

(* A claim starts with no part of its own, so the earlier attempts' parts *)
(* keep their status.                                                     *)
LEMMA ClaimParts ==
  ASSUME Base, [Next]_vars, NEW w \in Workers, NEW i \in JobId, Claim(w, i) PROVE PartsKeep
<1>1. /\ \A v \in Workers :
          /\ pc'[v] = IF v = w THEN "start" ELSE pc[v]
          /\ run'[v] = IF v = w THEN [job |-> i, attempt |-> attempts[i] + 1, staged |-> {}]
                       ELSE run[v]
      /\ object' = object /\ crashed' = crashed /\ pc[w] = "idle"
      /\ attempts[i] + 1 \in Attempt
  BY LimitsAssumption DEF Claim, Base, TypeOK, RunTypes, JobTypes, Attempt
<1>2. NoNewResult
  BY DEF Claim, NoNewResult, Base, TypeOK, JobTypes
<1>3. \A p \in Part : object[i][attempts[i] + 1][p] = "NONE"
  BY <1>1, LimitsAssumption DEF Base, PartsInv, TypeOK, JobTypes
<1>0. Rows
  BY <1>2, RowFacts DEF Base
<1>4. PartsInv'
  BY <1>0, <1>1, <1>3, LimitsAssumption DEF Rows, Base, PartsInv, Attempt
<1>5. ResultsSealed'
  BY <1>0, <1>1 DEF Rows, Base, ResultsSealed
<1>6. PartsAccounted'
  BY <1>1 DEF Base, PartsAccounted, RunsInv, NoRun
<1> QED
  BY <1>4, <1>5, <1>6 DEF PartsKeep

(* new_object leaves one more open part, owned by the run that created    *)
(* it.                                                                    *)
LEMMA CreateParts ==
  ASSUME Base, [Next]_vars, NEW w \in Workers, CreateObject(w) PROVE PartsKeep
<1> DEFINE i == run[w].job
           b == run[w].attempt
           q == NextPart(w)
<1>1. /\ i \in JobId /\ b \in Attempt /\ b <= attempts[i] /\ q \in Part
      /\ pc[w] = "create"
  BY RunInDomain DEF CreateObject, Base, NextPart, Part
<1>2. /\ \A v \in Workers :
          /\ pc'[v] = IF v = w THEN "store" ELSE pc[v]
          /\ v # w => run'[v] = run[v]
      /\ run'[w].job = i /\ run'[w].attempt = b /\ run'[w].staged = run[w].staged \cup {q}
      /\ crashed' = crashed
  BY DEF CreateObject, Goto, Base, TypeOK, RunTypes, RunRecord
<1>3. \A j \in JobId, a \in Attempt, p \in Part :
        object'[j][a][p] = IF j = i /\ a = b /\ p = q THEN "OPEN" ELSE object[j][a][p]
  <2>1. RunTypes /\ SetsPart(i, b, q, "OPEN")
    BY DEF CreateObject, Base, TypeOK, SetsPart
  <2> QED
    BY <1>1, <2>1, ObjectEffect
<1>4. q \notin run[w].staged /\ object[i][b][q] = "NONE"
  BY <1>1 DEF Base, StagedInv, PartsInv, NextPart, Part
<1>5. NoNewResult
  BY DEF CreateObject, jobVars, NoNewResult
<1>0. Rows
  BY <1>5, RowFacts DEF Base
<1>6. \A v \in Workers : v # w /\ pc[v] # "idle"
                         => /\ ~(run[v].job = i /\ run[v].attempt = b)
                            /\ run[v].job \in JobId /\ run[v].attempt \in Attempt
  BY <1>1, OtherRun, RunInDomain DEF Base
<1>7. PartsInv'
  <2>1. \A j \in JobId, a \in Attempt, p \in Part :
          a > attempts'[j] => object'[j][a][p] = "NONE"
    BY <1>0, <1>1, <1>3, LimitsAssumption DEF Rows, Base, PartsInv, Attempt
  <2>2. ASSUME NEW v \in Workers, NEW p \in Part
        PROVE  /\ pc'[v] \notin {"idle", "cleanup"}
                  => object'[run'[v].job][run'[v].attempt][p] =
                       IF p \in run'[v].staged THEN "OPEN" ELSE "NONE"
               /\ pc'[v] = "cleanup" /\ p \in run'[v].staged
                  => object'[run'[v].job][run'[v].attempt][p] \in {"OPEN", "SEALED"}
    <3>1. CASE v = w
      BY <1>1, <1>2, <1>3, <3>1 DEF Base, PartsInv
    <3>2. CASE v # w
      <4>1. pc'[v] = pc[v] /\ run'[v] = run[v]
        BY <1>2, <3>2
      <4>2. pc[v] # "idle" => object'[run[v].job][run[v].attempt][p]
                              = object[run[v].job][run[v].attempt][p]
        BY <1>3, <1>6, <3>2
      <4> QED
        BY <4>1, <4>2 DEF Base, PartsInv
    <3> QED
      BY <3>1, <3>2
  <2>3. \A j \in JobId : result'[j] # 0 => status'[j] = "SUCCEEDED"
    BY <1>0 DEF Rows, Base, PartsInv
  <2> QED
    BY <2>1, <2>2, <2>3 DEF PartsInv
<1>8. ResultsSealed'
  BY <1>0, <1>3, <1>4 DEF Rows, Base, ResultsSealed
<1>9. PartsAccounted'
  BY <1>1, <1>2, <1>3 DEF Base, PartsAccounted
<1> QED
  BY <1>7, <1>8, <1>9 DEF PartsKeep

(* A round of the finally block cancels a part of its own run only, and   *)
(* never a sealed one.                                                    *)
LEMMA CleanParts ==
  ASSUME Base, [Next]_vars, NEW w \in Workers, CleanPart(w) PROVE PartsKeep
<1> DEFINE i == run[w].job
           b == run[w].attempt
           q == IF "rows" \in run[w].staged THEN "rows" ELSE "export"
           x == Discarded(object[i][b][q])
<1>1. /\ i \in JobId /\ b \in Attempt /\ b <= attempts[i] /\ q \in Part
      /\ pc[w] = "cleanup" /\ q \in run[w].staged
  BY RunInDomain DEF CleanPart, Base, Part
<1>2. /\ \A v \in Workers : v # w => run'[v] = run[v]
      /\ run'[w].job = i /\ run'[w].attempt = b /\ run'[w].staged = run[w].staged \ {q}
      /\ crashed' = crashed /\ pc' = pc
  BY DEF CleanPart, Base, TypeOK, RunTypes, RunRecord
<1>3. \A j \in JobId, a \in Attempt, p \in Part :
        object'[j][a][p] = IF j = i /\ a = b /\ p = q THEN x ELSE object[j][a][p]
  <2>1. RunTypes /\ SetsPart(i, b, q, x)
    BY DEF CleanPart, Base, TypeOK, SetsPart
  <2> QED
    BY <1>1, <2>1, ObjectEffect
<1>4. /\ object[i][b][q] \in {"OPEN", "SEALED"}
      /\ object[i][b][q] = "SEALED" => x = "SEALED"
      /\ object[i][b][q] = "OPEN" => x = "CANCELLED"
  BY <1>1 DEF Base, PartsInv, Discarded
<1>5. NoNewResult
  BY DEF CleanPart, jobVars, NoNewResult
<1>0. Rows
  BY <1>5, RowFacts DEF Base
<1>6. \A v \in Workers : v # w /\ pc[v] # "idle"
                         => /\ ~(run[v].job = i /\ run[v].attempt = b)
                            /\ run[v].job \in JobId /\ run[v].attempt \in Attempt
  BY <1>1, OtherRun, RunInDomain DEF Base
<1> HIDE DEF x, q
<1>7. PartsInv'
  <2>1. \A j \in JobId, a \in Attempt, p \in Part :
          a > attempts'[j] => object'[j][a][p] = "NONE"
    BY <1>0, <1>1, <1>3, LimitsAssumption DEF Rows, Base, PartsInv, Attempt
  <2>2. ASSUME NEW v \in Workers, NEW p \in Part
        PROVE  /\ pc'[v] \notin {"idle", "cleanup"}
                  => object'[run'[v].job][run'[v].attempt][p] =
                       IF p \in run'[v].staged THEN "OPEN" ELSE "NONE"
               /\ pc'[v] = "cleanup" /\ p \in run'[v].staged
                  => object'[run'[v].job][run'[v].attempt][p] \in {"OPEN", "SEALED"}
    <3>1. CASE v = w
      BY <1>1, <1>2, <1>3, <3>1, SMTT(30) DEF Base, PartsInv
    <3>2. CASE v # w
      <4>1. pc'[v] = pc[v] /\ run'[v] = run[v]
        BY <1>2, <3>2
      <4>2. pc[v] # "idle" => object'[run[v].job][run[v].attempt][p]
                              = object[run[v].job][run[v].attempt][p]
        BY <1>3, <1>6, <3>2
      <4> QED
        BY <4>1, <4>2 DEF Base, PartsInv
    <3> QED
      BY <3>1, <3>2
  <2>3. \A j \in JobId : result'[j] # 0 => status'[j] = "SUCCEEDED"
    BY <1>0 DEF Rows, Base, PartsInv
  <2> QED
    BY <2>1, <2>2, <2>3 DEF PartsInv
<1>8. ResultsSealed'
  <2>1. \A j \in JobId, a \in Attempt, p \in Part :
          (object[j][a][p] = "SEALED") = (object'[j][a][p] = "SEALED")
    BY <1>1, <1>3, <1>4
  <2> QED
    BY <1>0, <2>1 DEF Rows, Base, ResultsSealed
<1>9. PartsAccounted'
  BY <1>1, <1>2, <1>3, <1>4 DEF Base, PartsAccounted
<1> QED
  BY <1>7, <1>8, <1>9 DEF PartsKeep

(* A run that ends cleanly leaves no open part; one that crashes leaves   *)
(* them to its attempt.                                                   *)
LEMMA EndParts ==
  ASSUME Base, [Next]_vars, NEW w \in Workers, EndRun(w) \/ Crash(w) PROVE PartsKeep
<1>1. /\ \A v \in Workers : /\ pc'[v] = IF v = w THEN "idle" ELSE pc[v]
                            /\ run'[v] = IF v = w THEN NoRun ELSE run[v]
      /\ object' = object /\ crashed \subseteq crashed'
      /\ run[w].staged = {} \/ <<run[w].job, run[w].attempt>> \in crashed'
  BY DEF EndRun, Crash, Goto, Base, TypeOK, RunTypes
<1>2. NoNewResult
  BY DEF EndRun, Crash, jobVars, NoNewResult
<1>3. Rows
  BY <1>2, RowFacts DEF Base
<1>4. PartsInv'
  BY <1>1, <1>3, LimitsAssumption DEF Rows, Base, PartsInv, Attempt
<1>5. ResultsSealed'
  BY <1>1, <1>3 DEF Rows, Base, ResultsSealed
<1>6. PartsAccounted'
  BY <1>1 DEF Base, PartsAccounted
<1> QED
  BY <1>4, <1>5, <1>6 DEF PartsKeep

(* Publication seals both parts of the run that holds the last token of   *)
(* the job.                                                               *)
LEMMA PublishParts ==
  ASSUME Base, [Next]_vars, NEW w \in Workers, Publish(w) PROVE PartsKeep
<1> DEFINE i == run[w].job
           b == run[w].attempt
<1>1. /\ i \in JobId /\ b \in Attempt /\ b = attempts[i] /\ b # 0
      /\ pc[w] = "publish" /\ run[w].staged = Part /\ status[i] = "RUNNING"
  BY RunInDomain, LimitsAssumption DEF Publish, HoldsLease, Base, StagedInv, Attempt
<1>2. /\ \A v \in Workers : pc'[v] = IF v = w THEN "cleanup" ELSE pc[v]
      /\ run' = run /\ crashed' = crashed /\ attempts' = attempts /\ job' = job
  BY DEF Publish, Goto, Base, TypeOK, RunTypes
<1>3. \A j \in JobId : /\ status'[j] = IF j = i THEN "SUCCEEDED" ELSE status[j]
                       /\ result'[j] = IF j = i THEN b ELSE result[j]
  BY DEF Publish, Base, TypeOK, JobTypes
<1>4. \A j \in JobId, a \in Attempt, p \in Part :
        object'[j][a][p] = IF j = i /\ a = b THEN "SEALED" ELSE object[j][a][p]
  <2> DEFINE sealed == [p \in Part |-> "SEALED"]
  <2>1. object' = [object EXCEPT ![i] = [object[i] EXCEPT ![b] = sealed]]
    BY DEF Publish
  <2>2. object[i] \in [Attempt -> [Part -> ObjectStatuses]]
    BY <1>1 DEF Base, TypeOK, RunTypes
  <2>3. \A a \in Attempt : object'[i][a] = IF a = b THEN sealed ELSE object[i][a]
    BY <1>1, <2>1, <2>2 DEF Base, TypeOK, RunTypes
  <2>4. \A j \in JobId : j # i => object'[j] = object[j]
    BY <2>1 DEF Base, TypeOK, RunTypes
  <2> QED
    BY <2>3, <2>4
<1>5. \A v \in Workers : v # w /\ pc[v] # "idle"
                         => /\ ~(run[v].job = i /\ run[v].attempt = b)
                            /\ run[v].job \in JobId /\ run[v].attempt \in Attempt
  BY <1>1, OtherRun, RunInDomain DEF Base
<1>6. \A j \in JobId : attempts[j] \in Nat
  BY LimitsAssumption DEF Base, TypeOK, JobTypes
<1>7. PartsInv'
  <2>1. \A j \in JobId, a \in Attempt, p \in Part :
          a > attempts'[j] => object'[j][a][p] = "NONE"
    BY <1>1, <1>2, <1>4, <1>6, LimitsAssumption DEF Base, PartsInv, Attempt
  <2>2. ASSUME NEW v \in Workers, NEW p \in Part
        PROVE  /\ pc'[v] \notin {"idle", "cleanup"}
                  => object'[run'[v].job][run'[v].attempt][p] =
                       IF p \in run'[v].staged THEN "OPEN" ELSE "NONE"
               /\ pc'[v] = "cleanup" /\ p \in run'[v].staged
                  => object'[run'[v].job][run'[v].attempt][p] \in {"OPEN", "SEALED"}
    <3>1. CASE v = w
      BY <1>1, <1>2, <1>4, <3>1
    <3>2. CASE v # w
      <4>1. pc'[v] = pc[v] /\ run'[v] = run[v]
        BY <1>2, <3>2
      <4>2. pc[v] # "idle" => object'[run[v].job][run[v].attempt][p]
                              = object[run[v].job][run[v].attempt][p]
        BY <1>4, <1>5, <3>2
      <4> QED
        BY <4>1, <4>2 DEF Base, PartsInv
    <3> QED
      BY <3>1, <3>2
  <2>3. \A j \in JobId : result'[j] # 0 => status'[j] = "SUCCEEDED"
    BY <1>3 DEF Base, PartsInv
  <2> QED
    BY <2>1, <2>2, <2>3 DEF PartsInv
<1>8. ResultsSealed'
  BY <1>1, <1>2, <1>3, <1>4 DEF Base, ResultsSealed
<1>9. PartsAccounted'
  BY <1>2, <1>4 DEF Base, PartsAccounted
<1> QED
  BY <1>7, <1>8, <1>9 DEF PartsKeep
-------------------------------------------------------------------------------
(* The invariant and the theorems about every behaviour. *)

(* The inductive invariant holds of an empty organisation.                *)
LEMMA InitInv == Init => IInv
<1> SUFFICES ASSUME Init PROVE IInv
  OBVIOUS
<1> USE LimitsAssumption DEF Init
<1>1. NoJob \in JobRecord /\ NoRun \in RunRecord
  BY DEF NoJob, NoRun, JobRecord, RunRecord, Kinds
<1>2. JobTypes
  BY <1>1 DEF JobTypes, Statuses
<1>3. DataTypes
  BY DEF DataTypes
<1>4. RunTypes
  BY <1>1 DEF RunTypes, ObjectStatuses, Steps
<1>5. TypeOK
  BY <1>2, <1>3, <1>4 DEF TypeOK
<1>6. JobsInv
  BY DEF JobsInv
<1>7. LinearHistory
  BY DEF LinearHistory, VersionNo
<1>8. OneImport
  BY DEF OneImport
<1>9. RunsInv
  BY DEF RunsInv
<1>10. StagedInv
  BY DEF StagedInv
<1>11. PartsInv
  BY DEF PartsInv
<1>12. ResultsSealed /\ PartsAccounted
  BY DEF ResultsSealed, PartsAccounted, NoJob
<1> QED
  BY <1>5, <1>6, <1>7, <1>8, <1>9, <1>10, <1>11, <1>12 DEF IInv

(* Every step of members, workers and time keeps the inductive invariant. *)
LEMMA StepInv == IInv /\ [Next]_vars => IInv'
<1> SUFFICES ASSUME IInv, [Next]_vars PROVE IInv'
  OBVIOUS
<1>1. Base /\ OneImport
  BY DEF IInv, Base
<1>2. TypeOK'
  BY <1>1, TypeStep DEF Base
<1>3. JobsInv' /\ LinearHistory' /\ OneImport'
  BY <1>1, FormsKeep DEF Base
<1>4. RunsInv'
  BY <1>1, RunsStep DEF Base
<1>5. StagedInv'
  BY <1>1, StagedStep DEF Base
<1>6. PartsKeep
  <2>1. TypeOK /\ RunsInv
    BY <1>1 DEF Base
  <2> QED
    BY <1>1, <2>1, FormOfRunStep, StillParts, MoveParts, ClaimParts, CreateParts, CleanParts,
       EndParts, PublishParts DEF PartStep
<1> QED
  BY <1>2, <1>3, <1>4, <1>5, <1>6 DEF IInv, PartsKeep

(* The inductive invariant of jobs, runs, parts and versions holds in     *)
(* every reachable state.                                                 *)
THEOREM Invariance == Spec => []IInv
BY InitInv, StepInv, PTL DEF Spec

(* Every variable keeps its type; attempts and versions stay in bounds. *)
THEOREM TypeCorrect == Spec => []TypeOK
<1>1. IInv => TypeOK
  BY DEF IInv
<1> QED
  BY <1>1, Invariance, PTL

(* Version histories are linear whatever members and workers do. *)
THEOREM HistoryIsLinear == Spec => []LinearHistory
<1>1. IInv => LinearHistory
  BY DEF IInv
<1> QED
  BY <1>1, Invariance, PTL

(* No dataset is imported twice. *)
THEOREM ImportedOnce == Spec => []OneImport
<1>1. IInv => OneImport
  BY DEF IInv
<1> QED
  BY <1>1, Invariance, PTL

(* Only the run with the last token of a job seals its result. *)
THEOREM SealedResults == Spec => []ResultsSealed
<1>1. IInv => ResultsSealed
  BY DEF IInv
<1> QED
  BY <1>1, Invariance, PTL

(* An open part belongs to a run that still cleans up, or to a dead one. *)
THEOREM AccountedParts == Spec => []PartsAccounted
<1>1. IInv => PartsAccounted
  BY DEF IInv
<1> QED
  BY <1>1, Invariance, PTL

(* The waiting jobs of a step are those of before, but for a new one when *)
(* check_quota found room.                                                *)
LEMMA WaitingStep ==
  ASSUME IInv, [Next]_vars
  PROVE  \/ Waiting' \subseteq Waiting
         \/ Cardinality(Waiting) < WaitingLimit /\ Waiting' \subseteq Waiting \cup {created + 1}
<1>1. status \in [JobId -> Statuses]
  BY DEF IInv, TypeOK, JobTypes
<1>2. Quiet \/ Queued \/ Moved \/ Succeeded \/ Confirmed
  BY FormOfStep DEF IInv
<1>3. CASE Quiet \/ Confirmed
  BY <1>3 DEF Quiet, Confirmed, Confirms, Waiting
<1>4. CASE Queued
  <2>1. Cardinality(Waiting) < WaitingLimit /\ status' = [status EXCEPT ![created + 1] = "QUEUED"]
    BY <1>4 DEF Queued, Queues, Enqueue, HasRoom
  <2>2. \A j \in JobId : j # created + 1 => status'[j] = status[j]
    BY <1>1, <2>1
  <2> QED
    BY <2>1, <2>2 DEF Waiting
<1>5. ASSUME NEW j \in JobId, NEW s \in Statuses, status[j] \in Open,
             status' = [status EXCEPT ![j] = s]
      PROVE  Waiting' \subseteq Waiting
  <2>1. \A i \in JobId : i # j => status'[i] = status[i]
    BY <1>1, <1>5
  <2> QED
    BY <1>5, <2>1 DEF Waiting
<1>6. CASE Moved
  BY <1>5, <1>6 DEF Moved, Moves, Statuses
<1>7. CASE Succeeded
  BY <1>5, <1>7 DEF Succeeded, Succeeds, Statuses
<1> QED
  BY <1>2, <1>3, <1>4, <1>6, <1>7

(* No organisation has more than the limit of queued and running jobs,    *)
(* whatever expires, is retried or taken over (check_quota).              *)
THEOREM WithinWaitingLimit == Spec => []WaitingBound
<1>1. IsFiniteSet(JobId)
  BY FS_Interval, LimitsAssumption DEF JobId
<1>2. IsFiniteSet(Waiting) /\ Cardinality(Waiting) \in Nat
  BY <1>1, FS_Subset, FS_CardinalityType DEF Waiting
<1>3. Init => WaitingBound
  <2> SUFFICES ASSUME Init PROVE WaitingBound
    OBVIOUS
  <2>1. Waiting = {}
    BY DEF Init, Waiting, Open
  <2> QED
    BY <2>1, FS_EmptySet, LimitsAssumption DEF WaitingBound
<1>4. IInv /\ WaitingBound /\ [Next]_vars => WaitingBound'
  <2> SUFFICES ASSUME IInv, WaitingBound, [Next]_vars PROVE WaitingBound'
    OBVIOUS
  <2>1. CASE Waiting' \subseteq Waiting
    <3>1. Cardinality(Waiting') <= Cardinality(Waiting) /\ Cardinality(Waiting') \in Nat
      BY <1>2, <2>1, FS_Subset, FS_CardinalityType
    <3>2. Cardinality(Waiting) <= WaitingLimit
      BY DEF WaitingBound
    <3>3. Cardinality(Waiting') <= WaitingLimit
      BY <1>2, <3>1, <3>2, LimitsAssumption
    <3> QED
      BY <3>3 DEF WaitingBound
  <2>2. CASE Cardinality(Waiting) < WaitingLimit /\ Waiting' \subseteq Waiting \cup {created + 1}
    <3> DEFINE more == Waiting \cup {created + 1}
    <3>1. IsFiniteSet(more) /\ Cardinality(more) \in Nat /\ Cardinality(more) <= Cardinality(Waiting) + 1
      BY <1>2, FS_AddElement, FS_CardinalityType
    <3>2. Cardinality(Waiting') <= Cardinality(more) /\ Cardinality(Waiting') \in Nat
      BY <2>2, <3>1, FS_Subset, FS_CardinalityType
    <3>3. Cardinality(Waiting') <= WaitingLimit
      BY <1>2, <2>2, <3>1, <3>2, LimitsAssumption
    <3> QED
      BY <3>3 DEF WaitingBound
  <2> QED
    BY <2>1, <2>2, WaitingStep
<1> QED
  BY <1>3, <1>4, Invariance, PTL DEF Spec

(* A finished job is never changed again. *)
THEOREM FinalJobsStay == Spec => FinalStays
<1>1. IInv /\ [Next]_vars
      => [\A j \in JobId : status[j] \in Final
            => status'[j] = status[j] /\ result'[j] = result[j]]_vars
  BY RowsStay DEF IInv
<1> QED
  BY <1>1, Invariance, PTL DEF Spec, FinalStays

(* Only publication (Publish) and an inline job's own transaction         *)
(* (LegacySucceeds) end a job with success, and both check the writer.    *)
LEMMA SuccessNeedsWriter ==
  ASSUME TypeOK, [Next]_vars, NEW j \in JobId,
         status'[j] = "SUCCEEDED", status[j] # "SUCCEEDED"
  PROVE  job[j].by \in writers
<1>1. status \in [JobId -> Statuses]
  BY DEF TypeOK, JobTypes
<1>2. ASSUME MemberStep PROVE FALSE
  BY <1>1, <1>2 DEF MemberStep, Upload, CompleteUpload, ImportDataset, RetryImport, Preview,
     Commit, CancelJob, ChangeRights, Enqueue, jobVars
<1>3. ASSUME NEW w \in Workers, WorkerStep(w) PROVE job[j].by \in writers
  <2>1. ASSUME NEW i \in JobId, LegacySucceeds(w, i) PROVE job[j].by \in writers
    BY <1>1, <2>1 DEF LegacySucceeds
  <2>2. CASE Publish(w)
    BY <1>1, <2>2 DEF Publish, MayWrite
  <2>3. ASSUME NEW i \in JobId, Claim(w, i) \/ GiveUp(w, i) \/ LegacyFails(w, i) PROVE FALSE
    BY <1>1, <2>3 DEF Claim, GiveUp, LegacyFails
  <2>4. ASSUME ReportFailure(w) PROVE FALSE
    BY <1>1, <2>4 DEF ReportFailure
  <2>5. ASSUME QuietWorkerStep(w) PROVE FALSE
    BY <2>5, QuietSteps DEF Quiet
  <2> QED
    BY <1>3, <2>1, <2>2, <2>3, <2>4, <2>5 DEF WorkerStep, Advance, QuietWorkerStep
<1>4. Tick \/ UNCHANGED vars => FALSE
  BY DEF Tick, vars, jobVars
<1> QED
  BY <1>2, <1>3, <1>4 DEF Next

(* No result appears in the name of a member without the write right,     *)
(* however long ago the job was queued or claimed.                        *)
THEOREM WritersPublish == Spec => OnlyWritersPublish
<1>1. TypeOK /\ [Next]_vars
      => [\A j \in JobId : status'[j] = "SUCCEEDED" /\ status[j] # "SUCCEEDED"
            => job[j].by \in writers]_vars
  BY SuccessNeedsWriter
<1> QED
  BY <1>1, TypeCorrect, PTL DEF Spec, OnlyWritersPublish
-------------------------------------------------------------------------------
(* The abstract version history. *)

(* What the history of a dataset is made of: created jobs that succeeded. *)
LEMMA HistoryEntries ==
  ASSUME IInv, NEW d \in DatasetId
  PROVE  /\ current[d] \in 0..MaxVersions /\ current[d] \in Nat
         /\ History[d] = [n \in 1..current[d] |->
                           [job |-> version[d][n], source |-> job[version[d][n]].source]]
         /\ Len(History[d]) = current[d]
         /\ \A n \in 1..current[d] :
              /\ n \in VersionNo
              /\ version[d][n] \in 1..created /\ version[d][n] \in JobId
              /\ status[version[d][n]] = "SUCCEEDED"
              /\ job[version[d][n]].source = n - 1
<1>1. current[d] \in 0..MaxVersions /\ current[d] \in Nat
  BY LimitsAssumption DEF IInv, TypeOK, DataTypes
<1>2. \A n \in 1..current[d] : n \in VersionNo
  BY <1>1, LimitsAssumption DEF VersionNo
<1>3. created \in 0..TotalLimit
  BY DEF IInv, TypeOK, JobTypes
<1>4. ASSUME NEW n \in 1..current[d]
      PROVE  /\ version[d][n] \in 1..created
             /\ status[version[d][n]] = "SUCCEEDED"
             /\ job[version[d][n]].source = n - 1
  BY <1>1, <1>2, <1>4 DEF IInv, LinearHistory
<1>5. 1..created \subseteq JobId
  BY <1>3, LimitsAssumption DEF JobId
<1> DEFINE h == [n \in 1..current[d] |->
                   [job |-> version[d][n], source |-> job[version[d][n]].source]]
<1>6. History[d] = h
  BY DEF History
<1>7. Len(h) = current[d]
  BY <1>1
<1> QED BY <1>1, <1>2, <1>4, <1>5, <1>6, <1>7

(* A step that adds no version leaves every history as it is.             *)
LEMMA HistoryStill ==
  ASSUME IInv, UNCHANGED <<current, version>>, \A j \in 1..created : job'[j] = job[j]
  PROVE  History' = History
<1>1. ASSUME NEW d \in DatasetId, NEW n \in 1..current[d]
      PROVE  job'[version[d][n]].source = job[version[d][n]].source
  BY <1>1, HistoryEntries
<1> QED BY <1>1 DEF History

(* A version created for an unpublished job extends one history by it.    *)
LEMMA HistoryExtended ==
  ASSUME IInv, NEW j \in JobId, job' = job,
         job[j].dataset \in DatasetId,
         current[job[j].dataset] < MaxVersions,
         job[j].source = current[job[j].dataset],
         CreateVersion(job[j].dataset, j),
         \A d \in DatasetId : \A n \in 1..current[d] : version[d][n] # j
  PROVE  Abstract!Publish(job[j].dataset, j)
<1> DEFINE d == job[j].dataset
<1>1. /\ current[d] + 1 \in VersionNo
      /\ \A e \in DatasetId :
           current'[e] = IF e = d THEN current[e] + 1 ELSE current[e]
      /\ \A e \in DatasetId, n \in VersionNo :
           version'[e][n] = IF e = d /\ n = current[d] + 1 THEN j ELSE version[e][n]
  BY CreateVersionEffect DEF IInv, TypeOK
<1>2. Len(History[d]) < MaxVersions
  BY HistoryEntries
<1>3. ~Abstract!Published(j)
  <2>1. ASSUME NEW e \in DatasetId, NEW n \in 1..Len(History[e]) PROVE History[e][n].job # j
    <3>1. /\ History[e] = [k \in 1..current[e] |->
                             [job |-> version[e][k], source |-> job[version[e][k]].source]]
          /\ n \in 1..current[e]
      BY <2>1, HistoryEntries
    <3>2. History[e][n].job = version[e][n]
      BY <3>1
    <3> QED BY <2>1, <3>1, <3>2
  <2> QED BY <2>1 DEF Abstract!Published
<1>4. History' = [History EXCEPT ![d] = Append(@, [job |-> j, source |-> Len(@)])]
  <2>1. ASSUME NEW e \in DatasetId, e # d PROVE History'[e] = History[e]
    <3>1. \A n \in 1..current[e] : version'[e][n] = version[e][n]
      BY <1>1, <2>1, HistoryEntries, ZenonT(60)
    <3> QED BY <1>1, <2>1, <3>1 DEF History
  <2>2. History'[d] = Append(History[d], [job |-> j, source |-> Len(History[d])])
    <3> DEFINE entry(n) == [job |-> version[d][n], source |-> job[version[d][n]].source]
               h == [n \in 1..current[d] |-> entry(n)]
    <3>1. /\ History[d] = h /\ Len(h) = current[d] /\ current[d] \in Nat
          /\ \A n \in 1..current[d] : n \in VersionNo
      BY HistoryEntries
    <3>2. History'[d] = [n \in 1..(current[d] + 1) |->
                           IF n = current[d] + 1 THEN [job |-> j, source |-> current[d]]
                                                 ELSE entry(n)]
      <4>1. ASSUME NEW n \in 1..(current[d] + 1)
            PROVE  version'[d][n] = IF n = current[d] + 1 THEN j ELSE version[d][n]
        BY <1>1, <3>1, <4>1
      <4> QED BY <1>1, <4>1, ZenonT(60) DEF History
    <3>3. Append(h, [job |-> j, source |-> current[d]])
          = [n \in 1..(current[d] + 1) |->
               IF n = current[d] + 1 THEN [job |-> j, source |-> current[d]] ELSE entry(n)]
      <4> HIDE DEF entry
      <4> QED BY <3>1, SMTT(30)
    <3> QED BY <3>1, <3>2, <3>3
  <2> DEFINE next == [History EXCEPT ![d] = Append(@, [job |-> j, source |-> Len(@)])]
  <2>3. /\ History' = [e \in DatasetId |-> History'[e]]
        /\ next = [e \in DatasetId |-> next[e]]
    BY ZenonT(60) DEF History
  <2>4. ASSUME NEW e \in DatasetId PROVE History'[e] = next[e]
    BY <2>1, <2>2 DEF History
  <2> QED BY <2>3, <2>4
<1> QED BY <1>2, <1>3, <1>4 DEF Abstract!Publish

(* Every step of members and workers publishes one version of the history *)
(* or none.                                                               *)
LEMMA StepsPublish ==
  ASSUME IInv, [Next]_vars
  PROVE  Abstract!Next \/ UNCHANGED History
<1>1. TypeOK /\ JobsInv /\ LinearHistory /\ RunsInv
  BY DEF IInv
<1>2. Quiet \/ Queued \/ Moved \/ Succeeded \/ Confirmed
  BY <1>1, FormOfStep
<1>3. ASSUME UNCHANGED <<current, version>> PROVE UNCHANGED History
  BY <1>1, <1>3, RowsStay, HistoryStill
<1>4. CASE Quiet \/ Queued \/ Moved
  BY <1>3, <1>4 DEF Quiet, Queued, Queues, Moved, Moves, dataVars
<1>5. ASSUME NEW i \in JobId, Succeeds(i) PROVE Abstract!Next \/ UNCHANGED History
  <2>1. CASE job[i].kind = "IMPORT"
    <3>1. i \in 1..created /\ job[i].dataset \in DatasetId
      BY <1>1, <1>5, CreatedDataset DEF Succeeds, Open, TypeOK
    <3>2. current[job[i].dataset] = 0 /\ job[i].source = 0
      BY <1>1, <1>5, <2>1, <3>1 DEF Succeeds, JobsInv
    <3>3. job' = job /\ CreateVersion(job[i].dataset, i)
      BY <1>5, <2>1 DEF Succeeds
    <3>4. \A d \in DatasetId : \A n \in 1..current[d] : version[d][n] # i
      BY <1>5, HistoryEntries DEF Succeeds, Open
    <3>5. Abstract!Publish(job[i].dataset, i)
      BY <3>1, <3>2, <3>3, <3>4, HistoryExtended, LimitsAssumption
    <3> QED BY <3>1, <3>5 DEF Abstract!Next
  <2>2. CASE job[i].kind # "IMPORT"
    BY <1>3, <1>5, <2>2 DEF Succeeds, dataVars
  <2> QED BY <2>1, <2>2
<1>6. ASSUME NEW i \in JobId, Confirms(i) PROVE Abstract!Next
  <2>1. job[i].dataset \in DatasetId
    BY <1>1, <1>6, CreatedDataset DEF Confirms, TypeOK
  <2>2. /\ current[job[i].dataset] < MaxVersions
        /\ job[i].source = current[job[i].dataset]
        /\ job' = job /\ CreateVersion(job[i].dataset, i)
    BY <1>6 DEF Confirms, Confirmable
  <2>3. ASSUME NEW d \in DatasetId, NEW n \in 1..current[d], version[d][n] = i PROVE FALSE
    <3>1. job[i].dataset = d /\ job[i].source = n - 1
      <4>0. current[d] \in Nat /\ n \in VersionNo /\ job[version[d][n]].source = n - 1
        BY <2>3, HistoryEntries
      <4>1. n \in VersionNo /\ ~(n > current[d]) /\ job[i].source = n - 1
        BY <2>3, <4>0
      <4>2. job[version[d][n]].dataset = d
        BY <1>1, <4>1 DEF LinearHistory
      <4> QED BY <2>3, <4>1, <4>2
    <3> QED BY <2>2, <2>3, <3>1, HistoryEntries
  <2>4. Abstract!Publish(job[i].dataset, i)
    BY <2>1, <2>2, <2>3, HistoryExtended
  <2> QED BY <2>1, <2>4 DEF Abstract!Next
<1> QED BY <1>2, <1>4, <1>5, <1>6 DEF Succeeded, Confirmed

(* The jobs implement VersionHistory: whatever members and workers do,    *)
(* what a reader of the versions sees is one append-only linear history   *)
(* per dataset to which no job contributes twice.                         *)
THEOREM HistoryImplemented == Spec => ImplementsHistory
<1>1. Init => Abstract!Init
  <2>1. ASSUME Init, NEW d \in DatasetId PROVE History[d] = <<>>
    <3>1. current[d] = 0
      BY <2>1 DEF Init
    <3> QED BY <3>1 DEF History
  <2> QED BY <2>1 DEF Abstract!Init, History
<1>2. IInv /\ [Next]_vars => [Abstract!Next]_History
  BY StepsPublish
<1> QED
  BY <1>1, <1>2, Invariance, PTL DEF Spec, ImplementsHistory, Abstract!Spec
================================================================================
