------------------------------ MODULE LockOrder -------------------------------
(***************************************************************************)
(* The row locks the transactions of one organisation take, in their       *)
(* order.  DataJobs and ChunkStore make each transaction one step; here a  *)
(* transaction takes its locks one by one and others come in between.      *)
(*                                                                         *)
(* A row of data_tasks is one more job: its worker takes the same locks.   *)
(* PostgreSQL is external: a lock is granted when no other transaction     *)
(* holds a conflicting one on the row, locks are held to the end of the    *)
(* transaction, and an INSERT locks the rows its foreign keys refer to     *)
(* FOR KEY SHARE.  A lock on a row the transaction has already locked, or  *)
(* has inserted itself, never waits and is left out.                       *)
(***************************************************************************)
EXTENDS Naturals, Sequences

CONSTANTS
  Processes,     \* threads of the API and worker processes
  Jobs,          \* rows of data_jobs and data_tasks
  Datasets,      \* rows of datasets
  DatasetOf,     \* the dataset of each job
  MaxVersions    \* versions of a dataset (20)

ASSUME RowsAssumption ==
  /\ DatasetOf \in [Jobs -> Datasets]
  /\ MaxVersions \in Nat \ {0}
  /\ Jobs # {}

Parts == {"result", "export"}

VARIABLES
  tx,         \* the transaction each process is in
  version,    \* committed versions of each dataset
  seen        \* what a detail request has read of its dataset so far

vars == <<tx, version, seen>>
-------------------------------------------------------------------------------
Organisation == <<"organisation">>
JobRow(j) == <<"job", j>>
DatasetRow(d) == <<"dataset", d>>
ObjectRow(j, part) == <<"object", j, part>>

Lock(row, mode) == [row |-> row, mode |-> mode, skip |-> FALSE]
Update(row) == Lock(row, "UPDATE")
Share(row) == Lock(row, "SHARE")
KeyShare(row) == Lock(row, "KEY SHARE")
SkipLocked(row) == [Update(row) EXCEPT !.skip = TRUE]

Conflict(m, n) == "UPDATE" \in {m, n}

(* The locks of each transaction.  "Mistaken..." definitions are plausible *)
(* mistakes in the one that follows; no definition uses them.              *)
MistakenCheckWrite == KeyShare(Organisation)

CheckWrite == Update(Organisation)

\* the audit event's foreign key
AppendAudit == KeyShare(Organisation)

ChangeRights == <<CheckWrite>>

MistakenCancelJob(j) == <<Update(JobRow(j)), CheckWrite>>

CancelJob(j) == <<CheckWrite, Update(JobRow(j))>>

Heartbeat(j) == <<CheckWrite, Update(JobRow(j))>>

\* append_chunk, and the cancellation or completion of an upload
WriteObject(j, part) == <<CheckWrite, Update(ObjectRow(j, part))>>

\* publication: an import adds a version, a preview or a task does not
PublishPreview(j) ==
  <<CheckWrite, Update(JobRow(j)), Update(ObjectRow(j, "export")), Update(ObjectRow(j, "result"))>>

PublishImport(j) == Append(PublishPreview(j), Update(DatasetRow(DatasetOf[j])))

CommitPreview(j) == <<CheckWrite, Update(DatasetRow(DatasetOf[j]))>>

\* the same locks, without a version
RetryImport(j) == <<CheckWrite, Update(DatasetRow(DatasetOf[j]))>>

Claim(j) == <<SkipLocked(Organisation), SkipLocked(JobRow(j))>>

\* the claim of a task also cancels an earlier attempt's object
ClaimTask(j) == Append(Claim(j), Update(ObjectRow(j, "result")))

\* process_one computes an inline job in the transaction that claims it
ProcessLegacy(j) == Append(Claim(j), Update(DatasetRow(DatasetOf[j])))

ReportFailure(j) == <<Update(JobRow(j)), AppendAudit>>

CleanPart(j, part) == <<Update(ObjectRow(j, part))>>

FinishExplanation == <<AppendAudit>>

MistakenDetail(j) == <<>>

Detail(j) == <<Share(DatasetRow(DatasetOf[j]))>>

Locks(kind, j, part) ==
  CASE kind = "change_rights" -> ChangeRights
    [] kind = "cancel_job" -> CancelJob(j)
    [] kind = "heartbeat" -> Heartbeat(j)
    [] kind = "write_object" -> WriteObject(j, part)
    [] kind = "publish_preview" -> PublishPreview(j)
    [] kind = "publish_import" -> PublishImport(j)
    [] kind = "commit_preview" -> CommitPreview(j)
    [] kind = "retry_import" -> RetryImport(j)
    [] kind = "claim" -> Claim(j)
    [] kind = "claim_task" -> ClaimTask(j)
    [] kind = "process_legacy" -> ProcessLegacy(j)
    [] kind = "report_failure" -> ReportFailure(j)
    [] kind = "clean_part" -> CleanPart(j, part)
    [] kind = "finish_explanation" -> FinishExplanation
    [] kind = "detail" -> Detail(j)
    [] OTHER -> <<>>

\* transactions that decide on what they read under the organisation's lock
Deciding == {"change_rights", "cancel_job", "heartbeat", "write_object", "publish_preview",
             "publish_import", "commit_preview", "retry_import", "claim", "claim_task",
             "process_legacy"}

Kinds == Deciding \union {"report_failure", "clean_part", "finish_explanation", "detail"}

\* the parts a transaction of each kind may be about
PartsOf(kind) == IF kind \in {"write_object", "clean_part"} THEN Parts ELSE {"result"}
-------------------------------------------------------------------------------
Idle == [kind |-> "none", job |-> CHOOSE j \in Jobs : TRUE, part |-> "result", done |-> 0]

Init ==
  /\ tx = [p \in Processes |-> Idle]
  /\ version = [d \in Datasets |-> 0]
  /\ seen = [p \in Processes |-> <<>>]

LocksOf(p) == Locks(tx[p].kind, tx[p].job, tx[p].part)

Running(p) == tx[p].kind # "none"

HasAll(p) == tx[p].done = Len(LocksOf(p))

\* the lock p asks for next
Wanted(p) == LocksOf(p)[tx[p].done + 1]

\* q keeps p from the lock it asks for
BlockedBy(p, q) ==
  /\ q # p
  /\ \E i \in 1..tx[q].done :
       /\ LocksOf(q)[i].row = Wanted(p).row
       /\ Conflict(LocksOf(q)[i].mode, Wanted(p).mode)

Blocked(p) == Running(p) /\ ~HasAll(p) /\ \E q \in Processes : BlockedBy(p, q)

Waits(p) == Blocked(p) /\ ~Wanted(p).skip

\* each process of the set waits for another one of it
Circle(S) ==
  /\ S # {}
  /\ \A p \in S : Waits(p) /\ \E q \in S : BlockedBy(p, q)

End(p) ==
  /\ tx' = [tx EXCEPT ![p] = Idle]
  /\ seen' = [seen EXCEPT ![p] = <<>>]

Begin(p, kind, j, part) ==
  /\ ~Running(p)
  /\ tx' = [tx EXCEPT ![p] = [kind |-> kind, job |-> j, part |-> part, done |-> 0]]
  /\ UNCHANGED <<version, seen>>

TakeLock(p) ==
  /\ Running(p) /\ ~HasAll(p) /\ ~Blocked(p)
  /\ tx' = [tx EXCEPT ![p].done = @ + 1]
  /\ UNCHANGED <<version, seen>>

\* the worker finds the organisation or the job locked and returns
Skip(p) ==
  /\ Blocked(p) /\ Wanted(p).skip
  /\ End(p)
  /\ UNCHANGED version

\* detail reads the head, the versions and the jobs, each in a statement of its own
ReadDetail(p) ==
  /\ tx[p].kind = "detail" /\ HasAll(p)
  /\ Len(seen[p]) < 3
  /\ seen' = [seen EXCEPT ![p] = Append(@, version[DatasetOf[tx[p].job]])]
  /\ UNCHANGED <<tx, version>>

\* commit_preview's limit; an import publishes the first version only
MayPublish(p, d) ==
  IF tx[p].kind = "commit_preview" THEN version[d] \in 1..(MaxVersions - 1) ELSE version[d] = 0

Publish(p) ==
  LET d == DatasetOf[tx[p].job]
  IN  /\ tx[p].kind \in {"publish_import", "commit_preview", "process_legacy"}
      /\ HasAll(p)
      /\ MayPublish(p, d)
      /\ version' = [version EXCEPT ![d] = @ + 1]
      /\ End(p)

\* a transaction that adds no version commits, or the limit of versions refuses it
Commit(p) ==
  /\ Running(p) /\ HasAll(p)
  /\ tx[p].kind = "detail" => Len(seen[p]) = 3
  /\ tx[p].kind \in {"publish_import", "commit_preview"}
     => ~MayPublish(p, DatasetOf[tx[p].job])
  /\ End(p)
  /\ UNCHANGED version

\* a check refuses, an error is raised, the process dies
Rollback(p) ==
  /\ Running(p)
  /\ End(p)
  /\ UNCHANGED version

MistakenTimesOut(p) == \E S \in SUBSET Processes : p \in S /\ Circle(S)

TimesOut(p) == Waits(p)

\* statement_timeout, or the deadlock detector of PostgreSQL
Timeout(p) ==
  /\ TimesOut(p)
  /\ End(p)
  /\ UNCHANGED version

Step(p) ==
  \/ TakeLock(p)
  \/ Skip(p)
  \/ ReadDetail(p)
  \/ Publish(p)
  \/ Commit(p)
  \/ Timeout(p)

Next ==
  \E p \in Processes :
    \/ \E kind \in Kinds : \E j \in Jobs, part \in PartsOf(kind) : Begin(p, kind, j, part)
    \/ Step(p)
    \/ Rollback(p)

Spec == Init /\ [][Next]_vars

(* Statements do not wait for ever (statement_timeout), so a transaction   *)
(* that has begun goes on.                                                 *)
FairSpec == Spec /\ \A p \in Processes : WF_vars(Step(p))
-------------------------------------------------------------------------------
LockSet == [row : {Organisation} \union {JobRow(j) : j \in Jobs}
                  \union {DatasetRow(d) : d \in Datasets}
                  \union {ObjectRow(j, part) : j \in Jobs, part \in Parts},
            mode : {"UPDATE", "SHARE", "KEY SHARE"}, skip : BOOLEAN]

(* Every variable has its type; no dataset exceeds its versions.           *)
TypeOK ==
  /\ tx \in [Processes -> [kind : Kinds \union {"none"}, job : Jobs, part : Parts, done : 0..5]]
  /\ \A p \in Processes : tx[p].done <= Len(LocksOf(p))
  /\ version \in [Datasets -> 0..MaxVersions]
  /\ seen \in [Processes -> Seq(0..MaxVersions)]

(* Two transactions that decide on what they read after check_write or the *)
(* claim's lock never overlap: quotas, leases and the last version are     *)
(* checked and changed without another writer in between (check_write,     *)
(* process_stream_job, lock_and_check_admin).                              *)
WritersSerialized ==
  \A p, q \in Processes :
    /\ tx[p].kind \in Deciding /\ tx[p].done > 0
    /\ tx[q].kind \in Deciding /\ tx[q].done > 0
    => p = q

(* What detail reads of a dataset in three statements belongs to one       *)
(* version, whatever is published meanwhile (detail, EXPLAIN.md:42).       *)
DetailConsistent ==
  \A p \in Processes : \A i, k \in 1..Len(seen[p]) : seen[p][i] = seen[p][k]

(* Requests, claims, heartbeats and publications never wait for each other *)
(* in a circle: each circle holds a transaction that reports a failure.    *)
CirclesNeedReport ==
  \A S \in SUBSET Processes :
    Circle(S) => \E p \in S : tx[p].kind = "report_failure"

(* The comment in process_one: locks are taken as in the API, the          *)
(* organisation before the job before the dataset, so that no transactions *)
(* wait for each other in a circle (service.py:192-193).                   *)
NoCircle == ~\E S \in SUBSET Processes : Circle(S)

(* Every transaction ends, although locks pass from one to another and     *)
(* circles occur (tenant_session's statement_timeout).                     *)
TransactionsEnd == \A p \in Processes : Running(p) ~> ~Running(p)
-------------------------------------------------------------------------------
(* The strengthening that makes the safety properties inductive. *)

\* no two transactions hold conflicting locks
LocksCompatible ==
  \A p, q \in Processes : p # q
    => \A i \in 1..tx[p].done, k \in 1..tx[q].done :
         LocksOf(p)[i].row = LocksOf(q)[k].row
         => ~Conflict(LocksOf(p)[i].mode, LocksOf(q)[k].mode)

\* a detail request has read what is committed now
ReadsCurrent ==
  \A p \in Processes : seen[p] # <<>>
    => /\ tx[p].kind = "detail" /\ HasAll(p)
       /\ \A i \in 1..Len(seen[p]) : seen[p][i] = version[DatasetOf[tx[p].job]]

IInv == TypeOK /\ LocksCompatible /\ ReadsCurrent
===============================================================================
