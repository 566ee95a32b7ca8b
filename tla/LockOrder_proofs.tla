--------------------------- MODULE LockOrder_proofs ---------------------------
(***************************************************************************)
(* Proofs about LockOrder, for any number of processes, jobs and datasets. *)
(*                                                                         *)
(* IInv is inductive: a lock is only granted if it conflicts with none     *)
(* that is held, and a publication needs a lock that conflicts with the    *)
(* one a detail request holds.  The order of the locks enters only in      *)
(* CirclesNeedReport: a transaction that holds a lock and waits for        *)
(* another one holds the organisation, unless it reports a failure; two    *)
(* members of a circle would both hold it.                                 *)
(***************************************************************************)
EXTENDS LockOrder, TLAPS

AllKinds == Kinds \union {"none"}

(* A transaction asks for at most five locks.                              *)
LEMMA LocksLength ==
  ASSUME NEW kind \in AllKinds, NEW j \in Jobs, NEW part \in Parts
  PROVE  Len(Locks(kind, j, part)) \in 0..5
BY DEF AllKinds, Kinds, Deciding, Locks, ChangeRights, CancelJob, Heartbeat, WriteObject,
       PublishPreview, PublishImport, CommitPreview, RetryImport, Claim, ClaimTask,
       ProcessLegacy, ReportFailure, CleanPart, FinishExplanation, Detail

(* A deciding transaction locks the organisation first.                    *)
LEMMA OrganisationFirst ==
  ASSUME NEW kind \in Deciding, NEW j \in Jobs, NEW part \in Parts
  PROVE  /\ Locks(kind, j, part)[1].row = Organisation
         /\ Locks(kind, j, part)[1].mode = "UPDATE"
<1>1. CASE kind \in {"claim", "claim_task", "process_legacy"}
  <2>1. Locks(kind, j, part)[1] = SkipLocked(Organisation)
    BY <1>1 DEF Locks, Claim, ClaimTask, ProcessLegacy
  <2> QED BY <2>1 DEF SkipLocked, Update, Lock
<1>2. CASE kind \notin {"claim", "claim_task", "process_legacy"}
  <2>1. Locks(kind, j, part)[1] = CheckWrite
    BY <1>2 DEF Deciding, Locks, ChangeRights, CancelJob, Heartbeat, WriteObject,
                PublishPreview, PublishImport, CommitPreview, RetryImport
  <2> QED BY <2>1 DEF CheckWrite, Update, Lock
<1> QED BY <1>1, <1>2

(* The others, but for a failure report, take one lock at most.            *)
LEMMA OthersTakeOne ==
  ASSUME NEW kind \in AllKinds \ Deciding, kind # "report_failure",
         NEW j \in Jobs, NEW part \in Parts
  PROVE  Len(Locks(kind, j, part)) \in 0..1
BY DEF AllKinds, Kinds, Deciding, Locks, CleanPart, FinishExplanation, Detail

(* A transaction that adds a version has locked the dataset for update.    *)
LEMMA PublishersLock ==
  ASSUME NEW kind \in {"publish_import", "commit_preview", "process_legacy"},
         NEW j \in Jobs, NEW part \in Parts
  PROVE  \E i \in 1..Len(Locks(kind, j, part)) :
           /\ Locks(kind, j, part)[i].row = DatasetRow(DatasetOf[j])
           /\ Locks(kind, j, part)[i].mode = "UPDATE"
<1>1. CASE kind = "publish_import"
  <2>1. /\ Len(Locks(kind, j, part)) = 5
        /\ Locks(kind, j, part)[5] = Update(DatasetRow(DatasetOf[j]))
    BY <1>1 DEF Locks, PublishImport, PublishPreview
  <2> QED BY <2>1 DEF Update, Lock
<1>2. CASE kind = "commit_preview"
  <2>1. /\ Len(Locks(kind, j, part)) = 2
        /\ Locks(kind, j, part)[2] = Update(DatasetRow(DatasetOf[j]))
    BY <1>2 DEF Locks, CommitPreview
  <2> QED BY <2>1 DEF Update, Lock
<1>3. CASE kind = "process_legacy"
  <2>1. /\ Len(Locks(kind, j, part)) = 3
        /\ Locks(kind, j, part)[3] = Update(DatasetRow(DatasetOf[j]))
    BY <1>3 DEF Locks, ProcessLegacy, Claim
  <2> QED BY <2>1 DEF Update, Lock
<1> QED BY <1>1, <1>2, <1>3

(* A detail request locks its dataset and nothing else.                    *)
LEMMA DetailLocks ==
  ASSUME NEW j \in Jobs, NEW part \in Parts
  PROVE  /\ Len(Locks("detail", j, part)) = 1
         /\ Locks("detail", j, part)[1].row = DatasetRow(DatasetOf[j])
         /\ Locks("detail", j, part)[1].mode = "SHARE"
BY DEF Locks, Detail, Share, Lock

-------------------------------------------------------------------------------
(* What the type invariant says of one process.                            *)
LEMMA ProcessType ==
  ASSUME TypeOK, NEW p \in Processes
  PROVE  /\ tx[p].kind \in AllKinds /\ tx[p].job \in Jobs /\ tx[p].part \in Parts
         /\ tx[p].done \in Nat /\ tx[p].done <= Len(LocksOf(p))
         /\ Len(LocksOf(p)) \in 0..5
         /\ seen[p] \in Seq(0..MaxVersions)
         /\ DatasetOf[tx[p].job] \in Datasets
<1>1. tx[p] \in [kind : AllKinds, job : Jobs, part : Parts, done : 0..5]
  BY DEF TypeOK, AllKinds
<1>2. Len(LocksOf(p)) \in 0..5
  BY <1>1, LocksLength DEF LocksOf
<1> QED BY <1>1, <1>2, RowsAssumption DEF TypeOK

(* A transaction that ends holds nothing and has read nothing.             *)
LEMMA IdleLocks ==
  /\ Idle \in [kind : AllKinds, job : Jobs, part : Parts, done : 0..5]
  /\ Idle.done = 0 /\ Idle.kind = "none"
  /\ Locks(Idle.kind, Idle.job, Idle.part) = <<>>
<1>1. (CHOOSE j \in Jobs : TRUE) \in Jobs
  BY RowsAssumption
<1> QED BY <1>1 DEF Idle, AllKinds, Parts, Locks

(* The end of a transaction preserves the invariant.                       *)
LEMMA EndKeeps ==
  ASSUME IInv, NEW p \in Processes, End(p), UNCHANGED version
  PROVE  IInv'
<1>1. TypeOK' 
  <2>1. tx' \in [Processes -> [kind : AllKinds, job : Jobs, part : Parts, done : 0..5]]
    BY IdleLocks DEF IInv, TypeOK, End, AllKinds
  <2>2. ASSUME NEW q \in Processes PROVE (tx[q].done <= Len(LocksOf(q)))'
    BY IdleLocks DEF IInv, TypeOK, End, LocksOf
  <2>3. seen' \in [Processes -> Seq(0..MaxVersions)]
    BY DEF IInv, TypeOK, End
  <2> QED BY <2>1, <2>2, <2>3 DEF IInv, TypeOK, AllKinds
<1>2. LocksCompatible'
  BY IdleLocks DEF IInv, TypeOK, LocksCompatible, End, LocksOf
<1>3. ReadsCurrent'
  BY IdleLocks DEF IInv, TypeOK, ReadsCurrent, End, LocksOf, HasAll
<1> QED BY <1>1, <1>2, <1>3 DEF IInv

(* A new transaction holds nothing yet.                                    *)
LEMMA BeginKeeps ==
  ASSUME IInv, NEW p \in Processes, NEW kind \in Kinds, NEW j \in Jobs, NEW part \in Parts,
         Begin(p, kind, j, part)
  PROVE  IInv'
<1>1. tx' \in [Processes -> [kind : AllKinds, job : Jobs, part : Parts, done : 0..5]]
  BY DEF IInv, TypeOK, Begin, AllKinds
<1>2. /\ tx'[p] = [kind |-> kind, job |-> j, part |-> part, done |-> 0]
      /\ \A q \in Processes : q # p => tx'[q] = tx[q]
  BY DEF IInv, TypeOK, Begin
<1>3. ASSUME NEW q \in Processes PROVE (tx[q].done <= Len(LocksOf(q)))'
  <2>1. CASE q = p
    <3>1. Len(Locks(kind, j, part)) \in 0..5
      BY LocksLength DEF AllKinds
    <3> QED BY <1>2, <2>1, <3>1 DEF LocksOf
  <2>2. CASE q # p
    BY <1>2, <2>2 DEF IInv, TypeOK, LocksOf
  <2> QED BY <2>1, <2>2
<1>4. TypeOK'
  BY <1>1, <1>3 DEF IInv, TypeOK, AllKinds, Begin
<1>5. LocksCompatible'
  BY <1>2 DEF IInv, LocksCompatible, LocksOf
<1>6. ReadsCurrent'
  <2>1. seen[p] = <<>>
    BY DEF IInv, ReadsCurrent, Begin, Running
  <2> QED BY <1>2, <2>1 DEF IInv, ReadsCurrent, Begin, LocksOf, HasAll
<1> QED BY <1>4, <1>5, <1>6 DEF IInv

(* A lock is granted to p: every lock p now holds is the one it wanted or  *)
(* one it held before.                                                     *)
LEMMA TakeEffect ==
  ASSUME TypeOK, NEW p \in Processes, TakeLock(p)
  PROVE  /\ tx' \in [Processes -> [kind : AllKinds, job : Jobs, part : Parts, done : 0..5]]
         /\ tx'[p].done = tx[p].done + 1 /\ tx'[p].kind = tx[p].kind
         /\ tx[p].done < Len(LocksOf(p)) /\ tx[p].done \in Nat
         /\ \A q \in Processes : LocksOf(q)' = LocksOf(q)
         /\ \A q \in Processes : q # p => tx'[q] = tx[q]
         /\ \A q \in Processes : tx'[q].kind = tx[q].kind /\ tx'[q].job = tx[q].job
<1>1. /\ tx[p].done \in Nat /\ Len(LocksOf(p)) \in 0..5
      /\ tx[p].done < Len(LocksOf(p))
  BY ProcessType DEF TakeLock, HasAll
<1>2. tx' = [tx EXCEPT ![p].done = @ + 1]
  BY DEF TakeLock
<1>3. tx \in [Processes -> [kind : AllKinds, job : Jobs, part : Parts, done : 0..5]]
  BY DEF TypeOK, AllKinds
<1>4. /\ tx'[p] = [tx[p] EXCEPT !.done = @ + 1]
      /\ \A q \in Processes : q # p => tx'[q] = tx[q]
  BY <1>2, <1>3
<1>5. /\ tx'[p] \in [kind : AllKinds, job : Jobs, part : Parts, done : 0..5]
      /\ tx'[p].done = tx[p].done + 1
      /\ tx'[p].kind = tx[p].kind /\ tx'[p].job = tx[p].job /\ tx'[p].part = tx[p].part
  <2> DEFINE t == tx[p]
             n == t.done + 1
  <2>1. t \in [kind : AllKinds, job : Jobs, part : Parts, done : 0..5]
    BY <1>3
  <2>2. n \in 0..5
    <3> DEFINE length == Len(LocksOf(p))
               m == tx[p].done
    <3>1. m \in Nat /\ length \in 0..5 /\ m < length
      BY <1>1
    <3> HIDE DEF length, m
    <3>2. m + 1 \in 0..5
      BY <3>1
    <3> QED BY <3>2 DEF m
  <2>3. tx'[p] = [t EXCEPT !.done = n]
    BY <1>4
  <2> HIDE DEF t, n
  <2>4. /\ tx'[p] \in [kind : AllKinds, job : Jobs, part : Parts, done : 0..5]
        /\ tx'[p].done = n
        /\ tx'[p].kind = t.kind /\ tx'[p].job = t.job /\ tx'[p].part = t.part
    BY <2>1, <2>2, <2>3
  <2> QED BY <2>4 DEF t, n
<1>6. tx' \in [Processes -> [kind : AllKinds, job : Jobs, part : Parts, done : 0..5]]
  BY <1>2, <1>3, <1>5
<1>7. \A q \in Processes : /\ tx'[q].kind = tx[q].kind /\ tx'[q].job = tx[q].job
                            /\ tx'[q].part = tx[q].part
  BY <1>4, <1>5
<1> QED BY <1>1, <1>4, <1>5, <1>6, <1>7 DEF LocksOf

(* Granting a lock preserves the invariant: it conflicts with none.        *)
LEMMA TakeKeeps ==
  ASSUME IInv, NEW p \in Processes, TakeLock(p)
  PROVE  IInv'
<1>1. TypeOK
  BY DEF IInv
<1>2. TypeOK'
  <2>1. ASSUME NEW q \in Processes PROVE (tx[q].done <= Len(LocksOf(q)))'
    <3>1. /\ tx[q].done \in Nat /\ tx[q].done <= Len(LocksOf(q))
          /\ Len(LocksOf(q)) \in 0..5
      BY <1>1, ProcessType
    <3>2. /\ LocksOf(q)' = LocksOf(q)
          /\ q # p => tx'[q] = tx[q]
          /\ tx'[p].done = tx[p].done + 1 /\ tx[p].done < Len(LocksOf(p))
      BY <1>1, TakeEffect
    <3>3. CASE q = p
      BY <3>1, <3>2, <3>3
    <3>4. CASE q # p
      BY <3>1, <3>2, <3>4
    <3> QED BY <3>3, <3>4
  <2> QED BY <1>1, <2>1, TakeEffect DEF TypeOK, TakeLock, AllKinds
<1>3. LocksCompatible'
  <2>1. ASSUME NEW q \in Processes, q # p,
               NEW i \in 1..tx'[p].done, NEW k \in 1..tx[q].done,
               LocksOf(p)[i].row = LocksOf(q)[k].row
        PROVE  /\ ~Conflict(LocksOf(p)[i].mode, LocksOf(q)[k].mode)
               /\ ~Conflict(LocksOf(q)[k].mode, LocksOf(p)[i].mode)
    <3>1. CASE i \in 1..tx[p].done
      BY <2>1, <3>1 DEF IInv, LocksCompatible, Conflict
    <3>2. CASE i = tx[p].done + 1
      <4>1. ~BlockedBy(p, q)
        BY <2>1 DEF TakeLock, Blocked
      <4> QED BY <2>1, <3>2, <4>1 DEF BlockedBy, Wanted, Conflict
    <3>3. i \in 1..tx[p].done \/ i = tx[p].done + 1
      BY <1>1, <2>1, TakeEffect
    <3> QED BY <3>1, <3>2, <3>3
  <2>2. SUFFICES ASSUME NEW q \in Processes, NEW r \in Processes, q # r,
                        NEW i \in 1..tx'[q].done, NEW k \in 1..tx'[r].done,
                        LocksOf(q)[i].row = LocksOf(r)[k].row
                 PROVE  ~Conflict(LocksOf(q)[i].mode, LocksOf(r)[k].mode)
    BY <1>1, TakeEffect DEF LocksCompatible
  <2>3. CASE q = p
    <3>1. tx'[r] = tx[r]
      BY <1>1, <2>2, <2>3, TakeEffect
    <3> QED BY <2>1, <2>2, <2>3, <3>1
  <2>4. CASE r = p
    <3>1. tx'[q] = tx[q]
      BY <1>1, <2>2, <2>4, TakeEffect
    <3> QED BY <2>1, <2>2, <2>4, <3>1
  <2>5. CASE q # p /\ r # p
    <3>1. tx'[q] = tx[q] /\ tx'[r] = tx[r]
      BY <1>1, <2>5, TakeEffect
    <3> QED BY <2>2, <3>1 DEF IInv, LocksCompatible
  <2> QED BY <2>3, <2>4, <2>5
<1>4. ReadsCurrent'
  <2>1. ASSUME NEW q \in Processes, seen[q] # <<>>
        PROVE  /\ tx'[q] = tx[q] /\ LocksOf(q)' = LocksOf(q)
    <3>1. HasAll(q)
      BY <2>1 DEF IInv, ReadsCurrent
    <3>2. q # p
      BY <3>1 DEF TakeLock
    <3> QED BY <1>1, <3>2, TakeEffect
  <2> QED BY <2>1 DEF IInv, ReadsCurrent, TakeLock, HasAll
<1> QED BY <1>2, <1>3, <1>4 DEF IInv

(* A statement of a detail request reads what is committed.                *)
LEMMA ReadKeeps ==
  ASSUME IInv, NEW p \in Processes, ReadDetail(p)
  PROVE  IInv'
<1> DEFINE now == version[DatasetOf[tx[p].job]]
<1>1. /\ seen[p] \in Seq(0..MaxVersions) /\ now \in 0..MaxVersions
      /\ seen' = [seen EXCEPT ![p] = Append(@, now)]
      /\ seen \in [Processes -> Seq(0..MaxVersions)]
      /\ UNCHANGED <<tx, version>>
  BY ProcessType DEF IInv, TypeOK, ReadDetail
<1> HIDE DEF now
<1>2. TypeOK'
  <2>1. Append(seen[p], now) \in Seq(0..MaxVersions)
    BY <1>1
  <2> QED BY <1>1, <2>1 DEF IInv, TypeOK, LocksOf
<1>3. LocksCompatible'
  BY <1>1 DEF IInv, LocksCompatible, LocksOf
<1>4. ReadsCurrent'
  <2>1. seen'[p] = Append(seen[p], now) /\ \A q \in Processes : q # p => seen'[q] = seen[q]
    BY <1>1
  <2>2. \A i \in 1..Len(seen'[p]) : seen'[p][i] = now
    <3>1. \A i \in 1..Len(seen[p]) : seen[p][i] = now
      BY <1>1 DEF IInv, ReadsCurrent, now
    <3> QED BY <1>1, <2>1, <3>1
  <2>3. tx[p].kind = "detail" /\ HasAll(p)
    BY DEF ReadDetail
  <2> QED BY <1>1, <2>1, <2>2, <2>3 DEF IInv, ReadsCurrent, HasAll, LocksOf, now
<1> QED BY <1>2, <1>3, <1>4 DEF IInv

(* A publication changes a dataset no detail request holds.                *)
LEMMA PublishKeeps ==
  ASSUME IInv, NEW p \in Processes, Publish(p)
  PROVE  IInv'
<1> DEFINE d == DatasetOf[tx[p].job]
<1>1. /\ d \in Datasets /\ version[d] \in 0..MaxVersions /\ tx[p].job \in Jobs
      /\ tx[p].part \in Parts /\ tx[p].done = Len(LocksOf(p))
      /\ tx[p].kind \in {"publish_import", "commit_preview", "process_legacy"}
  BY ProcessType DEF IInv, TypeOK, Publish, HasAll
<1>2. /\ version' = [version EXCEPT ![d] = @ + 1]
      /\ version[d] + 1 \in 0..MaxVersions
      /\ End(p)
  BY <1>1, RowsAssumption DEF Publish, MayPublish
<1>3. PICK i \in 1..tx[p].done : /\ LocksOf(p)[i].row = DatasetRow(d)
                                 /\ LocksOf(p)[i].mode = "UPDATE"
  <2> HIDE DEF d
  <2>1. \E i \in 1..Len(Locks(tx[p].kind, tx[p].job, tx[p].part)) :
          /\ Locks(tx[p].kind, tx[p].job, tx[p].part)[i].row = DatasetRow(DatasetOf[tx[p].job])
          /\ Locks(tx[p].kind, tx[p].job, tx[p].part)[i].mode = "UPDATE"
    BY <1>1, PublishersLock
  <2> QED BY <1>1, <2>1 DEF LocksOf, d
<1> HIDE DEF d
<1>4. TypeOK'
  <2>1. tx' \in [Processes -> [kind : AllKinds, job : Jobs, part : Parts, done : 0..5]]
    BY <1>2, IdleLocks DEF IInv, TypeOK, End, AllKinds
  <2>2. ASSUME NEW q \in Processes PROVE (tx[q].done <= Len(LocksOf(q)))'
    BY <1>2, IdleLocks DEF IInv, TypeOK, End, LocksOf
  <2>3. seen' \in [Processes -> Seq(0..MaxVersions)]
    BY <1>2 DEF IInv, TypeOK, End
  <2>4. version' \in [Datasets -> 0..MaxVersions]
    BY <1>1, <1>2 DEF IInv, TypeOK
  <2> QED BY <2>1, <2>2, <2>3, <2>4 DEF TypeOK, AllKinds
<1>5. LocksCompatible'
  <2>1. tx'[p].done = 0 /\ \A q \in Processes : q # p => tx'[q] = tx[q]
    BY <1>2, IdleLocks DEF IInv, TypeOK, End
  <2> QED BY <2>1 DEF IInv, LocksCompatible, LocksOf
<1>6. ReadsCurrent'
  <2>1. SUFFICES ASSUME NEW q \in Processes, seen'[q] # <<>>
                 PROVE  /\ tx'[q] = tx[q] /\ seen'[q] = seen[q]
                        /\ DatasetOf[tx[q].job] # d
    BY <1>1, <1>2 DEF IInv, TypeOK, ReadsCurrent, HasAll, LocksOf
  <2>2. q # p
    BY <1>2, <2>1 DEF IInv, TypeOK, End
  <2>3. tx'[q] = tx[q] /\ seen'[q] = seen[q]
    BY <1>2, <2>2 DEF IInv, TypeOK, End
  <2>4. tx[q].kind = "detail" /\ tx[q].done = Len(LocksOf(q))
    BY <2>1, <2>3 DEF IInv, ReadsCurrent, HasAll
  <2>5. /\ 1 \in 1..tx[q].done
        /\ LocksOf(q)[1].row = DatasetRow(DatasetOf[tx[q].job])
    BY <2>4, DetailLocks, ProcessType DEF IInv, LocksOf
  <2>6. DatasetOf[tx[q].job] # d
    BY <1>3, <2>2, <2>5 DEF IInv, LocksCompatible, Conflict
  <2> QED BY <2>3, <2>6
<1> QED BY <1>4, <1>5, <1>6 DEF IInv

(* The invariant holds initially.                                          *)
LEMMA InitInv == Init => IInv
<1> SUFFICES ASSUME Init PROVE IInv
  OBVIOUS
<1>1. TypeOK
  BY IdleLocks, RowsAssumption DEF Init, TypeOK, LocksOf, AllKinds
<1>2. LocksCompatible /\ ReadsCurrent
  BY IdleLocks DEF Init, LocksCompatible, ReadsCurrent
<1> QED BY <1>1, <1>2 DEF IInv

(* Every step preserves it.                                                *)
LEMMA StepInv == IInv /\ [Next]_vars => IInv'
<1> SUFFICES ASSUME IInv, [Next]_vars PROVE IInv'
  OBVIOUS
<1>1. CASE UNCHANGED vars
  BY <1>1 DEF vars, IInv, TypeOK, LocksCompatible, ReadsCurrent, LocksOf, HasAll
<1>2. ASSUME NEW p \in Processes, NEW kind \in Kinds, NEW j \in Jobs,
             NEW part \in PartsOf(kind), Begin(p, kind, j, part)
      PROVE  IInv'
  <2>1. part \in Parts
    BY DEF PartsOf, Parts
  <2> QED BY <1>2, <2>1, BeginKeeps
<1>3. ASSUME NEW p \in Processes, Step(p) PROVE IInv'
  <2>1. CASE TakeLock(p)
    BY <2>1, TakeKeeps
  <2>2. CASE ReadDetail(p)
    BY <2>2, ReadKeeps
  <2>3. CASE Publish(p)
    BY <2>3, PublishKeeps
  <2>4. CASE Skip(p) \/ Commit(p) \/ Timeout(p)
    BY <2>4, EndKeeps DEF Skip, Commit, Timeout
  <2> QED BY <1>3, <2>1, <2>2, <2>3, <2>4 DEF Step
<1>4. ASSUME NEW p \in Processes, Rollback(p) PROVE IInv'
  BY <1>4, EndKeeps DEF Rollback
<1> QED BY <1>1, <1>2, <1>3, <1>4 DEF Next
-------------------------------------------------------------------------------
(* The inductive invariant holds in every reachable state.                 *)
THEOREM Invariance == Spec => []IInv
BY InitInv, StepInv, PTL DEF Spec

(* Every variable keeps its type (the transactions of DataJobs and         *)
(* ChunkStore, lock by lock).                                              *)
THEOREM TypeCorrect == Spec => []TypeOK
<1>1. IInv => TypeOK
  BY DEF IInv
<1> QED BY <1>1, Invariance, PTL

(* check_write and the claim's lock keep the writers of an organisation    *)
(* apart, for any number of them.                                          *)
THEOREM WritersAreSerialized == Spec => []WritersSerialized
<1>1. ASSUME IInv PROVE WritersSerialized
  <2>1. SUFFICES ASSUME NEW p \in Processes, NEW q \in Processes, p # q,
                        tx[p].kind \in Deciding, tx[p].done > 0,
                        tx[q].kind \in Deciding, tx[q].done > 0
                 PROVE  FALSE
    BY DEF WritersSerialized
  <2>2. 1 \in 1..tx[p].done /\ 1 \in 1..tx[q].done
    BY <1>1, <2>1, ProcessType DEF IInv
  <2>3. /\ LocksOf(p)[1].row = Organisation /\ LocksOf(p)[1].mode = "UPDATE"
        /\ LocksOf(q)[1].row = Organisation /\ LocksOf(q)[1].mode = "UPDATE"
    BY <1>1, <2>1, ProcessType, OrganisationFirst DEF IInv, LocksOf
  <2> QED BY <1>1, <2>1, <2>2, <2>3 DEF IInv, LocksCompatible, Conflict
<1> QED BY <1>1, Invariance, PTL

(* detail reads one version of a dataset, whoever publishes meanwhile.     *)
THEOREM DetailIsConsistent == Spec => []DetailConsistent
<1>1. ASSUME IInv PROVE DetailConsistent
  <2>1. SUFFICES ASSUME NEW p \in Processes, NEW i \in 1..Len(seen[p]), NEW k \in 1..Len(seen[p])
                 PROVE  seen[p][i] = seen[p][k]
    BY DEF DetailConsistent
  <2>2. seen[p] # <<>>
    BY <2>1
  <2> QED BY <1>1, <2>1, <2>2 DEF IInv, ReadsCurrent
<1> QED BY <1>1, Invariance, PTL

(* Transactions wait for each other in a circle only if one of them        *)
(* reports a failure: of the others, all that hold a lock and wait for     *)
(* another hold the organisation, and only one can.                        *)
THEOREM CirclesHaveReport == Spec => []CirclesNeedReport
<1>1. ASSUME IInv PROVE CirclesNeedReport
  <2>1. SUFFICES ASSUME NEW S \in SUBSET Processes, Circle(S),
                        \A p \in S : tx[p].kind # "report_failure"
                 PROVE  FALSE
    BY DEF CirclesNeedReport
  <2>2. ASSUME NEW p \in S, NEW q \in S, BlockedBy(p, q)
        PROVE  /\ 1 \in 1..tx[q].done
               /\ LocksOf(q)[1].row = Organisation /\ LocksOf(q)[1].mode = "UPDATE"
    <3>1. /\ tx[q].kind \in AllKinds /\ tx[q].job \in Jobs /\ tx[q].part \in Parts
          /\ tx[q].done \in Nat /\ tx[q].done <= Len(LocksOf(q))
          /\ Len(LocksOf(q)) \in 0..5
      BY <1>1, <2>1, <2>2, ProcessType DEF IInv
    <3>2. tx[q].done > 0
      BY <2>2, <3>1 DEF BlockedBy
    <3>3. tx[q].done < Len(LocksOf(q))
      BY <2>1, <2>2, <3>1 DEF Circle, Waits, Blocked, HasAll
    <3>4. tx[q].kind \in Deciding
      <4>1. tx[q].kind # "report_failure"
        BY <2>1, <2>2
      <4>2. Len(LocksOf(q)) \notin 0..1
        <5> DEFINE length == Len(LocksOf(q))
                   m == tx[q].done
        <5>1. m \in Nat /\ length \in 0..5 /\ m < length /\ m > 0
          BY <3>1, <3>2, <3>3
        <5> HIDE DEF length, m
        <5>2. length \notin 0..1
          BY <5>1
        <5> QED BY <5>2 DEF length
      <4> QED BY <3>1, <4>1, <4>2, OthersTakeOne DEF LocksOf
    <3> QED BY <3>1, <3>2, <3>4, OrganisationFirst DEF LocksOf
  <2>3. PICK p \in S, q \in S : BlockedBy(p, q)
    BY <2>1 DEF Circle
  <2>4. PICK r \in S : BlockedBy(q, r)
    BY <2>1, <2>3 DEF Circle
  <2>5. q # r /\ q \in Processes /\ r \in Processes
    BY <2>1, <2>3, <2>4 DEF BlockedBy
  <2>6. /\ 1 \in 1..tx[q].done
        /\ LocksOf(q)[1].row = Organisation /\ LocksOf(q)[1].mode = "UPDATE"
    BY <2>2, <2>3
  <2>7. /\ 1 \in 1..tx[r].done
        /\ LocksOf(r)[1].row = Organisation /\ LocksOf(r)[1].mode = "UPDATE"
    BY <2>2, <2>3, <2>4
  <2> QED BY <1>1, <2>5, <2>6, <2>7 DEF IInv, LocksCompatible, Conflict
<1> QED BY <1>1, Invariance, PTL
===============================================================================
