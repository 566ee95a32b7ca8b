# TLA+ project for the Unternehmensplattform

Specifications, model-checking runs and machine-checked proofs for the stateful core of the
platform: the data workshop ("Datenwerkstatt") with its jobs, tasks, storage and locks;
logins, sessions and memberships; scenarios and assessments; the decision engine with its
verifier; and the budget of the external provider. Paths below are relative to
`apps/api/src/platform_app/` unless they start with `src/`.

## 1. The system

A FastAPI process serves members of organisations; a data worker and an intelligence
worker poll PostgreSQL for jobs and tasks. All state that outlives a request is in
PostgreSQL, under row-level security per organisation; workers and requests communicate
only through rows. Every writing transaction starts with `check_write` (or a claim), which
locks the row of the organisation `FOR UPDATE`.

| Component | State | Operations | Interacts with |
| --- | --- | --- | --- |
| Data jobs and versions (`data/service.py`, `data/router.py`) | `datasets`, `data_jobs`, `data_versions` | upload, retry-import, preview, commit, cancel, `process_one` | workers (through job rows), chunk store |
| Stream worker (`data/stream_worker.py`, `data/worker.py`) | lease, token and attempts of a job; memory of a run | claim, heartbeat, staging, publication, failure report, cleanup | jobs, chunk store, rights |
| Chunk store (`data/chunks.py`) | `data_objects`, `data_chunks`, `data_blobs` | new, append, hash, seal, cancel | uploads, both workers |
| Resumable uploads (`data/uploads.py`) | an open object and its declared size | start, chunk, cancel, complete | chunk store, jobs |
| Row locks (`shared/authorization.py`, `shared/db.py`, all of the above) | locks PostgreSQL holds | every transaction | everything that writes |
| Data tasks (`data/intelligence_*.py`) | `data_tasks`, lease, idempotency key | source import, analysis, plan, cancel, retry, preview of a plan | chunk store, jobs, provider budget |
| Explanations (`explanations/`) | requests, daily budget | reserve, call the provider, record | assessments, plans (shared budget) |
| Membership (`identity/router.py`) | memberships, roles, revisions | list, add, update | `check_write` everywhere |
| Sessions and login (`identity/*`) | login attempts, sessions | login, callback, switch, logout, expiry | every request |
| Scenarios and assessments (`api.py`, `intake/`, `assessments/`) | profile versions, assessments | create, new version, assess | decision engine, explanations |
| Decision engine and verifier (`decisions/`) | none of its own | evaluate, verify | assessments store what they return |
| Request limiter (`main.py`) | window of requests per peer | admit or refuse | every request |
| Formats, analytics, frontend, deployment | none of their own | computation, display, start-up | - |

### What is hard, and what makes each part correct

* **Jobs.** A run takes minutes and dozens of transactions; between them its lease may
  expire, another worker may take over, a member may cancel the job, lose the right to
  write, retry the import or confirm a competing preview, and a process may die. Correct
  means: one linear history per dataset, one result per job, no result of a run that lost
  its lease or of a member without the right, no leaked storage of a living run, and every
  job ends.
* **Chunk store and uploads.** Chunks are repeated, reordered and raced by several tabs;
  `complete` hashes up to 1024 chunks without a lock between two transactions. Correct
  means: the hash covers what is stored, what is stored is the client's file, one dataset
  per upload, and declared storage is really reserved.
* **Row locks.** Nothing above would hold if two writers of an organisation overlapped, and
  several lock orders can form circles. Correct means: writers are serialised, a read of
  several statements is consistent, and circles stay confined.
* **Tasks.** A client repeats a request, with the same or with another body, while it runs,
  after it failed, or after its worker died; a plan calls the provider from the API process
  between two transactions, while workers look for tasks whose lease ran out. Correct means:
  a key names one task of exactly the request that was sent, the provider is called at most
  once for it, quotas checked early still hold at publication, and every task ends.
* **Provider budget.** Explanations and plans reserve one daily budget, the process may die
  between reservation and record, and an answer may come late. Correct means: no more is sent
  than the budget allows, a final outcome is never replaced, and nothing looks as if it ran for ever.
* **Sessions.** Old and new tokens of one login are presented in any order while callbacks
  overlap. Correct means: one live session per login, no revival of a dead one, and no
  session that outlives the login's limit, however often it is rotated.
* **Memberships.** Administrators change one another at the same time, from lists read by
  several statements without a lock. Correct means: an active administrator always remains,
  and no change overwrites what its author did not see.
* **Assessments.** A request is repeated while it is evaluated between two transactions and a
  new version of the scenario is saved. Correct means: one assessment per key, of the version
  that was asked for, and no version lost by concurrent authors.
* **Decisions.** An engine and a verifier written apart have to agree on every input, unknown,
  zero and invalid values included; a refused result must recommend nothing.

## 2. Plan

Done, in this order: `DataJobs` with `VersionHistory`, `ChunkStore` with `AtomicUpload`,
`LockOrder`, `DataTasks` with `RequestOutcome`, `ProviderBudget`, `Membership`, `Sessions`,
`Assessments` with `ScenarioService`, and the decision modules, each with its proofs. Left:

1. The transformation steps of the table engines (`data/engine.py`, `data/stream_engine.py`) as
   operators, the streamed one checked against the one in memory on bounded tables.
2. The analytics of a version, checked the same way against a definition over whole tables.

## 3. Modules

| Module | Models | Proofs |
| --- | --- | --- |
| `DataJobs` | jobs, leases, versions, workers | `DataJobs_proofs` |
| `VersionHistory` | what jobs promise: one append-only history per dataset | in `DataJobs_proofs` |
| `ChunkStore` | objects, chunks, uploads, staging | `ChunkStore_proofs` |
| `AtomicUpload` | what uploads promise: publication in one step | in `ChunkStore_proofs` |
| `LockOrder` | row locks inside the transactions | `LockOrder_proofs` |
| `DataTasks` | analyses, imports and plans under idempotency keys | `DataTasks_proofs` |
| `RequestOutcome` | what a key promises: one request, one end | in `DataTasks_proofs` |
| `ProviderBudget` | reservations, calls and records of one daily budget | in `Decisions_proofs` |
| `Sessions` | login attempts, callbacks, sessions | `Sessions_proofs` |
| `Membership` | memberships, revisions, administrators | `Membership_proofs` |
| `Assessments` | scenario versions and stored assessments | `Assessments_proofs` |
| `ScenarioService` | what editing and assessing promise: saving, binding and answering in one step each | in `Assessments_proofs` |
| `DecisionData` | the data types and raw catalog both computations share | in `Decisions_proofs` |
| `DecisionEngine`, `DecisionVerifier` | the two computations | in `Decisions_proofs` |
| `Decisions` | drafting, damaging, verifying, editing and assessing again | `Decisions_proofs` |
| `MC...` | a small instance of each | - |

How they fit together: `LockOrder` takes the locks one by one and shows that writing
transactions of an organisation never overlap (`WritersSerialized`); the other modules therefore
take one transaction as one action. The publication of `DataTasks` is `PublishSnapshot` of
`ChunkStore`, its plan previews are jobs of `DataJobs`, and the reservation of its plans is
`Reserve` of `ProviderBudget`. `Membership` says who `writers` may be in `DataJobs`, `DataTasks`,
`ProviderBudget` and `Assessments`; there, `writers` changes at any time in any way.
`Decisions` is what happens between the two transactions of an assessment. Each module keeps only
what its own properties tell apart, which is why they are composed through these
assumptions and not in one state space.

### DataJobs

One action is one database transaction. `created`, `job`,
`status`, `attempts`, `lease` and `result` are the columns of `data_jobs`; `datasets`,
`current` and `version` those of `datasets` and `data_versions`; `object` the state of the
two objects a run stages; `writers` the members `check_write` accepts; `pc` and `run` the
memory of the workers. `crashed` is an observation: the runs whose process died.

* The lease is a number of ticks left; 0 is `lease_until < now()`. All processes compare with
  the same clock; skew between machines is not modelled. Each claim draws a fresh token, so
  the attempt number stands for it.
* `Claim`, `GiveUp`, `Heartbeat`, `BeatThen` (the forced heartbeats), `CreateObject`,
  `EndStore`, `Publish`, `ReportFailure`, `CleanPart` and `EndRun` follow
  `process_stream_job` in order; `LoseLease`, `Denied` and `Abort` are its `LeaseLost`,
  the 403 of `check_write` and every other exception. The failure report compares the token
  but no expiry, as in the code.
* The appended chunks of a part are one step (`EndStore`); the chunk store shows what they do.
  Writing them checks no lease, which the model keeps.
* Members: `Upload`, `CompleteUpload`, `RetryImport`, `Preview`, `Commit`, `CancelJob`,
  `ChangeRights`. A request that is refused, or answered with what exists already, changes
  nothing and is no step. The build only succeeds or fails.
* Inline (`LEGACY`) jobs run in one transaction (`LegacySucceeds`, `LegacyFails`).

### ChunkStore

`object` holds a row of `data_objects` with its chunks, `file` the client's memory of what it
uploads, `writing` the worker's running digest, `request` what `complete` carries from its
first transaction over the hash to its last. A digest of chunks is the sequence of chunks:
SHA-256 is taken to have no collisions. Clients may send any chunk of their file at any
time; `AppendChunk` takes the next one only, as `append_chunk` does (`Accepts`), and refuses a file
cut into more chunks than an object may have (`RoomForChunk`), the one limit that a started upload
does not reserve. `SendChunk`, `CancelUpload` and `BeginComplete` are restricted to uploads;
`uploads.py` has no such check, but clients learn the identifiers of uploads only. A worker writes one
object with its own `writing`, in order. `FinishComplete` is the second transaction,
`EndRequest` every way a request ends without effect, the death of the process included.

### LockOrder

Each transaction is the sequence of locks it takes (`CheckWrite`, `CancelJob`, ...,
`Detail`), with the mode and whether it skips a locked row. `TakeLock` is PostgreSQL granting
a lock; locks are kept until `Publish`, `Commit`, `Rollback`, `Skip` or `Timeout`. The
foreign key of an audit event locks the organisation `FOR KEY SHARE`, which conflicts with
`FOR UPDATE`; it matters where the transaction does not hold the organisation, that is in
`ReportFailure` and `FinishExplanation`. Rows of `data_tasks` are treated as further jobs:
the intelligence worker takes the same locks. `version` and `seen` are there for the reads of
`detail`.

### DataTasks

`created`, `task`, `status`, `attempts`, `lease` are columns of `data_tasks`; `object` is the
snapshot each attempt stages; `datasets`, `current` and `previews` are the rows of other components a
task reads or writes. `pc` and `run` are the worker's memory, `call` the API process of a plan.
`answer`, `sends` and `orphans` are observations: the last answer given, provider calls
made, snapshots whose process died.

* `Ask`, `Retry`, `AskPlan` contain `create_task`: the row found by creator and key is answered
  with if the whole request is the same (`SameRequest`), refused otherwise. Requests that are
  refused change nothing and are no step.
* A plan's task is created, set `RUNNING` and leased in one transaction; `CallProvider` runs
  outside of any transaction, `RecordPlan` is the second one, `LosePlan` the death of the API
  process between them.
* Workers: `Claim` (with the release of earlier attempts' snapshots), `GiveUp`, then heartbeat,
  staging, publication, failure report and cleanup as in `process_task`. `GivesUp` includes
  plans: their call may have happened.
* `PreviewEnds`, `NewVersion`, `OtherDataset`, `ChangeRights` are what other components do.

### ProviderBudget

`status`, `day`, `reserved` are the columns of `explanation_requests` (for a plan: its task) and
`provider_budget_days`; `age` is `now() - created_at`. `Reserve` is the first transaction of `create`
or of `plan`, `Call` and `Answer` the provider, `Record` the second transaction, `Lose`
everything that prevents it. `View` is what a reader is shown: an explanation that stays
`RESERVED` past the limit is `INDETERMINATE`; the row is not changed for it.

The provider has ten seconds for its one attempt (`asyncio.wait_for`, no retries), but that bounds
neither the wait for a connection before the second transaction nor the transaction
(`explanations/router.py:148`), and the outcome of an explanation is stored without a look at its
age. So `Call`, `Answer` and `Record` may come at any time: a request shown as `INDETERMINATE` may
still get its outcome, whereas a plan's outcome is dropped once its lease is over (`MayRecord`).
`docs/security/THREAT_MODEL.md:73` (SEC-12) says that an unclear outcome stays `INDETERMINATE`; read
as a promise that it never changes again, the code does not keep it. `ShownForward` states what does
hold: no final outcome is ever replaced, and a success is the answer of the only call.

### Sessions

`attempt` and `life` are a login attempt, `exchange` what a callback remembers between its two
transactions, the arrays over `SessionId` the rows of `auth_sessions` with times as ticks left;
`age` observes the time since the login. A token is the identity of its session; a request may
present any token ever given out. `Login`, `Consume`, `SignIn`, `Deny`, `Use`, `Switch`, `Logout` are
the handlers, `Administer` the operator's script and changed memberships. The identity
provider accepts or refuses; the checks of the ID token, the browser binding and the CSRF token are
guards whose failure changes nothing. The user's row is read without a lock.

### Membership

A request goes through the steps the client and the handlers go through: `Show` and
`ShowRoles` (the two statements of the list, between which others may commit), `AskUpdate` or
`AskAdd` (the actor is checked when the request comes in), `Update` or `Add` (one transaction under
the organisation's lock), or `Drop`. Which status and roles are sent is the client's free choice,
the revision is the one it was shown.

### Assessments

`Show`, `AskVersion`, `CreateVersion` are the editing of a scenario with
`expected_current_version`; `AskAssessment`, `Evaluate`, `Store` and `Repeat` the two transactions of an
assessment. `versions` keeps with each version the one its author was shown (`base`), `answers`
observes what clients were told. `ScenarioService` is the service clients may think they use: a name
(user and key) is bound once, to an assessment of the version that was asked for, and every
answer under it shows that assessment (`ImplementsService`; `OneAssessmentPerKey` is its part about
answers, stated for the proofs). The branch that reads the row again after an `IntegrityError`
cannot be reached while both transactions lock the organisation and is left out.

### Decisions

`DecisionEngine` and `DecisionVerifier` follow `engine.py` and `verifier.py` formula by formula.
They share nothing but `DecisionData`, as in the code, so that their agreement means something: the
verifier's operators are written from the verifier's code. `Decisions` starts from scenarios and
options, drafts, verifies and releases; `Damage` changes any field of any row of the draft, drops or
doubles a row, or exchanges it with the next; `Edit` deletes a fact of the scenario or asks for
more, and assesses again.

Numbers are exact integers in small units, where the code has 28-digit decimals that it rounds half
up to cents and hundredths; the same rounding is applied at the same places. Texts, labels and
explanations of a result are left out. Evidence named `INPUT` stands for all inputs. A result that
does not fit the schema at all is refused by `model_validate` before the recomputation; this and the
recomputation are one predicate (`Valid`). The verifier reads rows by identifier and accepts them in
any order; `DamageRejected` compares results up to that order (`SameAnswer`), and the run reaches
results that differ in nothing else.

## 4. Runs

| Run | Instance | Shows |
| --- | --- | --- |
| `takeover` | 1 job, 2 workers, 2 attempts, 2 ticks, fairness | `ResultsSealed`, `PartsAccounted`, `OnlyWritersPublish`, `JobsEnd`, `PartsSettle` |
| `history` | 3 jobs, 2 datasets, both modes, 1 worker | `LinearHistory`, `OneImport`, refinement of `VersionHistory` |
| `upload` | 3 objects, 2 requests, 2 files of 2 chunks and 1 of too many | `FileArrives`, `OneDataset`, `StorageReserved`, refinement of `AtomicUpload` |
| `locks` | 2 processes, 2 jobs of 1 dataset, 2 versions, fairness | `WritersSerialized`, `DetailConsistent`, `CirclesNeedReport`, `TransactionsEnd` |
| `circle` | 2 processes, 1 job; expected to be violated | `NoCircle` |
| `tasks` | 2 keys, 3 kinds of request, 2 workers, 1 task, 2 attempts, 2 versions, fairness | `AnswersTheRequest`, `SnapshotsAccounted`, `OneLivePreview`, `DatasetsBound`, `OnlyWritersSucceed`, `TasksEnd`, `SnapshotsSettle`, refinement of `RequestOutcome` |
| `orphans` | 1 import, 1 worker; expected to be violated | `OrphansReleased` |
| `budget` | 2 explanations, 1 plan, 2 days, one call a day, fairness | `CallsWithinBudget`, `ShownForward`, `RequestsSettle` |
| `tokens` | 2 logins, 2 callbacks, 3 sessions, 2 organisations | `OneLivePerLogin`, `LoginLimit`, `DeadStaysDead` |
| `members` | 3 users, 2 administrators, 2 requests, 3 revisions | `LastAdmin`, `NoLostUpdate`, `ByAdmin` |
| `keys` | 2 users, 2 keys, 2 requests, 3 versions, 2 assessments | `NoLostVersion`, refinement of `ScenarioService` |
| `assess` | 13 scenarios, 4 options, 4 plans, one edit or one damage | `EngineAccepted`, `DamageRejected`, `RecommendationRests`, `ForgettingNeverHelps`, `TighteningExcludes` |

Type invariants and the inductive invariants are not run: the proofs show them for every
instance. They were model-checked before they were proved.

### Bounds

Limits of the code are constants (`TotalLimit` 500 or 10000, `WaitingLimit` 10, `MaxVersions` 20,
`MaxAttempts` 3, `LeaseTime` 90 s, chunk and storage sizes, session times), set small so that each
is reached.

* `takeover`: an expired run and the run that took over coexist, and the second attempt is the
  last; the token's hazards need one job only. Two ticks let one heartbeat renew a partly used
  lease.
* `history`: a version needs an import, a preview and a confirmation; three jobs allow two
  previews of one version, or a retried import, or two datasets. Leases matter little here,
  so one worker and one attempt suffice. `MaxVersions` is out of reach here, so that it is
  the compared version, not the limit, that refuses the second of two confirmations.
* `upload`: two files race for the reserved storage of five bytes with a staged object; two
  requests complete one upload. The chunks of one file differ in content, so that order shows;
  those of the other in size, so that counting chunks is not counting bytes. A third file has one
  chunk more than `UploadChunks`: its last chunk is refused although its bytes are reserved.
* `locks`: a circle of `n` transactions needs `n` processes; the theorem covers the longer ones.
* `tasks`: keys collide (two requests may use one key, one request two), attempts of one task
  overlap, a plan and a worker meet on one task. With one task at a time the retry that makes a
  second task, and the order among waiting tasks, are covered by the proofs only: a larger
  instance does not fit the time of a run together with liveness.
* `budget`: three requests over two days with room for one a day; a lease longer than the time after
  which a request counts as uncertain, and ages beyond both, so that outcomes come before and after
  either.
* `tokens`: two rotations of one login, or one of each of two logins; the absolute limit is not a
  multiple of the idle limit.
* `members`: two administrators who act on each other, and a third person to be added; two
  requests overlap in every step.
* `keys`: two requests of one key, or of one scenario, or of both; three versions let an
  author be overtaken twice.
* `assess`: budgets unknown, zero and sufficient, too many users for a plan, too little staff, two
  workloads of different types, a recovery time of zero, a region outside the EU, prices that are
  negative or out of range, a catalogue out of date, custom weights with zeros, an availability no
  plan reaches, more governance than there are points. Two
  plans have equal measures, and quantities in halves make amounts round.

### Fairness

* `takeover`: a worker whose process lives keeps going (`worker.py` loops for ever and
  catches every exception), a build ends (each is bounded by size and time limits) and
  time passes. Heartbeats, members and crashes are not forced, and crashes may recur as
  long as attempts are left. The run has streamed jobs only. Inline jobs have no attempts: an
  exception other than `DataError` or `HTTPException` in the computation rolls the transaction back,
  the job stays the oldest queued one and is taken again for ever (`data/service.py:201`); the
  models let that computation succeed or fail with a handled error.
* `locks`: a transaction with a granted, skipped or overdue statement goes on; `statement_timeout`
  counts from the start of the statement whether or not the lock was free in between, which is why
  one fairness condition covers all steps of a transaction. No fairness among waiters is assumed.
* `tasks`: as for `takeover`. Nothing is assumed of the API process of a plan; that its task ends
  is the workers' doing.
* `budget`: the clock runs; a process that has reserved goes on, one way or another (death is
  among them); a worker fails expired plans (`TasksEnd` shows that it does).

### Findings

`circle`: `service.py:192-193` says of `process_one` "Lock-Reihenfolge wie API: Organisation
vor Auftrag vor Datensatz. SKIP LOCKED am Organisationslock verhindert Kreise mit
Rollenänderungen." The failure report of `process_stream_job` (`stream_worker.py:295-307`),
which `process_one` calls, locks the job first and then, through the foreign key of the audit
event (`src/apps/api/migrations/versions/0001_schema.sql:135`), the organisation.
`cancel_job` locks the organisation and then the job. TLC shows the circle in five states;
PostgreSQL breaks it after its deadlock timeout by failing one side, so a member gets an
error for a cancellation, or the report is lost and the job stays `RUNNING` until its lease
expires (`Abort` in `DataJobs`). `CirclesNeedReport` shows that nothing else is affected: every
circle includes a failure report. `intelligence_worker.py:307-317` has the same order.

`orphans`: `data/EXPLAIN.md:78` says "Ein Crash führt höchstens zu drei Versuchen; verwaiste offene
Abschnitte dieses Auftrags werden freigegeben." Only a further claim of the task releases them
(`intelligence_worker.py:100`). A process that dies in the last attempt, or whose task is
cancelled, is followed by no claim, only by the give-up of line 77, which releases nothing; the
open chunks keep their share of the storage. `SnapshotsAccounted` and `SnapshotsSettle` show that
this is the only way a snapshot is left behind.

## 5. Proofs

TLAPS proves, for every value of the constants that satisfies the named assumptions:

* `DataJobs_proofs`: `TypeCorrect`, `HistoryIsLinear`, `ImportedOnce`, `SealedResults`,
  `AccountedParts`, `WithinWaitingLimit`, `FinalJobsStay`, `WritersPublish`, and
  `HistoryImplemented`, the implementation of `VersionHistory`.
* `ChunkStore_proofs`: `TypeCorrect`, `SealedIsWhole`, `OneDatasetPerUpload`,
  `ClosedObjectsStay`, `WholeFileArrives`, `DeclaredSizeIsReserved`, and `CompleteIsAtomic`,
  the implementation of `AtomicUpload`.
* `LockOrder_proofs`: `TypeCorrect`, `WritersAreSerialized`, `DetailIsConsistent`,
  `CirclesHaveReport`.
* `DataTasks_proofs`: `TypeCorrect`, `AnswersName`, `SnapshotsHaveOwner`, `WithinWaitingLimit`,
  `WithinDatasetLimit`, `OnePreview`, `EndsOnce`, `SucceedsWithRight`, and `OutcomeImplemented`, the
  implementation of `RequestOutcome`.
* `Decisions_proofs`: `DecisionInvariance`, `RecommendationHolds`, `TighteningHolds`,
  `ForgettingHolds`, `EngineIsAccepted`, `DamageIsRejected`; and of `ProviderBudget`:
  `TypeCorrect`, `WithinBudget`, `CalledOnce`, `ShownOutcomesStay`.
* `Sessions_proofs`: `TypeCorrect`, `OneLiveSession`, `LimitedByLogin`, `NoResurrection`.
* `Membership_proofs`: `TypeCorrect`, `AdminRemains`, `ChangedByAdmin`, `UpdateKeepsOthers`.
* `Assessments_proofs`: `VersionsAreChain`, `AnswersAreOne`, `StoredAsAsked`, `WritersStore`, and
  `ServiceImplemented`, the implementation of `ScenarioService`.

Each follows from an inductive invariant `IInv` of its module (theorem `Invariance`; of decisions
`DecisionInv` and `DecisionInvariance`), checked by TLC first.

Sums and sequences have no induction the provers can use over them. Two ways around it carry the
proofs below. A sum of natural numbers is the cardinality of a set of units (one pair per item and
unit), and the library has theorems about cardinalities. A fold or a flattened sequence is
characterised by a least counterexample: the set of sizes at which the claim fails is a set of
natural numbers, and its smallest member contradicts the defining equation.

* **DataJobs.** A job's row determines what it may become (`JobsInv`: an open import means that its
  dataset has no version, which is why a second import can never publish). Two running
  attempts of a job differ (`RunsInv`), and the parts of an attempt follow what its run has
  staged (`StagedInv`, `PartsInv`). Hence a run that holds the last token and a lease is the only one
  that can seal, and what it seals is open. `FinalStays` needs the invariant, since a
  publication writes the status of a job without looking at the result. For the refinement,
  a step adds no version (history unchanged) or one (`create_version` in a publication or a
  confirmation), which is `Publish`: `LinearHistory` gives that the job has no version yet,
  since a published import has succeeded and a published preview has an older source.
* **ChunkStore.** The decisive part is `RequestsInv`: a complete upload has no room for another
  byte, and chunks have at least one, so from the first transaction of `complete` on the
  object can only be cancelled or sealed; what a request has hashed stays what is stored.
  The proof goes through four effects an operation can have on a row (open, extend, seal,
  discard); the refinement maps extend, discard and sealing with a dataset to the steps of
  `AtomicUpload`, everything else to a stutter. For `FileArrives` the chunks of an object are
  followed as a prefix of its client's file; a complete upload has all bytes, hence, chunks not
  being empty, all chunks. For `StorageReserved` the promised and the used bytes are units of disjoint
  sets, and each effect changes the units of one object only; the next chunk of a file is within
  what was declared, so of the guards of `append_chunk` only the number of chunks can refuse it.
* **LockOrder.** No two transactions hold conflicting locks, because one is only granted when
  it conflicts with none. A transaction that holds a lock and waits for another holds the
  organisation, unless it is a failure report; two members of a circle would both hold
  it, so a circle without a report is impossible, whatever its length.
* **DataTasks.** Most steps leave names and snapshots alone; the others have one of a few forms (a
  request that makes or repeats a task, a provider call, a claim, what a run does with its
  snapshot), and the invariant is followed form by form. The two facts that carry it: the count of
  attempts is the token, so a run whose attempt is not the last can neither renew nor publish
  (`RunsCounted`), and a call is sent only out of the request that made the plan's task
  (`CallsMade`). For the refinement, the task of a name never changes once there is one.
* **ProviderBudget.** No stored request is ever taken off its day, so a day's reservations are its
  number of requests times the amount (`Reservations`); calls are sent by stored requests,
  once each, which bounds them. An explanation with a process is still `RESERVED` and a plan is
  recorded only while it is (`Stored`, `MayRecord`), so what is recorded never replaces an outcome;
  time alone only turns what is shown as running into uncertain.
* **Sessions.** The sessions of a login form a line: its attempt is consumed once, the callback
  creates the first session, and each rotation revokes what it replaces; only the newest can be
  live. What a session has left and the age of its login together never exceed the limit.
* **Membership.** A count above one leaves another administrator when one is removed. A revision
  only grows, and while it equals the one shown, status and roles are those shown (`Shown`); the
  roles are read after the revision, which is the order that makes this inductive.
* **Assessments.** A version is saved under the lock that compares the revision, so it follows
  the one its author was shown. A row is stored only when its user and key have none. For the
  refinement, a name is bound to the one row of its user and key: storing a row binds a free name to
  a version that exists, since versions are never removed between the two transactions, and the
  number of a new row is one no other row has.
* **Decisions.** `DecisionInv` keeps what was drafted, presented and released together with the input
  it came from: what is released is what was presented, and only when the verifier's operators,
  applied to that same input, accept it. `RecommendationHolds` reads off the verifier: a
  recommended plan has no check but `PASS`, which for each workload is `MeetsDemands`, the comparison
  of its demands with the catalog's numbers, and it is the first of the verifier's order. The other
  two compare two runs of the engine. Tightening makes each row of a plan's checks no better and each
  cost line no cheaper, line by line, so a status can only move towards `EXCLUDED` and a plan that
  was excluded stays so. Forgetting leaves every check and line it does not blank as it was; a line
  or measure that is unknown makes its sum unknown, so no plan becomes allowed and no
  recommendation appears by it. A criterion of weight zero counts in neither direction.
  The inputs are those the schemas admit (`DecisionAssumption`), the plans of the catalog have
  different keys and any integers for prices (`CatalogAssumption`), and quantities and points
  are counted in positive parts (`ScaleAssumption`).
* **The two computations.** `EngineIsAccepted` says that the verifier accepts every draft of the
  engine. It goes through the checks of `verify` one by one. The engine lists rows, the verifier
  builds sets: a list without repetition is exactly its set, and lists of workloads put end to end
  have none, since workloads have different keys. The engine adds fractions one after the other,
  the verifier brings them to the product of all denominators: both are followed over the
  subsets of the workloads, and the two quotients are equal because every denominator divides
  the product. Half up is written in two ways that are one. The engine ranks by counting higher
  scores, the verifier by the place in a descending list without repetition (`Descending`), and
  the engine's best key is the first of the verifier's order, the best of the rest its second.
  The theorem covers unknown, zero and absurd values alike; numbers are exact as in the runs, so
  the rounding of intermediate quotients to 28 digits in the code is not part of it.
  `DamageIsRejected` is its counterpart. Every check of `verify` names the one value it accepts, or the
  one set of rows with as many rows as the set has members; two results that pass therefore agree in
  every field and list the same rows, perhaps in another order (`SameAnswer`). The draft passes, so
  what passes says what the draft says, however many changes it went through.

### Only model-checked

* Liveness (`JobsEnd`, `PartsSettle`, `TransactionsEnd`, `TasksEnd`, `SnapshotsSettle`,
  `RequestsSettle`), which is out of the reach of these provers.
* What a recursive definition computes in general: the library's induction theorems cannot be
  instantiated here. The proofs above avoid it where they can, as described.

## 6. Not modelled

* **Data formats and engines, analytics, reports.** Parsing, cleaning and aggregating tables are pure
  functions on data that share no state; the models let a build succeed or fail. The plan above
  names what of them can be specified.
* **Request limiter.** One function in the memory of one process, without an `await` between its
  steps: a sequential test reaches all of it. It refuses requests, so it only removes inputs
  of the models.
* **Reads.** Paged lists, rows and exports change nothing. Exceptions are reads that span several
  statements or are acted on later: `detail` (`LockOrder`), the list of members (`Membership`),
  the shown version (`Assessments`), the shown state of a request (`ProviderBudget`).
* **Configuration and audit.** Settings are constants; audit events are written with their change
  and read by nothing. Their foreign key lock is part of `LockOrder`.
* **Frontend, deployment, scripts.** The frontend only sends requests, which the models allow in
  any order; restarts may happen at any step.

Organisations are independent of each other (row-level security), so every module models
one. Loss of committed data by PostgreSQL and skew between clocks are outside the models.
