---------------------------- MODULE ProviderBudget ----------------------------
(***************************************************************************)
(* Calls of the external provider and the daily budget of one organisation *)
(* (explanations/router.py, create and view; the reservation of a plan in  *)
(* data/intelligence_router.py, plan).  A request reserves a fixed amount  *)
(* under the organisation's row, calls the provider without a transaction  *)
(* open, and records the outcome in a second transaction.                  *)
(*                                                                         *)
(* The provider has ten seconds for an answer (explanations/provider.py),  *)
(* but nothing limits when the process gets to send its call or, with the  *)
(* outcome in hand, to its second transaction: both may take any time, so  *)
(* an outcome may come after the request has been shown as uncertain.      *)
(*                                                                         *)
(* A request is named by its member and idempotency key.  A request that   *)
(* is refused (no approval, assessment not verified, key used for another  *)
(* body, budget used up) changes nothing and has no action.  Steps of a    *)
(* plan that DataTasks shows are reduced to what touches the budget here.  *)
(***************************************************************************)
EXTENDS Naturals, FiniteSets

CONSTANTS
  Users,
  Names,         \* [kind, user, key]
  Amount,        \* what one call may cost at most
  Budget,        \* openai_daily_budget
  LastDay,       \* days the model runs
  PendingLimit,  \* ticks after which an open reservation is uncertain (30 s)
  LeaseTime      \* ticks after which a worker fails a plan's task (90 s)

Kinds == {"EXPLANATION", "PLAN"}

ASSUME BudgetAssumption ==
  /\ IsFiniteSet(Names)
  /\ \A n \in Names : n.kind \in Kinds /\ n.user \in Users
  /\ Amount \in Nat \ {0} /\ Budget \in Nat /\ LastDay \in Nat \ {0}
  /\ PendingLimit \in Nat /\ LeaseTime \in Nat

Days == 1..LastDay
MaxAge == PendingLimit + LeaseTime + 1

VARIABLES
  status,    \* of the stored request
  day,       \* the day its reservation counts for, 0 before
  age,       \* now() - created_at, up to MaxAge
  reserved,  \* provider_budget_days.reserved_usd
  today,
  writers,   \* members check_write accepts
  pc,        \* the API process of a request: idle, reserved, calling, answered
  output,    \* what it holds of the provider's answer
  calls      \* observation: calls sent to the provider, by request

database == <<status, day, reserved, writers>>
vars == <<database, age, today, pc, output, calls>>

Init ==
  /\ status = [n \in Names |-> "NONE"]
  /\ day = [n \in Names |-> 0]
  /\ age = [n \in Names |-> 0]
  /\ reserved = [d \in Days |-> 0]
  /\ today = 1
  /\ writers = Users
  /\ pc = [n \in Names |-> "idle"]
  /\ output = [n \in Names |-> "none"]
  /\ calls = [n \in Names |-> 0]
-------------------------------------------------------------------------------
(* Plausible mistakes in the definitions below; no definition uses them.  *)
ViewStored(n) == status[n]
ReleasedOnFailure(n, outcome) ==
  IF outcome = "FAILED" THEN [reserved EXCEPT ![day[n]] = @ - Amount] ELSE reserved
MayRecordLate(n) == n.kind = "PLAN" => n.user \in writers
-------------------------------------------------------------------------------
(* view: an open reservation of some age is uncertain, and stays stored.   *)
View(n) ==
  IF n.kind = "EXPLANATION" /\ status[n] = "RESERVED" /\ age[n] > PendingLimit
  THEN "INDETERMINATE" ELSE status[n]

\* no request is stored under this member and key
Fresh(n) == status[n] = "NONE"
Fits(d) == reserved[d] + Amount <= Budget

Reserve(n) ==
  /\ n.user \in writers
  /\ Fresh(n)
  /\ Fits(today)
  /\ pc[n] = "idle"
  /\ reserved' = [reserved EXCEPT ![today] = @ + Amount]
  /\ status' = [status EXCEPT ![n] = "RESERVED"]
  /\ day' = [day EXCEPT ![n] = today]
  /\ age' = [age EXCEPT ![n] = 0]
  /\ pc' = [pc EXCEPT ![n] = "reserved"]
  /\ UNCHANGED <<writers, today, output, calls>>

Call(n) ==
  /\ pc[n] = "reserved"
  /\ calls' = [calls EXCEPT ![n] = @ + 1]
  /\ pc' = [pc EXCEPT ![n] = "calling"]
  /\ UNCHANGED <<database, age, today, output>>

\* the answer, a refusal or the end of the time limit; never a second try
Answer(n) ==
  /\ pc[n] = "calling"
  /\ \E o \in {"SUCCEEDED", "FAILED"} : output' = [output EXCEPT ![n] = o]
  /\ pc' = [pc EXCEPT ![n] = "answered"]
  /\ UNCHANGED <<database, age, today, calls>>

\* what a recorded outcome leaves of the reservations
Kept(n, outcome) == reserved

\* a plan is recorded for a member with the right and under a live lease only
MayRecord(n) ==
  n.kind = "PLAN" => n.user \in writers /\ status[n] = "RESERVED" /\ age[n] <= LeaseTime

Record(n) ==
  /\ pc[n] = "answered"
  /\ MayRecord(n)
  /\ status' = [status EXCEPT ![n] = output[n]]
  /\ reserved' = Kept(n, output[n])
  /\ pc' = [pc EXCEPT ![n] = "idle"]
  /\ UNCHANGED <<day, writers, age, today, output, calls>>

\* the second transaction is refused or fails, or the process dies
Lose(n) ==
  /\ pc[n] # "idle"
  /\ pc' = [pc EXCEPT ![n] = "idle"]
  /\ UNCHANGED <<database, age, today, output, calls>>

\* a worker fails the task of a plan whose lease has run out
GiveUp(n) ==
  /\ n.kind = "PLAN" /\ status[n] = "RESERVED" /\ age[n] > LeaseTime
  /\ status' = [status EXCEPT ![n] = "FAILED"]
  /\ UNCHANGED <<day, reserved, writers, age, today, pc, output, calls>>

ChangeRights ==
  /\ \E u \in Users : writers' = IF u \in writers THEN writers \ {u} ELSE writers \cup {u}
  /\ UNCHANGED <<status, day, reserved, age, today, pc, output, calls>>

Tick ==
  /\ age' = [n \in Names |-> IF status[n] = "NONE" \/ age[n] = MaxAge THEN age[n] ELSE age[n] + 1]
  /\ UNCHANGED <<database, today, pc, output, calls>>

Midnight ==
  /\ today < LastDay
  /\ today' = today + 1
  /\ UNCHANGED <<database, age, pc, output, calls>>

Next ==
  \/ \E n \in Names :
       \/ Reserve(n) \/ Call(n) \/ Answer(n) \/ Record(n) \/ Lose(n) \/ GiveUp(n)
  \/ ChangeRights \/ Tick \/ Midnight

Spec == Init /\ [][Next]_vars

\* the clock runs, and a process reaches its end or dies
FairSpec ==
  /\ Spec
  /\ WF_vars(Tick)
  /\ \A n \in Names : WF_vars(Call(n) \/ Answer(n) \/ Record(n) \/ Lose(n)) /\ WF_vars(GiveUp(n))
-------------------------------------------------------------------------------
Statuses == {"NONE", "RESERVED", "SUCCEEDED", "FAILED"}
Phases == {"idle", "reserved", "calling", "answered"}
Outputs == {"none", "SUCCEEDED", "FAILED"}

(* Types; a request without a process in it has recorded or lost its call. *)
TypeOK ==
  /\ status \in [Names -> Statuses]
  /\ day \in [Names -> 0..LastDay]
  /\ age \in [Names -> 0..MaxAge]
  /\ reserved \in [Days -> 0..Budget]
  /\ today \in Days
  /\ writers \subseteq Users
  /\ pc \in [Names -> Phases]
  /\ output \in [Names -> Outputs]
  /\ calls \in [Names -> Nat]

Of(d) == {n \in Names : day[n] = d}

(* The reservations are exactly those of the stored requests, a call       *)
(* belongs to a stored request that has not been sent before, an outcome   *)
(* in hand is the answer to a call, and only its own process ends an       *)
(* explanation.                                                            *)
Reservations == \A d \in Days : reserved[d] = Amount * Cardinality(Of(d))
Stored ==
  \A n \in Names :
    /\ day[n] \in Days <=> status[n] # "NONE"
    /\ status[n] = "NONE" => pc[n] = "idle" /\ calls[n] = 0
    /\ pc[n] = "reserved" => calls[n] = 0
    /\ calls[n] <= 1
    /\ pc[n] \in {"calling", "answered"} => calls[n] = 1
    /\ pc[n] = "answered" => output[n] # "none"
    /\ n.kind = "EXPLANATION" /\ pc[n] # "idle" => status[n] = "RESERVED"
IInv == TypeOK /\ Reservations /\ Stored

(* What was sent for the reservations of a day never costs more than the   *)
(* budget of that day, whatever failed, died or was repeated.              *)
CallsWithinBudget ==
  \A d \in Days : Amount * Cardinality({n \in Of(d) : calls[n] > 0}) <= Budget

(* A request calls the provider at most once, also when it is repeated     *)
(* after its process died (API_CONTRACTS.md: no new call for a key).       *)
OneCall == \A n \in Names : calls[n] <= 1

(* What members are shown of a request (view, task_view) only goes         *)
(* forward, whatever the order of answers, workers and the clock: a final  *)
(* outcome is never replaced, neither by a late answer nor by a worker, an *)
(* uncertain request can only get its outcome, and a success is the answer *)
(* of the only call.                                                       *)
Forward(from, to) ==
  \/ from = "NONE" /\ to = "RESERVED"
  \/ from = "RESERVED" /\ to = "INDETERMINATE"
  \/ from \in {"RESERVED", "INDETERMINATE"} /\ to \in {"SUCCEEDED", "FAILED"}

ShownForward ==
  [][\A n \in Names :
       View(n)' # View(n) =>
         /\ Forward(View(n), View(n)')
         /\ View(n)' = "SUCCEEDED" => calls[n] = 1 /\ output[n] = "SUCCEEDED"]_vars

(* No request is shown as running for ever: its outcome is recorded, or it *)
(* becomes uncertain, or a worker fails it.                                *)
RequestsSettle == \A n \in Names : status[n] = "RESERVED" ~> View(n) # "RESERVED"
===============================================================================
