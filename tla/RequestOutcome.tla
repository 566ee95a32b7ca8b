---------------------------- MODULE RequestOutcome ----------------------------
(***************************************************************************)
(* What a member may rely on who repeats a request with the same           *)
(* idempotency key, without tasks, workers, leases or retries: a name (the *)
(* member and the key) is bound to one request for good, the request ends  *)
(* at most once, and an import exists exactly when the request succeeded.  *)
(***************************************************************************)
EXTENDS Naturals

CONSTANTS Names, Requests, NoRequest, ImportRequests

VARIABLES request, outcome, datasets

vars == <<request, outcome, datasets>>

Init ==
  /\ request = [n \in Names |-> NoRequest]
  /\ outcome = [n \in Names |-> "none"]
  /\ datasets = [n \in Names |-> 0]

Accept(n, r) ==
  /\ outcome[n] = "none"
  /\ request' = [request EXCEPT ![n] = r]
  /\ outcome' = [outcome EXCEPT ![n] = "open"]
  /\ UNCHANGED datasets

Succeed(n) ==
  /\ outcome[n] = "open"
  /\ outcome' = [outcome EXCEPT ![n] = "SUCCEEDED"]
  /\ datasets' = IF request[n] \in ImportRequests THEN [datasets EXCEPT ![n] = @ + 1] ELSE datasets
  /\ UNCHANGED request

Stop(n) ==
  /\ outcome[n] = "open"
  /\ \E how \in {"FAILED", "CANCELLED"} : outcome' = [outcome EXCEPT ![n] = how]
  /\ UNCHANGED <<request, datasets>>

Next ==
  \E n \in Names : (\E r \in Requests : Accept(n, r)) \/ Succeed(n) \/ Stop(n)

Spec == Init /\ [][Next]_vars
===============================================================================
