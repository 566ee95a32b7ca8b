---------------------------- MODULE VersionHistory ----------------------------
(***************************************************************************)
(* What the data service promises about the versions of its datasets,      *)
(* without jobs, workers, leases or clients: every dataset has one         *)
(* append-only history, an entry is derived from the entry right before    *)
(* it (the first from nothing, by an import), no job produces two entries, *)
(* and no history grows past MaxVersions.                                  *)
(***************************************************************************)
EXTENDS Naturals, Sequences

CONSTANTS DatasetId, JobId, MaxVersions

VARIABLE history

Init == history = [d \in DatasetId |-> <<>>]

Published(j) ==
  \E d \in DatasetId : \E n \in 1..Len(history[d]) : history[d][n].job = j

Publish(d, j) ==
  /\ Len(history[d]) < MaxVersions
  /\ ~Published(j)
  /\ history' = [history EXCEPT
                   ![d] = Append(@, [job |-> j, source |-> Len(@)])]

Next == \E d \in DatasetId, j \in JobId : Publish(d, j)

Spec == Init /\ [][Next]_history
===============================================================================
