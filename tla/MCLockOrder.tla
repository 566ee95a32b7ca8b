------------------------------ MODULE MCLockOrder -----------------------------
(* LockOrder on small instances. *)
EXTENDS LockOrder, TLC

CONSTANTS j1, j2, d1

MCDatasetOf == [j \in Jobs |-> d1]
===============================================================================
