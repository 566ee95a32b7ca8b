----------------------------- MODULE MCMembership -----------------------------
(* Two founders and a third identity; two requests of any of them.        *)
EXTENDS Membership, TLC

Symmetry == Permutations(Requests) \cup Permutations(Founders)
===============================================================================
