------------------------------ MODULE MCSessions ------------------------------
(* Sessions with two logins, two callbacks under way and three sessions. *)
EXTENDS Sessions, TLC

CallbackSymmetry == Permutations(Callbacks)
===============================================================================
