------------------------------ MODULE MCDataJobs ------------------------------
(* DataJobs on small instances. *)
EXTENDS DataJobs, TLC
===============================================================================
