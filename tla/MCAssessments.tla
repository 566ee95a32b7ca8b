----------------------------- MODULE MCAssessments -----------------------------
(* Two users with two keys, two requests under way, up to three versions.  *)
EXTENDS Assessments, TLC

Symmetry == Permutations(Requests) \cup Permutations(Users)
  \cup Permutations(Keys)
===============================================================================
