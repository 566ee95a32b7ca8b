--------------------------- MODULE MCProviderBudget ---------------------------
(* ProviderBudget with two explanations of one member and a plan of another.  *)
EXTENDS ProviderBudget, TLC

Name(kind, user, key) == [kind |-> kind, user |-> user, key |-> key]

TwoAndAPlan ==
  {Name("EXPLANATION", "ada", 1), Name("EXPLANATION", "ada", 2), Name("PLAN", "ben", 1)}
===============================================================================
