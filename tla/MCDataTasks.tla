----------------------------- MODULE MCDataTasks -----------------------------
(* DataTasks on small instances. *)
EXTENDS DataTasks, TLC

Analysis == [kind |-> "ANALYSIS", external |-> FALSE, body |-> 1]
Source == [kind |-> "SOURCE", external |-> FALSE, body |-> 1]
LivePlan == [kind |-> "PLAN", external |-> TRUE, body |-> 1]

OneSource == {Source}
AllRequests == {Analysis, Source, LivePlan}
===============================================================================
