--------------------------- MODULE MCPublishWorkflow ---------------------------
(* PublishWorkflow for TLC.  Runs, branches and commits are                *)
(* interchangeable, so that the runs may be taken to be dispatched in the  *)
(* order of their numbers and the first to be of c1 on main: a constraint, *)
(* where a SYMMETRY would not do for liveness.  No fair step leaves it.    *)
EXTENDS PublishWorkflow

ThreeRuns == 1..3
TwoRefs == {"main", "dev"}
TwoCommits == {"c1", "c2"}

Dispatched(r) == pc[r] # "none"

InOrder ==
    /\ \A r \in Runs : Dispatched(r) => \A s \in 1..r : Dispatched(s)
    /\ Dispatched(1) => job[1].ref = "main" /\ job[1].sha = "c1"

(* Bound: only the second run may be more than a patch. *)
OneMinor == \A r \in Runs : Dispatched(r) /\ job[r].bump # "patch" => r = 2
=============================================================================
