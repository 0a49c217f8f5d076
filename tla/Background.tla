----------------------------- MODULE Background -----------------------------
(***************************************************************************)
(* What background::run (vm/libs/background.rs) promises the scheduler,    *)
(* and all that Tasks assumes of it: a job that was submitted is done      *)
(* sooner or later, once, whatever order jobs are done in.                 *)
(***************************************************************************)
CONSTANT Jobs

VARIABLE atWork      (* submitted, and its completion not sent yet           *)

Init == atWork = {}

Submit(j) == j \notin atWork /\ atWork' = atWork \cup {j}
Done(j)   == j \in atWork /\ atWork' = atWork \ {j}

Next == \E j \in Jobs : Submit(j) \/ Done(j)

Spec == Init /\ [][Next]_atWork /\ \A j \in Jobs : WF_atWork(Done(j))
=============================================================================
