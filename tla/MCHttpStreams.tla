--------------------------- MODULE MCHttpStreams ---------------------------
(* Values for the constants of HttpStreams.                                *)
EXTENDS HttpStreams

CONSTANTS j1, j2, j3, j4

MCJobs == {j1, j2, j3, j4}

(* Four jobs that are nothing to the stream, and two tasks that request    *)
(* and read it next to a third job.                                        *)
MCScripts ==
  { [j \in Jobs |-> {"other"}],
    [j \in Jobs |-> CASE j \in {j1, j2} -> {"request", "read"} [] j = j3 -> {"other"} [] j = j4 -> {}] }
=============================================================================
