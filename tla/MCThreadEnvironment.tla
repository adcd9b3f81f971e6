------------------------- MODULE MCThreadEnvironment -------------------------
(* A bounded instance of ThreadEnvironment: a handful of calls of enqueue, *)
(* more than there are workers, so that jobs have to wait for one another, *)
(* and one of them a job that throws.                                      *)
EXTENDS ThreadEnvironment

CONSTANTS j1, j2, j3, j4, w1, w2, none

FourJobs   == {j1, j2, j3, j4}
OneThrows  == {j3}
TwoWorkers == {w1, w2}

=============================================================================
