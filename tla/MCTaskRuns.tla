------------------------------ MODULE MCTaskRuns ------------------------------
(* Constants of the TLC runs of TaskRuns: two tasks, one variable that the   *)
(* first one sets, that the second one leaves empty, and two runs at a time. *)
EXTENDS TaskRuns, TLC

CONSTANTS t1, t2, k1, k2, v1, v2

MCEnvironment == (t1 :> ((k1 :> v1) @@ (k2 :> None)))
                   @@ (t2 :> ((k1 :> "") @@ (k2 :> v2)))
=============================================================================
