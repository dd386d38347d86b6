-------------------------- MODULE MCEventCallbacks --------------------------
(* Constants of the TLC run of EventCallbacks: on AWS an event with two      *)
(* records (a batch) and one without (the test event of S3), on Azure a       *)
(* message; two instances on AWS and one on Azure.                            *)
EXTENDS EventCallbacks, TLC

CONSTANTS batch, empty, message, x1, x2, x3

MCEvents    == {batch, empty, message}
MCRecordsOf == (batch :> {x1, x2}) @@ (empty :> {}) @@ (message :> {x3})
=============================================================================
