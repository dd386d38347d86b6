----------------------------- MODULE MCAwsTable -----------------------------
(* The TLC run of AwsTable. *)
EXTENDS AwsTable
=============================================================================
