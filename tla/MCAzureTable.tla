---------------------------- MODULE MCAzureTable ----------------------------
(* The TLC runs of AzureTable. *)
EXTENDS AzureTable
=============================================================================
