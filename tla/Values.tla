-------------------------------- MODULE Values --------------------------------
(***************************************************************************)
(* Results that are no result: a call that throws, a value left undefined. *)
(***************************************************************************)
Refused      == [refused |-> TRUE]
IsRefused(x) == "refused" \in DOMAIN x
Absent       == [absent |-> TRUE]
=============================================================================
