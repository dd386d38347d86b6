---------------------------- MODULE MCImageBuilds ----------------------------
(* Constants of the TLC runs of ImageBuilds: three containers of one image   *)
(* and one of another.                                                       *)
EXTENDS ImageBuilds, TLC

CONSTANTS k1, k2, k3, k4, web, db

MCContainers == {k1, k2, k3, k4}
MCImages     == {web, db}
MCImageOf    == (k1 :> web) @@ (k2 :> web) @@ (k3 :> web) @@ (k4 :> db)
=============================================================================
