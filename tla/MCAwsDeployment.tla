--------------------------- MODULE MCAwsDeployment ---------------------------
(* Constants of the TLC runs of AwsDeployment: two containers of a component *)
(* may mount nothing, one volume, the same one, two, or one and a host path. *)
EXTENDS AwsDeployment

CONSTANTS v1, v2, h1

MCVolumes    == {v1, v2}
MCHostPaths  == {h1}
MCMountLists == {<<>>, <<v1>>, <<v1, v2>>, <<v1, v1>>, <<h1>>, <<h1, v1>>}
=============================================================================
