----------------------------- MODULE AwsCluster -----------------------------
(***************************************************************************)
(* The elastic file system of an auto-provisioned cluster: the constructor *)
(* of aws/cluster.ts 138-233 with createAutoScalingGroup and the user data *)
(* of its instances.  The constructor is one step; what it hands to `then` *)
(* of the network's promise runs in a later one, and the callback that     *)
(* makes the user data runs once the engine knows the ids it waits for.    *)
(***************************************************************************)
CONSTANT Subnets   \* the subnets the network has when its promise resolves

VARIABLES addEFS, ec2,    \* args.addEFS, args.maxSize !== 0
          network,        \* the promise of the network
          constructed,
          filesystem,     \* the constructor's variable
          mountPath,      \* this.efsMountPath
          targets,        \* the subnets with a mount target
          passed,         \* the filesystem createAutoScalingGroup was given
          userData        \* what the instances do with the file system

vars == <<addEFS, ec2, network, constructed, filesystem, mountPath, targets,
          passed, userData>>

Init ==
  /\ addEFS \in BOOLEAN
  /\ ec2 \in BOOLEAN
  /\ network \in {"pending", "resolved"}
  /\ constructed = FALSE
  /\ filesystem = "none"
  /\ mountPath = "none"
  /\ targets = {}
  /\ passed = "none"
  /\ userData = "none"

\* new Cluster: the file system is left to a callback of the network's promise.
Construct ==
  /\ ~constructed
  /\ constructed' = TRUE
  /\ mountPath' = IF addEFS THEN "mount path" ELSE "none"
  /\ passed' = IF ec2 THEN filesystem ELSE "none"
  /\ UNCHANGED <<addEFS, ec2, network, filesystem, targets, userData>>

ResolveNetwork ==
  /\ network = "pending"
  /\ network' = "resolved"
  /\ UNCHANGED <<addEFS, ec2, constructed, filesystem, mountPath, targets,
                 passed, userData>>

\* this.network.then(network => ...)
CreateFileSystem ==
  /\ constructed /\ addEFS
  /\ network = "resolved"
  /\ filesystem = "none"
  /\ filesystem' = "file system"
  /\ targets' = Subnets
  /\ UNCHANGED <<addEFS, ec2, network, constructed, mountPath, passed, userData>>

\* The callback of getInstanceUserData, once the ids are known.
MakeUserData ==
  /\ constructed /\ ec2
  /\ userData = "none"
  /\ userData' = IF passed # "none" /\ mountPath # "none" THEN "mounts" ELSE "does not mount"
  /\ UNCHANGED <<addEFS, ec2, network, constructed, filesystem, mountPath,
                 targets, passed>>

Next == Construct \/ ResolveNetwork \/ CreateFileSystem \/ MakeUserData

Spec == Init /\ [][Next]_vars

-----------------------------------------------------------------------------
(***************************************************************************)
(* The instances of a cluster that says it has a mount path mount a file   *)
(* system there: createAutoScalingGroup is described as "mounting the      *)
(* provided filesystem" (aws/cluster.ts 236-237).                          *)
(***************************************************************************)
InstancesMount == userData # "none" /\ mountPath # "none" => userData = "mounts"
=============================================================================
