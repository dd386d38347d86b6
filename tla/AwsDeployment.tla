---------------------------- MODULE AwsDeployment ----------------------------
(***************************************************************************)
(* The resources all components of one AWS deployment share, and the       *)
(* module-level variables that hold them: the compute policies, network    *)
(* and cluster of aws/shared.ts, the roles of aws/service.ts, the ECS      *)
(* settings of aws/config/index.ts, the volume names.  A Pulumi program is *)
(* one thread: it makes any sequence of calls, each of which runs to its   *)
(* end or throws part of the way, leaving what it had already done.  A     *)
(* program may catch the error and go on.                                  *)
(***************************************************************************)
EXTENDS Naturals, Sequences, FiniteSets

CONSTANTS Functions, Services, Tasks,   \* the names of the components
          Volumes,                      \* the names of the shared volumes
          HostPaths,                    \* the paths of host path volumes
          Policies,                     \* lists of policy ARNs
          Arns,                         \* ECS clusters made by the user
          Mounts,                       \* EFS mount paths
          MountLists,                   \* the volumes a component mounts
          None

ASSUME NoneAssumption  == None \notin Policies \cup Arns \cup Mounts
ASSUME MountAssumption == MountLists \subseteq Seq(Volumes \cup HostPaths)
ASSUME PathAssumption  == Volumes \cap HostPaths = {}

VARIABLES conf,         \* the stack configuration, read only
          ecs,          \* ecsClusterARN and ecsClusterEfsMountPath
          g,            \* the module-level variables and what they registered
          tried,        \* names whose constructor was called
          lambdas,      \* history: policies of the functions created
          placed,       \* history: cluster and volumes of the tasks created
          volumeNames

vars == <<conf, ecs, g, tried, lambdas, placed, volumeNames>>

Compute == Services \cup Tasks
Shared  == {"infrastructure", "network", "cluster", "taskRole", "executionRole"}
\* "incomplete": an external VPC without public subnets, which the check of
\* config lets through; "badZones": a number of zones Network rejects.
NetworkConfig == {"default", "private", "external", "incomplete", "badZones"}
Configs ==
  {c \in [network : NetworkConfig, lambdaInVPC : BOOLEAN,
          autoCluster : BOOLEAN, autoEfs : Mounts \cup {None}, fargate : BOOLEAN] :
     /\ c.network \in {"private", "badZones"} => c.lambdaInVPC
     /\ c.network = "default" => ~c.lambdaInVPC
     /\ c.network = "badZones" => c.autoCluster
     /\ c.autoEfs # None => c.autoCluster}
EcsConfig == [arn : Arns \cup {None}, efs : Mounts \cup {None}]
Cluster   == [arn : Arns \cup {"global"}, efs : Mounts \cup {None}]
ASSUME ClusterAssumption == None \notin Cluster
\* A file system and a name in it; None is the disk of the instance itself.
Directory == (Mounts \cup {None}) \X (Volumes \cup HostPaths)

-----------------------------------------------------------------------------
\* new R(...) of a shared resource: one more registration with the engine.
Register(d, x) == [d EXCEPT !.made[x] = @ + 1]

GetGlobalInfrastructureResource(d) ==
  IF d.infrastructure THEN d
  ELSE [Register(d, "infrastructure") EXCEPT !.infrastructure = TRUE]

\* Throws, so that network stays unset, when the external VPC is incomplete
\* and, once the component is registered, when the zones are rejected.
GetOrCreateNetwork(d) ==
  CASE d.network -> d
    [] ~d.network /\ conf.network = "incomplete" -> d
    [] ~d.network /\ conf.network = "badZones"   -> Register(d, "network")
    [] OTHER -> [Register(d, "network") EXCEPT !.network = TRUE]

NewCluster(d, efs) ==
  LET e == GetOrCreateNetwork(d)
  IN  IF e.network
      THEN [Register(e, "cluster") EXCEPT !.cluster = [arn |-> "global", efs |-> efs]]
      ELSE e

\* Mutants of GetCluster: the ECS settings are used although there is no ARN;
\* an ARN is looked at before the cached cluster.
GetClusterUnchecked(d) ==
  CASE d.cluster # None -> d
    [] d.cluster = None /\ conf.autoCluster -> NewCluster(d, conf.autoEfs)
    [] OTHER -> [d EXCEPT !.cluster = ecs]
GetClusterUncached(d) ==
  CASE ~conf.autoCluster /\ ecs.arn # None -> [d EXCEPT !.cluster = ecs]
    [] d.cluster = None /\ conf.autoCluster -> NewCluster(d, conf.autoEfs)
    [] d.cluster = None /\ ~conf.autoCluster /\ ecs.arn = None /\ conf.fargate ->
         NewCluster(d, None)
    [] OTHER -> d

GetCluster(d) ==
  CASE d.cluster # None -> d
    [] d.cluster = None /\ conf.autoCluster -> NewCluster(d, conf.autoEfs)
    [] d.cluster = None /\ ~conf.autoCluster /\ ecs.arn # None ->
         [d EXCEPT !.cluster = ecs]
    [] d.cluster = None /\ ~conf.autoCluster /\ ecs.arn = None /\ conf.fargate ->
         NewCluster(d, None)
    [] OTHER -> d

GetTaskRole(d) ==
  IF d.taskRole # None THEN d
  ELSE [Register(GetGlobalInfrastructureResource(d), "taskRole")
          EXCEPT !.accessed = TRUE, !.taskRole = d.policies]

\* Mutant of GetExecutionRole: the variable is never set.
GetExecutionRoleAgain(d) == Register(GetGlobalInfrastructureResource(d), "executionRole")

GetExecutionRole(d) ==
  IF d.executionRole THEN d
  ELSE [Register(GetGlobalInfrastructureResource(d), "executionRole")
          EXCEPT !.executionRole = TRUE]

\* Mutant of HostPath: the mount path is read from the configuration.
HostPathFromConfig(d, v) == IF v \in HostPaths THEN <<None, v>> ELSE <<ecs.efs, v>>

\* getHostPath: the directory of volume v, for a shared one in the file system
\* of the cluster getCluster() now answers with; getVolumeName hashes the name.
HostPath(d, v) ==
  IF v \in HostPaths THEN <<None, v>> ELSE <<GetCluster(d).cluster.efs, v>>

\* What is left when the volumes were collected: getCluster() was called again
\* for each shared one, and throws when there is nowhere to put it.
Shares(mounts)      == \E i \in 1..Len(mounts) : mounts[i] \in Volumes
Collect(d, mounts)  == IF Shares(mounts) THEN GetCluster(d) ELSE d
MountsFail(d, mounts) ==
  Shares(mounts) /\ (GetCluster(d).cluster = None \/ GetCluster(d).cluster.efs = None)

\* createTaskDefinition for component x on the cluster it was constructed with:
\* the volumes, the containers (one without image, build and function throws),
\* then the roles.
CreateTaskDefinition(d, x, cluster, mounts, fault) ==
  LET e == Collect(d, mounts)
  IN  IF MountsFail(d, mounts) \/ fault = "noImage"
      THEN g' = e /\ UNCHANGED placed
      ELSE /\ g' = GetExecutionRole(GetTaskRole(e))
           /\ placed' = [placed EXCEPT ![x] =
                [cluster |-> cluster,
                 volumes |-> [i \in 1..Len(mounts) |-> HostPath(d, mounts[i])]]]

-----------------------------------------------------------------------------
Init ==
  /\ conf \in Configs
  /\ ecs \in EcsConfig
  /\ \E p \in Policies :
       g = [policies |-> p, accessed |-> FALSE, infrastructure |-> FALSE,
            network |-> FALSE, cluster |-> None, taskRole |-> None,
            executionRole |-> FALSE, made |-> [x \in Shared |-> 0]]
  /\ tried = {}
  /\ lambdas = [f \in Functions |-> None]
  /\ placed = [x \in Compute |-> None]
  /\ volumeNames = {}

\* Mutant of SetPolicies: no check that the policies were accessed.
SetPoliciesLate(p) ==
  /\ g' = [g EXCEPT !.policies = p]
  /\ UNCHANGED <<conf, ecs, tried, lambdas, placed, volumeNames>>

\* setComputeIAMRolePolicies throws once the policies have been accessed.
SetPolicies(p) ==
  /\ ~g.accessed
  /\ g' = [g EXCEPT !.policies = p]
  /\ UNCHANGED <<conf, ecs, tried, lambdas, placed, volumeNames>>

\* A mount path that is left out keeps the one there was.
SetEcsCluster(arn, efs) ==
  /\ ecs' = [arn |-> arn, efs |-> IF efs = None THEN ecs.efs ELSE efs]
  /\ UNCHANGED <<conf, g, tried, lambdas, placed, volumeNames>>

\* new Function(f): a copy of the policies, then the network if in the VPC.
AccessPolicies(d) == [d EXCEPT !.accessed = TRUE]
CreateFunction(f) ==
  /\ f \notin tried
  /\ tried' = tried \cup {f}
  /\ g' = IF conf.lambdaInVPC
          THEN GetOrCreateNetwork(AccessPolicies(g)) ELSE AccessPolicies(g)
  /\ lambdas' = IF conf.lambdaInVPC => g'.network
                THEN [lambdas EXCEPT ![f] = g.policies] ELSE lambdas
  /\ UNCHANGED <<conf, ecs, placed, volumeNames>>

\* What is wrong with the arguments of a component, if anything: both or none
\* of image and containers, a second port or an unknown protocol, a container
\* without image, build and function.
Faults == {"none", "arguments", "ports", "noImage"}

\* new Service(s): the cluster, the arguments, the network, then the ports.
CreateService(s, mounts, fault) ==
  /\ s \notin tried
  /\ tried' = tried \cup {s}
  /\ LET c == GetCluster(g)
         n == GetOrCreateNetwork(c)
     IN  IF c.cluster = None \/ fault = "arguments" THEN g' = c /\ UNCHANGED placed
         ELSE IF ~n.network \/ fault = "ports" THEN g' = n /\ UNCHANGED placed
         ELSE CreateTaskDefinition(n, s, c.cluster, mounts, fault)
  /\ UNCHANGED <<conf, ecs, lambdas, volumeNames>>

\* new Task(t): the network first, then the cluster.
CreateTask(t, mounts, fault) ==
  /\ t \notin tried
  /\ tried' = tried \cup {t}
  /\ LET n == GetOrCreateNetwork(g)
         c == GetCluster(n)
     IN  IF ~n.network THEN g' = n /\ UNCHANGED placed
         ELSE IF c.cluster = None THEN g' = c /\ UNCHANGED placed
         ELSE CreateTaskDefinition(c, t, c.cluster, mounts, fault)
  /\ UNCHANGED <<conf, ecs, lambdas, volumeNames>>

\* The static Service.getTaskRole and Task.getTaskRole.
ExposeTaskRole ==
  /\ g' = GetTaskRole(g)
  /\ UNCHANGED <<conf, ecs, tried, lambdas, placed, volumeNames>>

\* new SharedVolume(v) throws when the name was used before.
CreateVolume(v) ==
  /\ v \notin volumeNames
  /\ volumeNames' = volumeNames \cup {v}
  /\ UNCHANGED <<conf, ecs, g, tried, lambdas, placed>>

Mountable ==
  {m \in MountLists : \A i \in 1..Len(m) : m[i] \in volumeNames \cup HostPaths}

Next ==
  \/ \E p \in Policies : SetPolicies(p)
  \/ \E arn \in Arns, efs \in Mounts \cup {None} : SetEcsCluster(arn, efs)
  \/ \E f \in Functions : CreateFunction(f)
  \/ \E s \in Services, m \in Mountable, e \in Faults : CreateService(s, m, e)
  \/ \E t \in Tasks, m \in Mountable, e \in {"none", "noImage"} : CreateTask(t, m, e)
  \/ ExposeTaskRole
  \/ \E v \in Volumes : CreateVolume(v)

Spec == Init /\ [][Next]_vars

-----------------------------------------------------------------------------
Globals ==
  [policies : Policies, accessed : BOOLEAN, infrastructure : BOOLEAN,
   network : BOOLEAN, cluster : Cluster \cup {None},
   taskRole : Policies \cup {None}, executionRole : BOOLEAN, made : [Shared -> Nat]]

TypeOK ==
  /\ conf \in Configs
  /\ ecs \in EcsConfig
  /\ g \in Globals
  /\ tried \subseteq Functions \cup Compute
  /\ lambdas \in [Functions -> Policies \cup {None}]
  /\ placed \in [Compute -> [cluster : Cluster, volumes : Seq(Directory)] \cup {None}]
  /\ volumeNames \subseteq Volumes

(***************************************************************************)
(* Every function of the deployment and the role of its containers got the *)
(* same policies, although the program may set them at any time: once one  *)
(* component has copied them they cannot change (aws/shared.ts 99-117).    *)
(***************************************************************************)
PoliciesAgree ==
  LET given == ({lambdas[f] : f \in Functions} \cup {g.taskRole}) \ {None}
  IN  \A p, q \in given : p = q

(***************************************************************************)
(* However calls fail and components are created, each shared resource is  *)
(* registered once: a second one would have the URN of the first.  The one *)
(* exception is a network with a rejected number of zones, which registers *)
(* before it throws (aws/network.ts 189-206).                              *)
(***************************************************************************)
SharedOnce ==
  \A x \in Shared : g.made[x] > 1 => x = "network" /\ conf.network = "badZones"

Created == {x \in Compute : placed[x] # None}

(***************************************************************************)
(* All services and tasks of a deployment run on one cluster, even when    *)
(* setEcsCluster is called between two of them (aws/shared.ts 171-216).    *)
(***************************************************************************)
OneCluster ==
  \A x, y \in Created : placed[x].cluster = placed[y].cluster

(***************************************************************************)
(* A shared volume is one directory for all who mount it: it lies in the   *)
(* file system of the cluster that every component runs on, whichever      *)
(* cluster setEcsCluster named between the constructor's getCluster() and  *)
(* getHostPath's, or between two components (aws/service.ts 658, 858-874). *)
(***************************************************************************)
VolumesOnCluster ==
  \A x, y \in Created : \A i \in DOMAIN placed[x].volumes :
    LET dir == placed[x].volumes[i]
    IN  dir[2] \in Volumes => dir[1] # None /\ dir[1] = placed[y].cluster.efs
=============================================================================
