------------------------ MODULE AwsDeploymentProofs ------------------------
(***************************************************************************)
(* Proofs about AwsDeployment: whatever the program calls, whatever fails  *)
(* and however the stack is configured, the shared state of a deployment   *)
(* stays consistent.  The argument: each helper maps a Good record of      *)
(* module-level variables to a Good one and takes nothing back (Keeps), so *)
(* every handler, a composition of helpers, does.                          *)
(***************************************************************************)
EXTENDS AwsDeployment, TLAPS

\* Once registered, a shared resource is remembered, except the network.
Counted(d) ==
  /\ \A x \in Shared \ {"network"} : d.made[x] <= 1
  /\ ~d.infrastructure => d.made["infrastructure"] = 0
  /\ d.cluster = None => d.made["cluster"] = 0
  /\ d.taskRole = None => d.made["taskRole"] = 0
  /\ ~d.executionRole => d.made["executionRole"] = 0
  /\ conf.network # "badZones" =>
       d.made["network"] <= 1 /\ (~d.network => d.made["network"] = 0)

Good(d) ==
  /\ d \in Globals
  /\ d.taskRole # None => d.accessed /\ d.taskRole = d.policies
  /\ Counted(d)

\* What no helper takes back.
Keeps(d, e) ==
  /\ e.policies = d.policies
  /\ d.accessed => e.accessed
  /\ d.cluster # None => e.cluster = d.cluster
  /\ d.network => e.network

LEMMA KeepsTransitive ==
  ASSUME NEW c, NEW d, NEW e, Keeps(c, d), Keeps(d, e)
  PROVE  Keeps(c, e)
BY DEF Keeps

LEMMA KeepsItself == ASSUME NEW d PROVE Keeps(d, d)
BY DEF Keeps

\* Everything a registration does.
LEMMA RegisterFields ==
  ASSUME NEW d \in Globals, NEW x \in Shared
  PROVE  LET e == Register(d, x)
         IN  /\ e \in Globals
             /\ e.policies = d.policies /\ e.accessed = d.accessed
             /\ e.infrastructure = d.infrastructure /\ e.network = d.network
             /\ e.cluster = d.cluster /\ e.taskRole = d.taskRole
             /\ e.executionRole = d.executionRole
             /\ e.made[x] = d.made[x] + 1
             /\ \A y \in Shared : d.made[y] \in Nat /\ (y # x => e.made[y] = d.made[y])
BY DEF Register, Globals

LEMMA InfrastructureGood ==
  ASSUME NEW d, Good(d)
  PROVE  LET e == GetGlobalInfrastructureResource(d)
         IN  /\ Good(e) /\ Keeps(d, e)
             /\ e.taskRole = d.taskRole /\ e.executionRole = d.executionRole
<1>1. CASE d.infrastructure
  BY <1>1 DEF GetGlobalInfrastructureResource, Keeps
<1>2. CASE ~d.infrastructure
  <2> DEFINE r == Register(d, "infrastructure")
             e == [r EXCEPT !.infrastructure = TRUE]
  <2>1. d \in Globals /\ "infrastructure" \in Shared
    BY DEF Good, Shared
  <2>2. GetGlobalInfrastructureResource(d) = e
    BY <1>2 DEF GetGlobalInfrastructureResource
  <2>3. /\ r \in Globals
        /\ r.policies = d.policies /\ r.accessed = d.accessed
        /\ r.network = d.network
        /\ r.cluster = d.cluster /\ r.taskRole = d.taskRole
        /\ r.executionRole = d.executionRole
        /\ r.made["infrastructure"] = d.made["infrastructure"] + 1
        /\ \A y \in Shared : d.made[y] \in Nat
             /\ (y # "infrastructure" => r.made[y] = d.made[y])
    BY <2>1, RegisterFields
  <2> HIDE DEF r
  <2>4. /\ e \in Globals
        /\ e.infrastructure = TRUE
        /\ e.policies = d.policies /\ e.accessed = d.accessed
        /\ e.network = d.network
        /\ e.cluster = d.cluster /\ e.taskRole = d.taskRole
        /\ e.executionRole = d.executionRole
        /\ e.made = r.made
    BY <2>3 DEF Globals
  <2> HIDE DEF e
  <2>5. Counted(e)
    BY <1>2, <2>3, <2>4 DEF Good, Counted, Shared
  <2> QED
    BY <2>2, <2>4, <2>5 DEF Good, Keeps
<1> QED BY <1>1, <1>2

LEMMA NetworkGood ==
  ASSUME NEW d, Good(d)
  PROVE  LET e == GetOrCreateNetwork(d)
         IN  Good(e) /\ Keeps(d, e) /\ e.cluster = d.cluster
<1> DEFINE r == Register(d, "network")
           e == [r EXCEPT !.network = TRUE]
<1>1. d \in Globals /\ "network" \in Shared /\ d.network \in BOOLEAN
  BY DEF Good, Shared, Globals
<1>2. /\ r \in Globals
      /\ r.policies = d.policies /\ r.accessed = d.accessed
      /\ r.infrastructure = d.infrastructure /\ r.network = d.network
      /\ r.cluster = d.cluster /\ r.taskRole = d.taskRole
      /\ r.executionRole = d.executionRole
      /\ r.made["network"] = d.made["network"] + 1
      /\ \A y \in Shared : d.made[y] \in Nat
           /\ (y # "network" => r.made[y] = d.made[y])
  BY <1>1, RegisterFields
<1> HIDE DEF r
<1>3. /\ e \in Globals
      /\ e.network = TRUE
      /\ e.policies = d.policies /\ e.accessed = d.accessed
      /\ e.infrastructure = d.infrastructure
      /\ e.cluster = d.cluster /\ e.taskRole = d.taskRole
      /\ e.executionRole = d.executionRole
      /\ e.made = r.made
  BY <1>2 DEF Globals
<1> HIDE DEF e
<1>4. CASE d.network \/ conf.network = "incomplete"
  <2>1. GetOrCreateNetwork(d) = d
    BY <1>1, <1>4 DEF GetOrCreateNetwork
  <2> QED BY <2>1 DEF Keeps
<1>5. CASE ~d.network /\ conf.network = "badZones"
  <2>1. GetOrCreateNetwork(d) = r
    BY <1>5 DEF GetOrCreateNetwork, r
  <2>2. Counted(r)
    BY <1>2, <1>5 DEF Good, Counted, Shared
  <2> QED
    BY <1>2, <2>1, <2>2 DEF Good, Keeps
<1>6. CASE ~d.network /\ conf.network \notin {"incomplete", "badZones"}
  <2>1. GetOrCreateNetwork(d) = e
    BY <1>6 DEF GetOrCreateNetwork, e, r
  <2>2. Counted(e)
    BY <1>2, <1>3, <1>6 DEF Good, Counted, Shared
  <2> QED
    BY <1>3, <2>1, <2>2 DEF Good, Keeps
<1> QED BY <1>1, <1>4, <1>5, <1>6

LEMMA NewClusterGood ==
  ASSUME NEW d, Good(d), d.cluster = None, NEW efs \in Mounts \cup {None}
  PROVE  Good(NewCluster(d, efs)) /\ Keeps(d, NewCluster(d, efs))
<1> DEFINE n == GetOrCreateNetwork(d)
           r == Register(n, "cluster")
           c == [arn |-> "global", efs |-> efs]
           e == [r EXCEPT !.cluster = c]
<1>1. Good(n) /\ Keeps(d, n) /\ n.cluster = None
  BY NetworkGood
<1>2. NewCluster(d, efs) = IF n.network THEN e ELSE n
  BY DEF NewCluster
<1> HIDE DEF n
<1>3. n \in Globals /\ "cluster" \in Shared /\ c \in Cluster
  BY <1>1 DEF Good, Shared, Cluster
<1>4. /\ r \in Globals
      /\ r.policies = n.policies /\ r.accessed = n.accessed
      /\ r.infrastructure = n.infrastructure /\ r.network = n.network
      /\ r.taskRole = n.taskRole
      /\ r.executionRole = n.executionRole
      /\ r.made["cluster"] = n.made["cluster"] + 1
      /\ \A y \in Shared : n.made[y] \in Nat
           /\ (y # "cluster" => r.made[y] = n.made[y])
  BY <1>3, RegisterFields
<1> HIDE DEF r
<1>5. /\ e \in Globals
      /\ e.cluster = c
      /\ e.policies = n.policies /\ e.accessed = n.accessed
      /\ e.infrastructure = n.infrastructure /\ e.network = n.network
      /\ e.taskRole = n.taskRole
      /\ e.executionRole = n.executionRole
      /\ e.made = r.made
  BY <1>3, <1>4 DEF Globals
<1> HIDE DEF e
<1>6. Counted(e)
  BY <1>1, <1>3, <1>4, <1>5, ClusterAssumption DEF Good, Counted, Shared
<1>7. Good(e) /\ Keeps(d, e)
  BY <1>1, <1>5, <1>6 DEF Good, Keeps
<1> QED BY <1>1, <1>2, <1>7

LEMMA ClusterGood ==
  ASSUME NEW d, Good(d), conf \in Configs, ecs \in EcsConfig
  PROVE  Good(GetCluster(d)) /\ Keeps(d, GetCluster(d))
<1>1. conf.autoEfs \in Mounts \cup {None} /\ conf.autoCluster \in BOOLEAN
  BY DEF Configs
<1>2. CASE GetCluster(d) = d
  BY <1>2 DEF Keeps
<1>3. CASE d.cluster = None /\ (conf.autoCluster \/ (ecs.arn = None /\ conf.fargate))
  <2>1. PICK efs \in Mounts \cup {None} : GetCluster(d) = NewCluster(d, efs)
    BY <1>1, <1>3 DEF GetCluster
  <2> QED BY <1>3, <2>1, NewClusterGood
<1>4. CASE d.cluster = None /\ ~conf.autoCluster /\ ecs.arn # None
  <2> DEFINE e == [d EXCEPT !.cluster = ecs]
  <2>1. GetCluster(d) = e
    BY <1>4 DEF GetCluster
  <2>2. ecs \in Cluster /\ ecs # None
    <3>1. ecs = [arn |-> ecs.arn, efs |-> ecs.efs] /\ ecs.arn \in Arns
          /\ ecs.efs \in Mounts \cup {None}
      BY <1>4 DEF EcsConfig
    <3>2. ecs \in Cluster
      BY <3>1 DEF Cluster
    <3> QED BY <3>2, ClusterAssumption
  <2>3. /\ e \in Globals /\ e.cluster = ecs
        /\ e.policies = d.policies /\ e.accessed = d.accessed
        /\ e.infrastructure = d.infrastructure /\ e.network = d.network
        /\ e.taskRole = d.taskRole
        /\ e.executionRole = d.executionRole
        /\ e.made = d.made
    BY <2>2 DEF Good, Globals
  <2> HIDE DEF e
  <2>4. Good(e) /\ Keeps(d, e)
    BY <1>4, <2>2, <2>3 DEF Good, Keeps, Counted, Shared
  <2> QED BY <2>1, <2>4
<1> QED BY <1>1, <1>2, <1>3, <1>4 DEF GetCluster

LEMMA TaskRoleGood ==
  ASSUME NEW d, Good(d)
  PROVE  Good(GetTaskRole(d)) /\ Keeps(d, GetTaskRole(d))
<1> DEFINE n == GetGlobalInfrastructureResource(d)
           r == Register(n, "taskRole")
           e == [r EXCEPT !.accessed = TRUE, !.taskRole = d.policies]
<1>1. Good(n) /\ Keeps(d, n) /\ n.taskRole = d.taskRole
  BY InfrastructureGood
<1>2. GetTaskRole(d) = IF d.taskRole # None THEN d ELSE e
  BY DEF GetTaskRole
<1> HIDE DEF n
<1>3. n \in Globals /\ "taskRole" \in Shared /\ d.policies \in Policies
  BY <1>1 DEF Good, Shared, Globals
<1>4. /\ r \in Globals
      /\ r.policies = n.policies
      /\ r.infrastructure = n.infrastructure /\ r.network = n.network
      /\ r.cluster = n.cluster
      /\ r.executionRole = n.executionRole
      /\ r.made["taskRole"] = n.made["taskRole"] + 1
      /\ \A y \in Shared : n.made[y] \in Nat
           /\ (y # "taskRole" => r.made[y] = n.made[y])
  BY <1>3, RegisterFields
<1> HIDE DEF r
<1>5. /\ e \in Globals
      /\ e.taskRole = d.policies /\ e.accessed = TRUE
      /\ e.policies = n.policies
      /\ e.infrastructure = n.infrastructure /\ e.network = n.network
      /\ e.cluster = n.cluster
      /\ e.executionRole = n.executionRole
      /\ e.made = r.made
  BY <1>3, <1>4 DEF Globals
<1> HIDE DEF e
<1>6. CASE d.taskRole # None
  BY <1>2, <1>6 DEF Keeps
<1>7. CASE d.taskRole = None
  <2>1. Counted(e)
    BY <1>1, <1>3, <1>4, <1>5, <1>7, NoneAssumption DEF Good, Counted, Shared
  <2>2. Good(e) /\ Keeps(d, e)
    BY <1>1, <1>5, <2>1 DEF Good, Keeps
  <2> QED BY <1>2, <1>7, <2>2
<1> QED BY <1>6, <1>7

LEMMA ExecutionRoleGood ==
  ASSUME NEW d, Good(d)
  PROVE  Good(GetExecutionRole(d)) /\ Keeps(d, GetExecutionRole(d))
<1> DEFINE n == GetGlobalInfrastructureResource(d)
           r == Register(n, "executionRole")
           e == [r EXCEPT !.executionRole = TRUE]
<1>1. Good(n) /\ Keeps(d, n) /\ n.executionRole = d.executionRole
  BY InfrastructureGood
<1>2. GetExecutionRole(d) = IF d.executionRole THEN d ELSE e
  BY DEF GetExecutionRole
<1> HIDE DEF n
<1>3. n \in Globals /\ "executionRole" \in Shared
  BY <1>1 DEF Good, Shared
<1>4. /\ r \in Globals
      /\ r.policies = n.policies /\ r.accessed = n.accessed
      /\ r.infrastructure = n.infrastructure /\ r.network = n.network
      /\ r.cluster = n.cluster /\ r.taskRole = n.taskRole
      /\ r.made["executionRole"] = n.made["executionRole"] + 1
      /\ \A y \in Shared : n.made[y] \in Nat
           /\ (y # "executionRole" => r.made[y] = n.made[y])
  BY <1>3, RegisterFields
<1> HIDE DEF r
<1>5. /\ e \in Globals
      /\ e.executionRole = TRUE
      /\ e.policies = n.policies /\ e.accessed = n.accessed
      /\ e.infrastructure = n.infrastructure /\ e.network = n.network
      /\ e.cluster = n.cluster /\ e.taskRole = n.taskRole
      /\ e.made = r.made
  BY <1>4 DEF Globals
<1> HIDE DEF e
<1>6. CASE d.executionRole
  BY <1>2, <1>6 DEF Keeps
<1>7. CASE ~d.executionRole
  <2>1. Counted(e)
    BY <1>1, <1>3, <1>4, <1>5, <1>7 DEF Good, Counted, Shared
  <2>2. Good(e) /\ Keeps(d, e)
    BY <1>1, <1>5, <2>1 DEF Good, Keeps
  <2> QED BY <1>2, <1>7, <2>2
<1> QED BY <1>6, <1>7

LEMMA AccessGood ==
  ASSUME NEW d, Good(d)
  PROVE  LET e == AccessPolicies(d)
         IN  /\ Good(e) /\ Keeps(d, e) /\ e.accessed /\ e.policies = d.policies
<1> DEFINE e == AccessPolicies(d)
<1>1. /\ e \in Globals /\ e.accessed = TRUE
      /\ e.policies = d.policies
      /\ e.infrastructure = d.infrastructure /\ e.network = d.network
      /\ e.cluster = d.cluster /\ e.taskRole = d.taskRole
      /\ e.executionRole = d.executionRole
      /\ e.made = d.made
  BY DEF Good, Globals, AccessPolicies
<1> HIDE DEF e
<1>2. Good(e) /\ Keeps(d, e)
  BY <1>1 DEF Good, Keeps, Counted, Shared
<1> QED BY <1>1, <1>2 DEF e

-----------------------------------------------------------------------------
\* Placed component x runs on the cluster every later one will get too.
OnCluster(x) ==
  placed[x] # None =>
    /\ placed[x].cluster = g.cluster
    /\ g.cluster # None
    /\ \A i \in DOMAIN placed[x].volumes : placed[x].volumes[i][2] \in Volumes =>
         /\ placed[x].cluster.efs # None
         /\ placed[x].volumes[i][1] = placed[x].cluster.efs

Inv ==
  /\ TypeOK
  /\ Good(g)
  /\ \A f \in Functions : lambdas[f] # None => g.accessed /\ lambdas[f] = g.policies
  /\ \A x \in Compute : OnCluster(x)

\* The cluster a component got is the one getHostPath gets when it asks again.
LEMMA SameCluster ==
  ASSUME NEW d, d.cluster # None
  PROVE  GetCluster(d) = d
BY DEF GetCluster

\* A task definition of a component that was constructed on the cluster of d.
LEMMA TaskDefinitionStep ==
  ASSUME Inv, NEW d, Good(d), Keeps(g, d), d.cluster # None,
         NEW x \in Compute, NEW mounts \in Mountable, NEW fault,
         CreateTaskDefinition(d, x, d.cluster, mounts, fault)
  PROVE  /\ Good(g') /\ Keeps(g, g')
         /\ placed' \in [Compute -> [cluster : Cluster, volumes : Seq(Directory)] \cup {None}]
         /\ \A y \in Compute : placed'[y] # None =>
              /\ placed'[y].cluster = g'.cluster
              /\ g'.cluster # None
              /\ \A i \in DOMAIN placed'[y].volumes : placed'[y].volumes[i][2] \in Volumes =>
                   /\ placed'[y].cluster.efs # None
                   /\ placed'[y].volumes[i][1] = placed'[y].cluster.efs
<1> DEFINE throws == MountsFail(d, mounts) \/ fault = "noImage"
<1>1. GetCluster(d) = d /\ Collect(d, mounts) = d
  BY SameCluster DEF Collect
<1>2. CASE throws
  <2>1. g' = d /\ placed' = placed
    BY <1>1, <1>2 DEF CreateTaskDefinition
  <2> QED BY <2>1 DEF Inv, TypeOK, OnCluster, Keeps
<1>3. CASE ~throws
  <2> DEFINE e == GetExecutionRole(GetTaskRole(d))
             v == [i \in 1..Len(mounts) |-> HostPath(d, mounts[i])]
             p == [cluster |-> d.cluster, volumes |-> v]
  <2>1. g' = e /\ placed' = [placed EXCEPT ![x] = p]
    BY <1>1, <1>3 DEF CreateTaskDefinition
  <2>2. Good(e) /\ Keeps(d, e) /\ Keeps(g, e)
    BY TaskRoleGood, ExecutionRoleGood, KeepsTransitive
  <2> HIDE DEF e
  <2>3. d.cluster \in Cluster /\ d.cluster.efs \in Mounts \cup {None}
    BY DEF Good, Globals, Cluster
  <2>4. mounts \in Seq(Volumes \cup HostPaths) /\ Len(mounts) \in Nat
        /\ \A i \in 1..Len(mounts) : mounts[i] \in Volumes \cup HostPaths
    BY MountAssumption DEF Mountable
  <2>5. v \in Seq(Directory)
    BY <1>1, <2>3, <2>4 DEF HostPath, Directory
  <2>6. ASSUME NEW i \in DOMAIN v, v[i][2] \in Volumes
        PROVE  d.cluster.efs # None /\ v[i][1] = d.cluster.efs
    <3>1. i \in 1..Len(mounts) /\ v[i] = HostPath(d, mounts[i])
          /\ mounts[i] \in Volumes \cup HostPaths
      BY <2>4
    <3>2. mounts[i] \in Volumes /\ mounts[i] \notin HostPaths
      BY <2>6, <3>1, PathAssumption DEF HostPath
    <3>3. v[i] = <<d.cluster.efs, mounts[i]>>
      BY <1>1, <3>1, <3>2 DEF HostPath
    <3> QED BY <1>1, <1>3, <3>1, <3>2, <3>3 DEF MountsFail, Shares
  <2> HIDE DEF v
  <2>7. p \in [cluster : Cluster, volumes : Seq(Directory)]
    BY <2>3, <2>5
  <2>8. placed \in [Compute -> [cluster : Cluster, volumes : Seq(Directory)] \cup {None}]
    BY DEF Inv, TypeOK
  <2>9. placed'[x] = p /\ \A y \in Compute \ {x} : placed'[y] = placed[y]
    BY <2>1, <2>8
  <2>10. g'.cluster = d.cluster
    BY <2>1, <2>2 DEF Keeps
  <2>11. ASSUME NEW y \in Compute \ {x}, placed[y] # None
         PROVE  placed[y].cluster = g'.cluster
    BY <2>10, <2>11 DEF Inv, OnCluster, Keeps
  <2>12. \A y \in Compute : placed'[y] # None =>
           /\ placed'[y].cluster = g'.cluster
           /\ \A i \in DOMAIN placed'[y].volumes : placed'[y].volumes[i][2] \in Volumes =>
                /\ placed'[y].cluster.efs # None
                /\ placed'[y].volumes[i][1] = placed'[y].cluster.efs
    BY <2>6, <2>9, <2>10, <2>11 DEF Inv, OnCluster
  <2> QED
    BY <2>1, <2>2, <2>7, <2>8, <2>10, <2>12
<1> QED BY <1>2, <1>3

\* What a step must do to what Inv says of g, lambdas and placed.
StepOK ==
  /\ Good(g') /\ Keeps(g, g')
  /\ lambdas' \in [Functions -> Policies \cup {None}]
  /\ \A f \in Functions : lambdas'[f] # None => g'.accessed /\ lambdas'[f] = g'.policies
  /\ placed' \in [Compute -> [cluster : Cluster, volumes : Seq(Directory)] \cup {None}]
  /\ \A y \in Compute : placed'[y] # None =>
       /\ placed'[y].cluster = g'.cluster
       /\ g'.cluster # None
       /\ \A i \in DOMAIN placed'[y].volumes : placed'[y].volumes[i][2] \in Volumes =>
            /\ placed'[y].cluster.efs # None
            /\ placed'[y].volumes[i][1] = placed'[y].cluster.efs

LEMMA KeepingStep ==
  ASSUME Inv, Good(g'), Keeps(g, g'), UNCHANGED <<lambdas, placed>>
  PROVE  StepOK
BY DEF StepOK, Inv, TypeOK, OnCluster, Keeps

LEMMA FunctionStep ==
  ASSUME Inv, NEW f \in Functions, CreateFunction(f)
  PROVE  StepOK
<1> DEFINE d == AccessPolicies(g)
           n == GetOrCreateNetwork(d)
<1>1. Good(d) /\ Keeps(g, d) /\ d.accessed /\ d.policies = g.policies
  BY AccessGood DEF Inv
<1>2. Good(n) /\ Keeps(d, n)
  BY <1>1, NetworkGood
<1>3. g' = n \/ g' = d
  BY DEF CreateFunction
<1>4. Good(g') /\ Keeps(g, g') /\ g'.accessed /\ g'.policies = g.policies
  BY <1>1, <1>2, <1>3 DEF Keeps
<1>5. UNCHANGED placed /\ lambdas' \in {lambdas, [lambdas EXCEPT ![f] = g.policies]}
  BY DEF CreateFunction
<1>6. g.policies \in Policies
  BY DEF Inv, Good, Globals
<1>7. CASE lambdas' = lambdas
  BY <1>4, <1>5, <1>7, KeepingStep
<1>8. CASE lambdas' = [lambdas EXCEPT ![f] = g.policies]
  <2>1. lambdas' \in [Functions -> Policies \cup {None}]
    BY <1>6, <1>8 DEF Inv, TypeOK
  <2>2. \A h \in Functions : lambdas'[h] # None => lambdas'[h] = g'.policies
    BY <1>4, <1>8 DEF Inv, TypeOK
  <2> QED BY <1>4, <1>5, <2>1, <2>2 DEF StepOK, Inv, TypeOK, OnCluster, Keeps
<1> QED BY <1>5, <1>7, <1>8

LEMMA ServiceStep ==
  ASSUME Inv, NEW s \in Services, NEW m \in Mountable, NEW fault \in Faults,
         CreateService(s, m, fault)
  PROVE  StepOK
<1> DEFINE c == GetCluster(g)
           n == GetOrCreateNetwork(c)
<1>1. Good(c) /\ Keeps(g, c)
  BY ClusterGood DEF Inv, TypeOK
<1>2. Good(n) /\ Keeps(c, n) /\ n.cluster = c.cluster
  BY <1>1, NetworkGood
<1>3. Keeps(g, n)
  BY <1>1, <1>2, KeepsTransitive
<1>4. UNCHANGED lambdas
  BY DEF CreateService
<1>5. \/ g' \in {c, n} /\ UNCHANGED placed
      \/ c.cluster # None /\ CreateTaskDefinition(n, s, n.cluster, m, fault)
  BY <1>2 DEF CreateService
<1> HIDE DEF c, n
<1>6. CASE g' \in {c, n} /\ UNCHANGED placed
  BY <1>1, <1>2, <1>3, <1>4, <1>6, KeepingStep
<1>7. CASE c.cluster # None /\ CreateTaskDefinition(n, s, n.cluster, m, fault)
  <2>1. s \in Compute
    BY DEF Compute
  <2> QED
    BY <1>2, <1>3, <1>4, <1>7, <2>1, TaskDefinitionStep DEF StepOK, Inv, TypeOK, Keeps
<1> QED BY <1>5, <1>6, <1>7

LEMMA TaskStep ==
  ASSUME Inv, NEW t \in Tasks, NEW m \in Mountable, NEW fault \in {"none", "noImage"},
         CreateTask(t, m, fault)
  PROVE  StepOK
<1> DEFINE n == GetOrCreateNetwork(g)
           c == GetCluster(n)
<1>1. Good(n) /\ Keeps(g, n)
  BY NetworkGood DEF Inv
<1>2. Good(c) /\ Keeps(n, c)
  BY <1>1, ClusterGood DEF Inv, TypeOK
<1>3. Keeps(g, c)
  BY <1>1, <1>2, KeepsTransitive
<1>4. UNCHANGED lambdas
  BY DEF CreateTask
<1>5. \/ g' \in {c, n} /\ UNCHANGED placed
      \/ c.cluster # None /\ CreateTaskDefinition(c, t, c.cluster, m, fault)
  BY DEF CreateTask
<1> HIDE DEF c, n
<1>6. CASE g' \in {c, n} /\ UNCHANGED placed
  BY <1>1, <1>2, <1>3, <1>4, <1>6, KeepingStep
<1>7. CASE c.cluster # None /\ CreateTaskDefinition(c, t, c.cluster, m, fault)
  <2>1. t \in Compute
    BY DEF Compute
  <2> QED
    BY <1>2, <1>3, <1>4, <1>7, <2>1, TaskDefinitionStep DEF StepOK, Inv, TypeOK, Keeps
<1> QED BY <1>5, <1>6, <1>7

LEMMA PoliciesStep ==
  ASSUME Inv, NEW p \in Policies, SetPolicies(p)
  PROVE  /\ Good(g')
         /\ \A f \in Functions : lambdas[f] = None
         /\ g'.cluster = g.cluster
<1>1. ~g.accessed /\ g' = [g EXCEPT !.policies = p]
  BY DEF SetPolicies
<1>2. /\ g' \in Globals
      /\ g'.policies = p /\ g'.accessed = g.accessed
      /\ g'.infrastructure = g.infrastructure /\ g'.network = g.network
      /\ g'.cluster = g.cluster /\ g'.taskRole = g.taskRole
      /\ g'.executionRole = g.executionRole
      /\ g'.made = g.made
  BY <1>1 DEF Inv, Good, Globals
<1>3. UNCHANGED conf
  BY DEF SetPolicies
<1> QED BY <1>1, <1>2, <1>3 DEF Inv, Good, Counted, Shared

LEMMA InitInv == Init => Inv
<1> SUFFICES ASSUME Init PROVE Inv
  OBVIOUS
<1>1. PICK p \in Policies :
        g = [policies |-> p, accessed |-> FALSE, infrastructure |-> FALSE,
             network |-> FALSE, cluster |-> None, taskRole |-> None,
             executionRole |-> FALSE, made |-> [x \in Shared |-> 0]]
  BY DEF Init
<1>2. g \in Globals
  BY <1>1 DEF Globals
<1>3. Good(g)
  BY <1>1, <1>2 DEF Good, Counted, Shared
<1>4. \A x \in Compute : placed[x] = None
  BY DEF Init
<1>5. TypeOK
  BY <1>2 DEF Init, TypeOK
<1>6. \A f \in Functions : lambdas[f] = None
  BY DEF Init
<1> QED BY <1>3, <1>4, <1>5, <1>6 DEF Inv, OnCluster

LEMMA NextInv == Inv /\ [Next]_vars => Inv'
<1> SUFFICES ASSUME Inv, [Next]_vars PROVE Inv'
  OBVIOUS
<1> USE DEF vars
<1>1. ASSUME StepOK, UNCHANGED conf, ecs' \in EcsConfig,
             tried' \subseteq Functions \cup Compute,
             volumeNames' \subseteq Volumes
      PROVE  Inv'
  <2>1. Good(g)' /\ g' \in Globals
    BY <1>1 DEF StepOK, Good, Counted
  <2>2. TypeOK'
    BY <1>1, <2>1 DEF StepOK, TypeOK, Inv
  <2> QED BY <1>1, <2>1, <2>2 DEF StepOK, Inv, OnCluster
<1>2. ASSUME UNCHANGED <<g, lambdas, placed>> PROVE StepOK
  BY <1>2, KeepsItself, KeepingStep DEF Inv
<1>3. ASSUME NEW p \in Policies, SetPolicies(p) PROVE Inv'
  <2>1. UNCHANGED <<conf, ecs, tried, lambdas, placed, volumeNames>>
    BY <1>3 DEF SetPolicies
  <2>2. Good(g') /\ g'.cluster = g.cluster /\ \A f \in Functions : lambdas[f] = None
    BY <1>3, PoliciesStep
  <2>3. Good(g)' /\ g' \in Globals
    BY <2>1, <2>2 DEF Good, Counted
  <2>4. TypeOK'
    BY <2>1, <2>3 DEF Inv, TypeOK
  <2> QED BY <2>1, <2>2, <2>3, <2>4 DEF Inv, OnCluster
<1>4. ASSUME NEW arn \in Arns, NEW efs \in Mounts \cup {None}, SetEcsCluster(arn, efs)
      PROVE  Inv'
  <2>1. ecs.efs \in Mounts \cup {None}
    BY DEF Inv, TypeOK, EcsConfig
  <2>2. ecs' \in EcsConfig
    BY <1>4, <2>1 DEF SetEcsCluster, EcsConfig
  <2> QED BY <1>1, <1>2, <1>4, <2>2 DEF SetEcsCluster, Inv, TypeOK
<1>5. ASSUME NEW f \in Functions, CreateFunction(f) PROVE Inv'
  BY <1>1, <1>5, FunctionStep DEF CreateFunction, Inv, TypeOK
<1>6. ASSUME NEW s \in Services, NEW m \in Mountable, NEW fault \in Faults,
             CreateService(s, m, fault)
      PROVE  Inv'
  BY <1>1, <1>6, ServiceStep DEF CreateService, Inv, TypeOK, Compute
<1>7. ASSUME NEW t \in Tasks, NEW m \in Mountable, NEW fault \in {"none", "noImage"},
             CreateTask(t, m, fault)
      PROVE  Inv'
  BY <1>1, <1>7, TaskStep DEF CreateTask, Inv, TypeOK, Compute
<1>8. ASSUME ExposeTaskRole PROVE Inv'
  <2>1. Good(g') /\ Keeps(g, g')
    BY <1>8, TaskRoleGood DEF ExposeTaskRole, Inv
  <2>2. StepOK
    BY <1>8, <2>1, KeepingStep DEF ExposeTaskRole
  <2> QED BY <1>1, <1>8, <2>2 DEF ExposeTaskRole, Inv, TypeOK
<1>9. ASSUME NEW v \in Volumes, CreateVolume(v) PROVE Inv'
  BY <1>1, <1>2, <1>9 DEF CreateVolume, Inv, TypeOK
<1>10. ASSUME UNCHANGED vars PROVE Inv'
  BY <1>1, <1>2, <1>10 DEF Inv, TypeOK
<1> QED BY <1>3, <1>4, <1>5, <1>6, <1>7, <1>8, <1>9, <1>10 DEF Next

LEMMA InvAlways == Spec => []Inv
<1> QED BY InitInv, NextInv, PTL DEF Spec

(***************************************************************************)
(* The module-level variables hold only values of their types.             *)
(***************************************************************************)
THEOREM TypeCorrect == Spec => []TypeOK
<1>1. Inv => TypeOK
  BY DEF Inv
<1> QED BY <1>1, InvAlways, PTL

(***************************************************************************)
(* Functions and containers share one list of policies, whenever the       *)
(* program calls setComputeIAMRolePolicies (aws/shared.ts 99-117).         *)
(***************************************************************************)
THEOREM PoliciesAgreeCorrect == Spec => []PoliciesAgree
<1>1. Inv => PoliciesAgree
  <2> SUFFICES ASSUME Inv,
                      NEW p \in ({lambdas[f] : f \in Functions} \cup {g.taskRole}) \ {None}
               PROVE  p = g.policies
    BY DEF PoliciesAgree
  <2> QED BY DEF Inv, Good
<1> QED BY <1>1, InvAlways, PTL

(***************************************************************************)
(* No shared resource is registered twice, whatever throws (aws/shared.ts  *)
(* 78-85, 119-216, aws/service.ts 449-484), but for a rejected network.    *)
(***************************************************************************)
THEOREM SharedOnceCorrect == Spec => []SharedOnce
<1>1. Inv => SharedOnce
  <2> SUFFICES ASSUME Inv, NEW x \in Shared, g.made[x] > 1
               PROVE  x = "network" /\ conf.network = "badZones"
    BY DEF SharedOnce
  <2>1. g.made[x] \in Nat
    BY DEF Inv, Good, Globals
  <2> QED BY <2>1 DEF Inv, Good, Counted
<1> QED BY <1>1, InvAlways, PTL

(***************************************************************************)
(* All services and tasks run on one cluster (aws/shared.ts 171-216).      *)
(***************************************************************************)
THEOREM OneClusterCorrect == Spec => []OneCluster
<1>1. Inv => OneCluster
  BY DEF Inv, OneCluster, Created, OnCluster
<1> QED BY <1>1, InvAlways, PTL

(***************************************************************************)
(* A shared volume is one directory for every component that mounts it: in *)
(* the file system of the one cluster, although each getHostPath asks for  *)
(* the cluster again (aws/service.ts 658, 858-874, aws/shared.ts 171-216). *)
(***************************************************************************)
THEOREM VolumesOnClusterCorrect == Spec => []VolumesOnCluster
<1>1. Inv => VolumesOnCluster
  <2> SUFFICES ASSUME Inv, NEW x \in Created, NEW y \in Created,
                      NEW i \in DOMAIN placed[x].volumes,
                      placed[x].volumes[i][2] \in Volumes
               PROVE  /\ placed[x].volumes[i][1] # None
                      /\ placed[x].volumes[i][1] = placed[y].cluster.efs
    BY DEF VolumesOnCluster
  <2> QED BY DEF Inv, Created, OnCluster
<1> QED BY <1>1, InvAlways, PTL

\* Policies that were read, a cluster and a network that are there.
SettingsKept ==
  /\ g.accessed => g'.accessed /\ g'.policies = g.policies
  /\ g.cluster # None => g'.cluster = g.cluster
  /\ g.network => g'.network

(***************************************************************************)
(* What a component has read of the shared state is never replaced: not by *)
(* setComputeIAMRolePolicies, by setEcsCluster or by a later component, on *)
(* whichever path it throws (aws/shared.ts 99-216).                        *)
(***************************************************************************)
THEOREM SettingsKeptCorrect == Spec => [][SettingsKept]_vars
<1>1. ASSUME Inv, [Next]_vars PROVE [SettingsKept]_vars
  <2> SUFFICES SettingsKept
    OBVIOUS
  <2>1. ASSUME Keeps(g, g') PROVE SettingsKept
    BY <2>1 DEF Keeps, SettingsKept
  <2>2. ASSUME NEW p \in Policies, SetPolicies(p) PROVE SettingsKept
    <3>1. ~g.accessed /\ g' = [g EXCEPT !.policies = p] /\ g \in Globals
      BY <1>1, <2>2 DEF SetPolicies, Inv, Good
    <3>2. g'.cluster = g.cluster /\ g'.network = g.network
      BY <3>1 DEF Globals
    <3> QED BY <3>1, <3>2 DEF SettingsKept
  <2>3. ASSUME g' = g PROVE SettingsKept
    BY <2>3 DEF SettingsKept
  <2>4. ASSUME NEW f \in Functions, CreateFunction(f) PROVE SettingsKept
    BY <1>1, <2>1, <2>4, FunctionStep DEF StepOK
  <2>5. ASSUME NEW s \in Services, NEW m \in Mountable, NEW fault \in Faults,
               CreateService(s, m, fault)
        PROVE  SettingsKept
    BY <1>1, <2>1, <2>5, ServiceStep DEF StepOK
  <2>6. ASSUME NEW t \in Tasks, NEW m \in Mountable, NEW fault \in {"none", "noImage"},
               CreateTask(t, m, fault)
        PROVE  SettingsKept
    BY <1>1, <2>1, <2>6, TaskStep DEF StepOK
  <2>7. ASSUME ExposeTaskRole PROVE SettingsKept
    BY <1>1, <2>1, <2>7, TaskRoleGood DEF ExposeTaskRole, Inv
  <2> QED BY <1>1, <2>2, <2>3, <2>4, <2>5, <2>6, <2>7
         DEF Next, vars, SetEcsCluster, CreateVolume
<1> QED BY <1>1, InvAlways, PTL DEF Spec
=============================================================================
