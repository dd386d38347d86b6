CONSTANTS
  v1 = v1
  v2 = v2
  h1 = h1
  Functions = {f1, f2}
  Services = {s1}
  Tasks = {t1}
  Volumes <- MCVolumes
  HostPaths <- MCHostPaths
  Policies = {p1, p2}
  Arns = {a1, a2}
  Mounts = {m1, m2}
  MountLists <- MCMountLists
  None = None
SPECIFICATION Spec
INVARIANTS TypeOK PoliciesAgree SharedOnce OneCluster VolumesOnCluster
\* The program may have made every call it can.
CHECK_DEADLOCK FALSE
