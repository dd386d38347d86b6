\* Expected to be violated.
CONSTANTS
  Subnets = {n1, n2}
SPECIFICATION Spec
INVARIANT InstancesMount
CHECK_DEADLOCK FALSE
