CONSTANTS
  t1 = t1
  t2 = t2
  k1 = k1
  k2 = k2
  v1 = v1
  v2 = v2
  Runs = {r1, r2}
  Tasks = {t1, t2}
  Objects = {o}
  Keys = {k1, k2}
  Values = {v1, v2}
  Environment <- MCEnvironment
  MaxChanges = 2
  None = None
SPECIFICATION Spec
INVARIANT RunOverridesOnAzure
\* Every run may have ended.
CHECK_DEADLOCK FALSE
