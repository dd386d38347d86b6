CONSTANTS
  k1 = k1
  k2 = k2
  k3 = k3
  k4 = k4
  web = web
  db = db
  Containers <- MCContainers
  Images <- MCImages
  ImageOf <- MCImageOf
  None = None
SPECIFICATION Spec
INVARIANT BuiltOnceOnAzure
\* Every container may have its image.
CHECK_DEADLOCK FALSE
