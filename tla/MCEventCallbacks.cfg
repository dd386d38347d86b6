CONSTANTS
  batch = batch
  empty = empty
  message = message
  x1 = x1
  x2 = x2
  x3 = x3
  Events <- MCEvents
  RecordsOf <- MCRecordsOf
  MaxAttempts = 2
  AzureEvents = {message}
  Instances = {i1, i2, a1}
  AzureInstances = {a1}
  None = None
SPECIFICATION Spec
INVARIANTS TypeOK DoneMeansHandled
PROPERTIES Delivers FailureIsReported
\* Every event may be settled.
CHECK_DEADLOCK FALSE
