CONSTANTS
  Rates <- MCRates
  DailySchedules <- MCDailySchedules
  TaskContainers <- MCTaskContainers
  NetworkArgs <- MCNetworkArgs
  Regions <- MCRegions
  NameLengths <- MCNameLengths
  ContainerLists <- MCContainerLists
  Clusters <- MCClusters
  Replicas = {1, 2}
  PathNames = {"", "a"}
  Methods = {"GET", "ANY"}
  DomainNames = {"d1", "d2"}
  ApiServices <- MCApiServices
  MaxCalls = 4
SPECIFICATION Spec
INVARIANTS TypeOK IntervalKept TimerFiresOnAws TaskSized NetworkConnected
           NamesFit EndpointReaches DiscoveryAgrees DefaultAgrees
           LiveIsOnePublish ServedAsDeclared 
\* One definition and the program ends.
CHECK_DEADLOCK FALSE
