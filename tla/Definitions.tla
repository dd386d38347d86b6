----------------------------- MODULE Definitions -----------------------------
(***************************************************************************)
(* A program that defines one component of those that keep no state of     *)
(* their own (a timer, the containers of a Fargate task, a network, a      *)
(* named resource or a service) or builds an API call by call.  `defined`  *)
(* holds the arguments and what the provider made of them on each cloud    *)
(* that has the component.                                                 *)
(***************************************************************************)
EXTENDS Schedules, FargateSize, NetworkLayout, ApiDefinition

CONSTANTS Rates,           \* arguments of timer.interval
          DailySchedules,  \* arguments of timer.daily and timer.hourly
          TaskContainers,  \* the container definitions of a task
          NetworkArgs,     \* numbers of zones, private or public
          Regions,         \* the zones of the program's region
          NameLengths,     \* the stack's name and the required part
          ContainerLists,  \* the containers of a service
          Clusters,        \* private network or not, certificate or not
          Replicas         \* the replicas of a service

ASSUME RatesAssumption == Rates \subseteq [minutes : Nat, hours : Nat, days : Nat]
ASSUME LengthsAssumption == NameLengths \subseteq Nat \X Nat
ASSUME SchedulesAssumption == DailySchedules \subseteq ScheduleOrHandler(Nat, Nat)
\* CpuValues ends far above what Fargate has.
ASSUME TasksAssumption ==
  \A defs \in TaskContainers : /\ defs \in Seq([memoryReservation : Nat, memory : Nat, cpu : Nat])
                              /\ TotalCpu(defs) <= 65536
\* A region lists each of its zones once.
ASSUME NetworksAssumption ==
  /\ NetworkArgs \subseteq [numberOfAvailabilityZones : Nat, usePrivateSubnets : BOOLEAN]
  /\ \A azs \in Regions : azs \in Seq(STRING) /\ IsInjective(azs)
ASSUME ContainersAssumption == \A containers \in ContainerLists : IsContainers(containers)

VARIABLE defined

vars == <<defined, apiVars>>

None == [kind |-> "none"]
Init == defined = None /\ ApiInit

DefineInterval(rate) ==
  defined' = [kind |-> "interval", rate |-> rate,
              aws |-> AwsInterval(rate), azure |-> AzureInterval(rate)]

DefineDaily(arg) ==
  defined' = [kind |-> "daily", arg |-> arg, aws |-> Daily(arg), azure |-> AzureDaily(arg)]

DefineHourly(arg) ==
  defined' = [kind |-> "hourly", arg |-> arg, aws |-> Hourly(arg), azure |-> AzureHourly(arg)]

DefineTask(defs) ==
  defined' = [kind |-> "task", defs |-> defs, size |-> TaskMemoryAndCpu(defs)]

DefineNetwork(args, azs) ==
  defined' = [kind |-> "network", args |-> args, azs |-> azs,
              network |-> Network(args, azs)]

DefineName(stack, required) ==
  defined' = [kind |-> "name", stack |-> stack, required |-> required,
              aws |-> AwsName(stack, required),
              image   |-> AzureName(stack, required, 63, 1),
              group   |-> AzureName(stack, required, 90, 1),
              account |-> AzureName(stack, required, 24, 0)]

DefineService(containers, cluster, replicas) ==
  defined' = [kind |-> "service", containers |-> containers, cluster |-> cluster,
              aws |-> AwsService(containers, cluster),
              azure |-> AzureService(containers, replicas)]

DefineAny ==
  \/ \E rate \in Rates : DefineInterval(rate)
  \/ \E arg \in DailySchedules : DefineDaily(arg)
  \/ \E arg \in DailySchedules : DefineHourly(arg)
  \/ \E defs \in TaskContainers : DefineTask(defs)
  \/ \E args \in NetworkArgs, azs \in Regions : DefineNetwork(args, azs)
  \/ \E lengths \in NameLengths : DefineName(lengths[1], lengths[2])
  \/ \E containers \in ContainerLists, cluster \in Clusters, replicas \in Replicas :
       DefineService(containers, cluster, replicas)

Next ==
  /\ defined = None
  /\ \/ ApiInit /\ DefineAny /\ UNCHANGED apiVars
     \/ ApiNext /\ UNCHANGED defined

Spec == Init /\ [][Next]_vars

-----------------------------------------------------------------------------
\* A definition of kind k that was accepted, seen from its result r.
Is(k) == defined.kind = k

TypeOK ==
  /\ defined.kind \in {"none", "interval", "daily", "hourly", "task", "network",
                       "name", "service"}
  /\ Is("interval") /\ ~IsRefused(defined.azure) =>
       \/ defined.azure.span \in (0..23) \X (0..59) \X (0..59)
       \/ defined.azure.span \in Nat \X (0..23) \X (0..59)
  /\ Is("task") => defined.size \in [memory : Nat, cpu : CpuValues]
  /\ ApiTypeOK

(***************************************************************************)
(* A timer fires at the rate it was given: the expression AWS and Azure    *)
(* get says, in each cloud's own reading, the number of minutes asked for, *)
(* and only a rate below a minute, or one Azure cannot express, is refused *)
(* (aws/timer.ts 21-42, azure/timer.ts 28-103).                            *)
(***************************************************************************)
IntervalKept ==
  Is("interval") =>
    LET minutes == Minutes(defined.rate)
    IN  /\ IsRefused(defined.aws) <=> minutes = 0
        /\ ~IsRefused(defined.aws) => AwsPeriod(defined.aws) = minutes * 60
        /\ IsRefused(defined.azure)
             <=> minutes = 0 \/ (minutes >= minutesInOneDay /\ minutes < minutesIn24Days)
        /\ ~IsRefused(defined.azure) => AzurePeriod(defined.azure) = minutes * 60

\* The time of day a schedule asks for: absent numbers are 0.
AskedHour   == IF defined.arg.is = "schedule" THEN defined.arg.hourUTC ELSE 0
AskedMinute == IF defined.arg.is = "schedule" THEN defined.arg.minuteUTC ELSE 0

\* An accepted daily or hourly timer fires once a day or once an hour, at the
\* asked time.
FiresAsAsked(fires) ==
  fires = [second |-> {0}, minute |-> {AskedMinute},
           hour |-> IF Is("daily") THEN {AskedHour} ELSE 0..23]

(***************************************************************************)
(* "A daily timer, firing at the specified UTC hour and minute each day",  *)
(* and the hourly one (api/timer.ts 90-131), on AWS.                       *)
(***************************************************************************)
TimerFiresOnAws ==
  defined.kind \in {"daily", "hourly"} /\ ~IsRefused(defined.aws) =>
    FiresAsAsked(AwsFires(defined.aws.cron))

(***************************************************************************)
(* The same promise on Azure, whose expressions begin with the seconds.    *)
(***************************************************************************)
TimerFiresOnAzure ==
  defined.kind \in {"daily", "hourly"} /\ ~IsRefused(defined.azure) =>
    FiresAsAsked(AzureFires(defined.azure.cron))

(***************************************************************************)
(* A Fargate task gets at least what its containers reserve, less than one *)
(* GB more, and the least cpu that is enough for them and that Fargate     *)
(* offers with as much memory (aws/service.ts 540-596).  Fargate offers    *)
(* the size unless it takes more than 30 GB or 4096 cpu, which the code    *)
(* leaves to ECS to refuse, or the containers ask for more cpu than goes   *)
(* with their memory: the memory is never raised to fit the cpu, although  *)
(* "an allowed CPU value for the specified memory" (576) is to be selected.*)
(***************************************************************************)
TaskSized ==
  Is("task") =>
    LET mem  == TotalMemory(defined.defs)
        cpu  == TotalCpu(defined.defs)
        size == defined.size
    IN  /\ size.memory >= mem /\ size.cpu >= cpu
        /\ size.memory < mem + 1024
        /\ size.memory <= GB(30) =>
             /\ size.memory <= MostMemory(size.cpu)
             /\ \A less \in CpuValues :
                  less >= cpu /\ less < size.cpu => size.memory > MostMemory(less)
        /\ Offered(size) <=> /\ size.cpu <= 4096
                             /\ LeastMemory(size.cpu) <= size.memory
                             /\ size.memory <= GB(30)

(***************************************************************************)
(* Every subnet of a network has a block and, where the region has enough  *)
(* zones, a zone of its own; all of them reach the internet gateway: a     *)
(* public one directly, a private one through a NAT gateway in a public    *)
(* subnet of its own zone, with no packet of a private subnet on a public  *)
(* address (aws/network.ts 234-329).                                       *)
(***************************************************************************)
NetworkConnected ==
  Is("network") /\ ~IsRefused(defined.network) =>
    LET network == defined.network
        all     == network.subnets \cup network.publicSubnets
    IN  /\ Cardinality(network.subnets) = ZonesOf(defined.args)
        /\ \A s, t \in all : (s.block = t.block) => (s = t)
        /\ \A s, t \in network.subnets :
             (s.zone = t.zone /\ s # t) => ZonesOf(defined.args) > Len(defined.azs)
        /\ \A s \in all : s.block \in 0..255
                        /\ \E t \in Path(network, s) : /\ t.target = <<Gateway>>
                                                       /\ t.zone = s.zone
                                                       /\ t.publicIp
        /\ \A s \in network.publicSubnets : s.target = <<Gateway>> /\ s.publicIp
        /\ defined.args.usePrivateSubnets =>
             \A s \in network.subnets : ~s.publicIp /\ s.target # <<Gateway>>

(***************************************************************************)
(* A name never exceeds its limit, keeps the required part that makes it   *)
(* unique, and loses no more of the stack's name than it has to            *)
(* (aws/shared.ts 44-66, azure/shared.ts 24-45).                           *)
(***************************************************************************)
Fits(name, stack, max) ==
  /\ IsRefused(name) <=> defined.required > max
  /\ ~IsRefused(name) =>
       /\ Length(name) <= max
       /\ name.required = defined.required
       /\ name.stack < stack => Length(name) >= max - 1

NamesFit ==
  Is("name") =>
    /\ Fits(defined.aws, defined.stack + 7, 24)
    /\ defined.required > 0 =>
         /\ Fits(defined.image, defined.stack, 63)
         /\ Fits(defined.group, defined.stack, 90)
         /\ Fits(defined.account, defined.stack, 24)

-----------------------------------------------------------------------------
\* The ports a call of getEndpoint with these arguments means: those of the named
\* container or, "if containerName is not provided", of "the first container in
\* the service" (api/service.ts 309-312).
Meant(containers, name, port) ==
  LET chosen   == IF name = "" THEN DOMAIN containers \cap {1} ELSE Named(containers, name)
      meant(i) == {p \in Range(containers[i].ports) : port = 0 \/ p.port = port}
  IN  UNION {{[container |-> containers[i].name, port |-> Target(p)] : p \in meant(i)} :
               i \in chosen}

Queried == {""} \cup {defined.containers[i].name : i \in DOMAIN defined.containers}
Ports   == {0} \cup UNION {{p.port : p \in Range(defined.containers[i].ports)} :
                           i \in DOMAIN defined.containers}

\* Two containers of a group with one port: Azure refuses the group.
PortsClash ==
  \E i, j \in DOMAIN defined.containers :
    /\ i # j
    /\ \E p \in Range(defined.containers[i].ports), q \in Range(defined.containers[j].ports) :
         p.port = q.port

FirstExposes == defined.containers # <<>> /\ defined.containers[1].ports # <<>>
Exposes      == \E i \in DOMAIN defined.containers : defined.containers[i].ports # <<>>

\* Every answer of getEndpoint for one of these names is an address that ends at
\* a port it means, and it has an answer whenever it means one.
Reaches(service, names, Reached(_)) ==
  \A name \in names, port \in Ports :
    LET endpoint == getEndpointHelper(service.endpoints, name, port)
        meant    == Meant(defined.containers, name, port)
    IN  IF IsRefused(endpoint) THEN meant = {}
        ELSE Cardinality(Reached(endpoint)) = 1 /\ Reached(endpoint) \subseteq meant

(***************************************************************************)
(* A connection to the endpoint a service hands out for a container and a  *)
(* port arrives at that container's target port, through the load          *)
(* balancer, its target group and the ECS service's attachment on AWS, or  *)
(* the group's address on Azure (api/service.ts 279-312).  On Azure a call *)
(* without a name is left out when the first container has no port: see    *)
(* DefaultAgrees.                                                          *)
(***************************************************************************)
EndpointReaches ==
  Is("service") =>
    /\ ~IsRefused(defined.aws) =>
         Reaches(defined.aws, Queried,
                 LAMBDA e : AwsReached(defined.aws, defined.containers, e))
    /\ ~IsRefused(defined.azure) /\ ~PortsClash =>
         Reaches(defined.azure, IF FirstExposes THEN Queried ELSE Queried \ {""},
                 LAMBDA e : AzureReached(defined.azure, e))

(***************************************************************************)
(* The address of another container in a container's environment is the    *)
(* one getEndpoint answers with for it (aws/service.ts 206-249, 774-794).  *)
(***************************************************************************)
DiscoveryAgrees ==
  Is("service") /\ ~IsRefused(defined.aws) =>
    \A d \in defined.aws.discovered :
      getEndpointHelper(defined.aws.endpoints, d.service, d.port)
        = [host |-> d.host, port |-> d.port]

(***************************************************************************)
(* Where the first container has a port, the default endpoint is there and *)
(* is what getEndpoint() answers with.  Where it has none, there is no     *)
(* default endpoint, whatever the others expose, although it is to be      *)
(* missing only "if the service does not actually expose any endpoints"    *)
(* (api/service.ts 301-305); getEndpoint() then throws on AWS, and on      *)
(* Azure answers for another container if one has a port, although "the    *)
(* first container in the service is used" (309-312).                      *)
(***************************************************************************)
DefaultAgrees ==
  Is("service") =>
    \A service \in {defined.aws, defined.azure} :
      ~IsRefused(service) =>
        LET first == getEndpointHelper(service.endpoints, "", 0)
        IN  IF FirstExposes
            THEN ~IsRefused(first) /\ service.defaultEndpoint = first
            ELSE /\ service.defaultEndpoint = Absent
                 /\ IsRefused(first) <=> service.cloud = "aws" \/ ~Exposes
=============================================================================
