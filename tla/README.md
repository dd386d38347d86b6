# TLA+ models of pulumi-cloud

`pulumi-cloud` is a library of cloud-neutral components (`api/`: HTTP APIs, buckets, services and
tasks, tables, timers, topics) with one implementation on AWS (`aws/`) and one on Azure (`azure/`).
A component has two lives. At *deployment time* a Pulumi program, one JavaScript thread, calls
constructors that register resources with the Pulumi engine; some of what they need is only known
later, through promises and outputs. At *run time* its closures run in Lambda functions or Azure
functions: `topic.publish`, `table.scan`, the callbacks behind `api.get(...)`, `topic.subscribe`,
`bucket.onPut`, `timer.cron`. The modules here model both, with their checks (TLC) and proofs (TLAPS).

## 1. Inventory

| Component | State it keeps | Operations | What is hard |
|---|---|---|---|
| HTTP API, AWS, run time (`aws/api.ts` 300-457) | per request: the cursor `i` of the handler chain, the mutable `response`; per container: handlers still pending | a request arrives; handlers call `next`, `status`, `setHeader`, `write`, `end`, `json`, `redirect` | one process serves request after request and is frozen in between with work pending, since `callbackWaitsForEmptyEventLoop` is cleared |
| HTTP API, AWS, deployment (`aws/api.ts` 61-298) | lists of routes and domains, `deployment` | `static`, `proxy`, `route`, `attachCustomDomain`, `publish` | order of calls; a publish that throws |
| Topic, bucket, timer, AWS (`aws/topic.ts`, `aws/bucket.ts`, `aws/timer.ts`) | the promises of an invocation | publish/put/delete/tick; subscribe/onPut/onDelete/cron | one event, several records; retries, duplicates, time limits |
| Table, AWS (`aws/table.ts`) | a DynamoDB table | `get`, `insert`, `update`, `delete`, `scan` | a paged scan while others write; the callback's `await` |
| Shared resources, AWS (`aws/shared.ts`, `aws/config/index.ts`, parts of `aws/service.ts`) | module-level variables: policies, network, cluster, roles, ECS settings, volume names | lazily created at first use; `setComputeIAMRolePolicies`, `setEcsCluster` | any order of calls; a creation that throws half way and is tried again |
| Service, Task, images, AWS (`aws/service.ts`) | repositories, `buildImageCache`, load balancers, endpoints | `new Service`, `new Task`, `task.run`, `getEndpoint` | builds shared by containers whose outputs become known in any order |
| Cluster, network, AWS (`aws/cluster.ts`, `aws/network.ts`) | what the constructor registered | constructors | values set in a promise's callback |
| Table, topic, bucket, timer, service, task, HTTP server, Azure (`azure/*.ts`) | as on AWS | as on AWS | callbacks that report only success; a cache never filled; an options object that is written to |
| API, Azure (`azure/api.ts`) | none | none: every method throws "not implemented" | |
| Interfaces and loader (`api/*.ts`) | the module picked | | their comments are the promises the abstract modules state |
| Unit tests (`aws/tests/unit`) | results of the tests | `testModule`, `runTests` | tests that run at once |
| Scripts, examples | | | programs around the library |

How they interact: `aws/api.ts`, `topic.ts`, `bucket.ts` and `timer.ts` make their Lambda through
`aws/function.ts`, which reads the policies and the network of `aws/shared.ts`; `aws/service.ts`
reads the cluster and the network from there; `aws/shared.ts` reads `aws/config` and constructs
`aws/cluster.ts` and `aws/network.ts`. At run time the components meet only through AWS services.

What makes each correct: a request is answered by its own handlers, in order; an event that is
reported handled was handled; a scan misses nothing; the components of a deployment agree on
policies, cluster and network, and create each shared resource once; an image is built once; an
address that is handed out leads where it says; what is published is what was declared; a timer fires
when it was asked to; a run of a task gets its own variables.

## 2. Modules

| Module | Models | Checked by | Proved in |
|---|---|---|---|
| `ApiRequest` | serving requests, `aws/api.ts` 300-457 | `MCApiRequest.cfg` | `ApiRequestProofs` |
| `EventDelivery` | abstract: what a subscription promises | through `EventCallbacks` | |
| `EventCallbacks` | the callbacks of topics, buckets and timers on both clouds | `MCEventCallbacks.cfg` | `EventCallbacksProofs` |
| `AwsDeployment` | the shared resources and every component that uses them | `MCAwsDeployment.cfg` | `AwsDeploymentProofs` |
| `TableScan` | abstract: what `scan` promises | through `AwsTable`, `AzureTable` | |
| `AwsTable` | `aws/table.ts` 72-147 | `MCAwsTable.cfg` | `AwsTableProofs` |
| `AzureTable` | `azure/table.ts` 93-206 | `MCAzureTable.cfg` | `AzureTableProofs` |
| `ImageBuilds` | repositories and builds, on both clouds | `MCImageBuilds.cfg`, `MCAzureImages.cfg` | `ImageBuildsProofs` |
| `AwsCluster` | the file system of a cluster and its instances | `AwsCluster.cfg` | |
| `Definitions` | one definition of a component, or an API call by call | `MCDefinitions.cfg`, `MCAzureTimers.cfg` | `DefinitionsProofs` |
| `Schedules`, `FargateSize`, `NetworkLayout`, `ServiceEndpoints`, `ApiDefinition`, `Values` | the functions `Definitions` composes | through `Definitions` | with it |
| `TaskRuns` | `task.run` on both clouds | `MCTaskRuns.cfg`, `MCAzureTaskRuns.cfg` | `TaskRunsProofs` |

### ApiRequest

`Invoke` is the Lambda callback: it clears `waits` (`callbackWaitsForEmptyEventLoop`), makes a fresh
response and calls `next()`. A handler is user code, so once started and until it `Finish`es it may
call `next` (`CallNext`) or any method of the response (`CallRes`) at any moment its container is
thawed. `cursor` is the closure's `i`. `Effect` is what a call leaves in `response`, `Snapshot` what
the callback is given. `end()` hands the headers over by reference (`aws/api.ts` 419): the snapshot holds
because Lambda serialises a result when the callback is called. The Lambda runtime (external) sends the result and freezes the container
(`Return`), ends an invocation that has nothing left to run (`Drain`) or kills the process (`Kill`).

*Bounds.* `MaxNext` caps the calls of `next`, `MaxOps` the calls of response methods. Two requests, two
handlers and two containers: a container serves the second request while handlers of the first are
pending, or both are served at once; one call of `next` more than there are handlers; two calls of
`res`, which may fall to one handler, to two of a request, or to both requests. One code, one extra
header and one chunk per handler are enough to tell every order of the methods apart.

*Properties.* `DelegationOrder` and `ReplyIsOwn` (invariants), `RepliedIsAnswered` (liveness).
`DelegationOrder` has a premise, that no handler of the request calls `next` twice: a second call
does start a handler out of turn, in the code as in the model.

### EventDelivery and EventCallbacks

`EventDelivery` is the promise of `api/topic.ts` 62-76 as a state machine: an event is pending until
all its records were handled (`Complete`) or its last attempt failed (`Fail`). `EventCallbacks` has the
instances of the functions on both clouds with the promises of one invocation. `AllOf` is the AWS
`Promise.all(...).then(ok, err)`; `ThenDone` the Azure `handler(...).then(() => context.done())`, which
tells nobody of a rejection; `Invoke` starts all the handlers, `Settle` ends one. The clouds
(external) retry, deliver an event to two instances at once, deliver it again before they are told
the outcome, and stop an invocation (`Kill`). `Kill` also stands for an exception that leaves the
callback, such as a bucket handler that throws before it returns a promise: what the invocation had
not started by then the model does not follow. `TimeOut` is the one such stop that must come: Azure's host ends an invocation whose handler
is done without an answer.

*Bounds.* On AWS an event of two records and one of none (S3 sends such a test event), on Azure one of
one; two instances on AWS and one on Azure, two attempts: enough for a rejection while the other
record's handler runs, for two deliveries of one event at once and for a retry.

*Properties.* `DoneMeansHandled`; `Delivers`, that `EventCallbacks` implements `EventDelivery` with its
fairness (`INSTANCE ... WITH`; the mapping is the identity on `status`, `attempts`, `handled`), so that
every published event is settled; `FailureIsReported`, that an invocation with a rejected handler ends, on AWS
without help of the time limit, and on Azure with it; that it is not counted as a success is the
part of `DoneMeansHandled`.

### AwsDeployment

One action per call of a Pulumi program; each is the whole constructor or function, the ones it
calls included, and ends where the code throws, keeping what had been done: for want of a cluster or a
network, or for what is wrong with its arguments (`Faults`), each at the place where the code finds
it. `CreateTaskDefinition` is given the cluster of the component and asks for the cluster again for each
shared volume (`HostPath`, `Collect`), as `getHostPath` does; volumes of a host's path need none. The record `g` holds the
module-level variables and, in `made`, how often each shared resource was registered. `conf` is the
stack's configuration, chosen once: all combinations the configuration module lets through.
`lambdas` and `placed` record what the components were given.

*Bounds.* Two functions, a service, a task, two shared volumes and one of a host's path, two policy lists, two ECS clusters made by
the program, two mount paths: every pair of components and a change between any two of them. Names
are used once (`tried`), since a second use is a duplicate URN to the engine.

*Properties.* `PoliciesAgree`, `SharedOnce`, `OneCluster`, and `VolumesOnCluster`: a shared volume is one
directory for every component that mounts it, in the file system of the one cluster, although
`setEcsCluster` may be called between any two constructors and the cluster is asked for twice in each.
`SharedOnce` states its exception: a network whose number of zones is rejected has registered its
component before it throws.

### TableScan and AwsTable

`TableScan` is what a scan promises: pages without repetition, nothing after a refusal, and
completeness for the documents that were there all the time (`must`). `AwsTable` is the loop of
`aws/table.ts` with its two awaits: between the page (`Fetch`) and the answer of the callback
(`Settle`) other clients write. DynamoDB (external) picks pages of any length in key order; the key to
go on from is the place where it stopped (`Lasts`), whether or not the page has a document, so that
an empty page may have one, and so may the page that ends at the table's end.

*Bounds.* Four documents give scans of up to five pages with writes between all of them.

### AzureTable

The loop of `azure/table.ts`, against the same `TableScan`. Its token is null before the first page and
behind the last, `0` here, and the test for it comes only behind a page. Table storage (external) picks
the key the next page starts at. A query may fail: `FetchError` is the callback that rejects and then
reads the missing result, which throws where nothing catches it and ends the process (`alive`), other
scans included; the liveness of a scan is claimed for a living process. A failing *callback* does reject
the scan (`CallbackError`). `get` reads one entity and is left out.

*Bounds.* Three keys give up to three pages with writes between them, the fewest for which a first, a
middle and a last page differ; two scans share the process that a failed query ends.

### ImageBuilds

The containers of a deployment name an image (`ImageOf`), get a repository at once and their worker
runs when the engine knows it. A build takes a while, so later workers find it running. The variable
`cloud`, chosen at the start, selects `aws/service.ts` (`Define`, `Worker`) or `azure/service.ts`
(`DefineOnAzure`, `WorkerOnAzure`): they differ in the repositories (one per image, or one registry) and
in that the Azure worker never fills its cache, so that `BuiltOnce` is claimed for AWS and the same
property of Azure, `BuiltOnceOnAzure`, is expected to fail. Three containers of one image and a fourth
of another cover finding a build before and after its end.

### AwsCluster

The constructor of the cluster as one step, the callback of the network's promise as another, the
callback that makes the instances' user data as a third.

### Definitions and the modules it composes

A definition is one step of a program: `defined` holds the arguments and what each cloud's provider
made of them, or that it threw (`Refused` in `Values`). The functions are those of the source; how the
clouds read the result (`AwsFires`, `AzurePeriod`, `Offered`, `AwsReached`, ...) is external and is what
the properties compare with.

- `Schedules`: `interval`, `daily`, `hourly`. An expression is the sequence of its fields, and the two
  clouds read the fields from different units on; `TimerFiresOnAzure` is expected to fail.
- `FargateSize`: the memory and cpu of a Fargate task, against the table of sizes AWS offers. The
  logarithm of the code is a choice from the powers of two, up to `CpuValues`' 65536. `TaskSized` says that
  what containers ask for is granted, with less than one GB of memory too much, that no smaller cpu would
  do, and which of the sizes Fargate does not offer: exactly those above 4096 of cpu or 30 GB, which the
  code leaves to ECS to refuse, and those with more cpu than goes with the memory (512 MB and 1024 of cpu,
  say), because the code never raises the memory. The last is a finding: see section 3.
- `NetworkLayout`: the subnets with their zones, blocks and routes, and `createNameWithStackInfo`, with a
  name given by the lengths of its parts. A `cidrBlock` of the program's own is left out.
- `ServiceEndpoints`: which ports a service may expose (`Exposed`, the places of the exposed ports: on AWS
  a service with two of them throws), what is put in front of them, `getEndpoint`, the
  default endpoint and the addresses in the containers' environment. `EndpointReaches` follows an
  address through listener, target group, attachment and port mapping to a container; what a call of
  `getEndpoint` means (`Meant`) is taken from the documentation of `api/service.ts` 309-312. It leaves out
  groups with one port in two containers, which Azure refuses, and on Azure the call without a name when
  the first container has no port: there the code disagrees with the documentation, and `DefaultAgrees`
  says how, for both clouds. Ports are numbers from 1 on (`IsContainers`). Names that are numerals are left
  out: `Object.keys` would put them in an order of its own.
- `ApiDefinition`: calls of the API object one by one, `publish` among them, at any point and again
  after it threw. It throws half way in the constructor of the deployment when a file of a static route
  is missing (`missing`, for each call anew: by the next one the files may be there), and leaves behind
  what it had registered, as records of the call, the declaration and the resource (`Registration`, `Own`),
  so that one resource registered by two calls, or for two declarations, is two registrations. `Resolve` is
  the engine finding a name taken twice (`Duplicated`) or learning the endpoints that proxies point at, the
  composition with `ServiceEndpoints`. `LiveIsOnePublish` says that what is live comes from one call of
  publish, whatever the earlier ones left behind; `ServedAsDeclared` that this call registered the functions
  and domains of what is served, and no others; `ProxyReaches` when a deployment may fail at all. A route's
  function may throw, too, when the network is incomplete; it then does so in every call, and is part of
  `AwsDeployment` (`CreateFunction`).

*Bounds.* The values on both sides of every boundary the code has (59, 60, 61 minutes, 23, 24, 25 days;
512, 513 and each step of the Fargate table, and cpu above all of them; 0 to 5 zones in regions of 1, 3 and 5; required parts
around 24 characters). Services of up to two containers of up to two ports. Programs of four calls:
two declarations and two publishes, or three declarations of one kind and a publish.

### TaskRuns

`task.run` with its awaits: on AWS the import, then the container's variables, then those of the
options, then the call; on Azure the login, then the assignment and the call. The program reuses one
options object, does not wait, and may change a variable of the object at any time (`SetVariable`), so also
between the call of `run` and the moment the run reads it (`Unread`). The clouds (external) start the
container, report failures, fail, or start it and lose the answer. `launched` and `held` are history: what
containers were started with, and the values a run's object had from the call until it was read.

*Bounds.* Two runs of two tasks, one with a variable set to nothing, and one object that is changed
twice at most (`MaxChanges`): enough for every order of two runs that share it, with a change before, between
and after their reads, and for one that changes both variables.

*Properties.* `RunOverridesOnAws`: a container sees its task's variables overridden by all those its run's
object held at one moment between the call and the read, never by a mixture of two such states, another
run's, or a later change; the empty string overrides nothing, which is a finding (section 3).
`ResolvedIsLaunched`, `RunsEnd`. `RunOverridesOnAzure` is expected to fail: the container's variables win, and
stay in the caller's object.

## 3. Runs

| Run | Shows |
|---|---|
| `api_request` | `TypeOK`, `ReplyIsOwn`, `DelegationOrder`, `RepliedIsAnswered` |
| `events` | `TypeOK`, `DoneMeansHandled`, `Delivers`, `FailureIsReported` |
| `aws_deployment` | `TypeOK`, `PoliciesAgree`, `SharedOnce`, `OneCluster`, `VolumesOnCluster` |
| `definitions` | `TypeOK`, `IntervalKept`, `TimerFiresOnAws`, `TaskSized`, `NetworkConnected`, `NamesFit`, `EndpointReaches`, `DiscoveryAgrees`, `DefaultAgrees`, `LiveIsOnePublish`, `ServedAsDeclared`, `ProxyReaches` |
| `task_runs` | `TypeOK`, `RunOverridesOnAws`, `ResolvedIsLaunched`, `RunsEnd` |
| `aws_table` | `TypeOK`, `Scans`, `ScanEnds`, and that no state is stuck |
| `azure_table` | `TypeOK`, `Scans`, `ScanEnds`, and that no state is stuck |
| `images` | `TypeOK`, `BuiltOnce`, `SameImage`, `RepositoryOnce`, `ImageKnown` |
| `azure_images` (violated) | the Azure provider builds one specification once per container |
| `azure_timers` (violated) | a daily timer on Azure fires every hour, an hourly one every minute |
| `azure_task_env` (violated) | on Azure a run cannot override a variable, and leaves the container's in the caller's object |
| `aws_efs` (violated) | instances of a cluster with `addEFS` are never told to mount the file system |

Where a document promises more than the code does, and a property that holds says exactly what it
does, the disagreement is recorded with that property:

| Property | What the code does |
|---|---|
| `TaskSized` | the memory of a Fargate task is never raised to fit its cpu, so that sizes come out that are not allowed, although an allowed one is announced (`aws/service.ts` 561, 576) |
| `DefaultAgrees` | on both clouds there is no default endpoint when the first container has no port, whatever the others expose (`api/service.ts` 301-305) |
| `DefaultAgrees` | on Azure `getEndpoint()` answers for the first container with a port, not for the first one (`api/service.ts` 309-312) |
| `RunOverridesOnAws` | on AWS a run cannot override a variable by an empty one (`aws/service.ts` 957, `api/service.ts` 337) |
| `LiveIsOnePublish` | a deployment's name does not include the registered routes (`aws/api.ts` 134-136); the property rests on that |

Deadlock is not checked where a program or a system may simply have done everything there is to do.

Beside a definition there are its *mutants*, operators that change it the way a plausible mistake
would (`StartNextPreIncrement`, `AllOfRace`, ...). They are used by nothing: put in place of the
definition, each makes TLC find the property it is listed with in `PROJECT.json` violated.

### Fairness

Safety properties need none. `RepliedIsAnswered` assumes that Lambda returns a result it was given,
and nothing of user code: a handler may hang forever. `FailureIsReported` and
`Delivers` assume that the clouds deliver what is pending and take an answer, and that a handler's
promise settles; a killed invocation is never obliged, except by Azure's time limit once its handler
is done without an answer (`functionTimeout`, which every consumption plan has). `ScanEnds` assumes that the store answers and
the callback settles, and nothing of the writers; on Azure it holds as long as the process lives. `ImageKnown` assumes that the engine resolves what
is registered, that callbacks whose inputs are known run, and that a build ends. `RunsEnd` assumes that
the event loop continues a run whose promise has settled and that a cloud answers a call or fails it.

## 4. Proofs

All hold for every value of the constants under the named assumptions in the modules.

- `ApiRequestProofs`: `TypeCorrect`; `DelegationOrderCorrect`. `DelegationOrder` alone is not inductive:
  it says nothing of who may call `next` again. `ChainInv` adds that a request not yet sent has cursor 0
  and that only a started handler is active; then a caller that is not the last handler started has
  called `next` before, so its call breaks the premise. `ReplyIsOwnCorrect`, which compares an answer
  with the log of the calls on the request's own response: `ReplyInv` says of every request, answered or
  not, what the response holds as a function of that log, and that the result is the response as of
  the log's first reply. Appending a call to the log then changes the response as `Effect` does
  and leaves an existing first reply where it is.
- `EventCallbacksProofs`: `TypeCorrect`; `NoRecordLost`, from the invariant that a resolved promise's record is
  handled and that "success" means that every promise of the event resolved; `ImplementsDelivery`,
  step by step: each action is an action of `EventDelivery` or changes none of its variables.
- `AwsDeploymentProofs`: all five invariants of the run from one inductive invariant. `Good(d)` says of
  the module-level variables that a resource that was registered is cached, that a role in use has
  the current policies and that those were then accessed. Every function that works on them
  preserves `Good` and keeps what was set (`Keeps`), one lemma per function, also when it throws. The
  action property `SettingsKeptCorrect` follows from the same lemmas: what a component has read is never
  replaced afterwards.
- `AwsTableProofs`: `TypeCorrect`; `ScanCompleteCorrect`, the part of `Scans` about a scan that ran to its
  end, stated by itself; `ImplementsScan`. The invariant says that what was
  seen lies up to the position the loop will go on from, and that every document of `must` up to it
  was seen; it is needed because completeness itself is only claimed at the end of a scan.
- `AzureTableProofs`: the same three theorems. The invariant also says what a null token means: before
  the first page that nothing was seen, behind the last that all of `must` was; otherwise that what was
  seen lies in front of the token, and everything of `must` in front of it was seen.
- `ImageBuildsProofs`: `TypeCorrect` and `RepositoryOnceCorrect` on both clouds, the latter from the
  invariant that a repository that was registered is in the table; `BuiltOnceCorrect` and
  `SameImageCorrect` from the invariant that the cache decides which build a container on AWS uses.
- `TaskRunsProofs`: `TypeCorrect`; `RunOverridesCorrect` and `ResolvedIsLaunchedCorrect` for any number of
  runs, tasks, objects, variables and changes of the objects. `RunOnAws` says what a run has collected at
  each await and, until it reads its object, that the value it would read is among those the object was
  seen to hold since the call; `Overrides` alone only speaks of containers that have started, and so cannot be
  carried through the awaits. `OtherRun` shows that a step of another run or of the program keeps it.
- `DefinitionsProofs`: all twelve invariants of the run (`TypeCorrect`, and `<invariant>Correct` for the
  others). A component is defined in one step (`OneDefinition`), so most rest on what the
  functions return:
  - Names and schedules: `LengthsFit`, `DaysHoursMinutes`, `AzureIntervalKept`, `CronFires`, for any numbers.
  - Networks: `ZonesConnected`, for every number of zones a network may have and any region. Zone and block of a subnet are
    functions of its number (`SubnetsOf`), so that two subnets are in one zone only when the numbers wrap around
    (`ZonesDiffer`); the path of a private subnet ends at the NAT gateway of the same number.
  - Services: on AWS a service that does not throw exposes one port at most (`AwsTaken`), which makes the
    endpoints a table of at most one entry, and `getEndpoint` a function of it (`AwsAnswer`); on Azure any number of
    containers may have an endpoint (`AzureTaken`, `AzureAnswer`). `AwsEndpointReaches` and
    `AzureEndpointReaches` then follow an answer to the container.
  - Task sizes: `SumsOf` is a recursive function; that it exists and is a sum of naturals (`SumsExist`,
    `SumsNat`) is shown by the least counterexample, through the library's well-foundedness of the naturals.
  - Default endpoints: the first endpoint on AWS is the first container's (`AwsFirst`), on Azure that of the
    first container with a port (`AzureFirst`), which is the first container where this has one
    (`FirstIsExposing`); `DefaultsAgree` compares the two with what the documentation means.
  - The API, whose state is built call by call, needs an inductive invariant, `ApiInv`. `IsServed` says
    that with a deployment one call's registrations are those of exactly what is served, and `NotServed`
    that without one there is none of an API; `LeftBehind`, that every call that registered anything
    registered the component, under the one name it has. So the registrations of two calls hold a name
    twice, which is what `Resolve` fails on: `LiveIsOnePublish` follows, and that a failure without a bad proxy
    or an overlap means an earlier call. Its conjuncts were first checked with TLC on the instance of the run.

The assumptions say what the code or its types take for granted: numbers of minutes, hours and
containers' sizes are naturals (`RatesAssumption`, `SchedulesAssumption`, `TasksAssumption`, which also ends
cpu at 65536, far above what Fargate has), a region lists a zone once (`NetworksAssumption`), containers
have names and ports from 1 on, as the interface of `api/service.ts` asks (`ContainersAssumption`, `IsContainers`), and a
program whose service threw does not hand it to an API (`ServicesAssumption`). TLC evaluates all of them.

Only model-checked: all liveness (`RepliedIsAnswered`, `FailureIsReported`, `ScanEnds`,
`ImageKnown`, `RunsEnd` and the fairness half of `Delivers`), since the prover handles neither fairness nor
`ENABLED` here. The runs that expect a violation have no theorem. Every invariant of a passing run is
proved.

## 5. Not modelled, and why

- The contents of requests, messages, documents, images, templates and swagger documents: data handed on.
- `aws/httpServer.ts` and `azure/httpServer.ts`: adapters around a library that runs a node HTTP server;
  what could be modelled is that library. `azure/api.ts` only throws.
- The roles, launch configuration and CloudFormation template of `aws/cluster.ts`, the placement
  constraints and log groups of `aws/service.ts`, the string helpers of `aws/utils.ts`.
- The sizes of Azure's containers, among them `memoryInGB` of a task, which is given megabytes
  (`azure/service.ts` 347); where a run's task is placed and its public address (`aws/service.ts` 927-934).
- `azure/config`, and the creation of shared resources on Azure, done once and without parameters.
- The loader `api/index.ts`, the unit tests and their harness, the examples, the release scripts.

## 6. Plan

Done: serving requests, events, deployments, tables, images, definitions, runs. What is left, in the
order of what it would show:

1. `AwsDeployment` with the runs of `TaskRuns` behind it: a run of a task whose cluster was set by the
   program (`setEcsCluster`), now two modules with `secured` as their seam.
2. `azure/shared.ts`: the resource group and the function app as lazily created resources.
3. Proofs: what the Azure provider does where its promise fails (the times its timers fire at, the number
   of its builds), and the callback of `AwsCluster`.
