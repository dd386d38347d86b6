---------------------------- MODULE ApiDefinition ----------------------------
(***************************************************************************)
(* Defining and publishing an API on AWS (aws/api.ts 61-298): the calls    *)
(* that declare static files, proxies, routes and custom domains, publish, *)
(* which the program may call too early, twice or again after it threw,    *)
(* and the constructor of HttpDeployment, which registers a resource for   *)
(* each route before it knows that it will succeed.  The names of these    *)
(* resources are the same in every call, and the engine takes a name only  *)
(* once.  A proxy may point at the endpoint of a service                   *)
(* (ServiceEndpoints), which is only known later and may turn out to be    *)
(* one that cannot be proxied to.                                          *)
(***************************************************************************)
EXTENDS ServiceEndpoints

CONSTANTS PathNames,    \* the names of paths; "" is the root
          Methods, DomainNames,
          ApiServices,  \* the services of the program: [containers, cluster]
          MaxCalls      \* bound: the calls of a program

ASSUME MaxCallsAssumption == MaxCalls \in Nat
\* A program whose service throws does not come to an API.
ASSUME ServicesAssumption ==
  \A s \in ApiServices : IsContainers(s.containers) /\ ~IsRefused(AwsService(s.containers, s.cluster))

VARIABLES declared,    \* the four arrays of the API object
          deployment,  \* this.deployment: the routes and domains it serves
          registered,  \* the registrations of resources
          calls,       \* history: the number of calls
          outcome      \* what the engine made of the deployment

apiVars == <<declared, deployment, registered, calls, outcome>>

Kinds == {"static", "proxy", "route", "domain"}

ApiInit ==
  /\ declared = [k \in Kinds |-> <<>>]
  /\ deployment = Absent
  /\ registered = {}
  /\ calls = 0
  /\ outcome = "none"

-----------------------------------------------------------------------------
\* A path as the program writes it, with or without its outer slashes.
RawPaths == [leading : BOOLEAN, name : PathNames, trailing : BOOLEAN]

\* Mutant of cleanPath: the trailing slash stays.
cleanPathLeading(path) == [path EXCEPT !.leading = TRUE]

cleanPath(path) == [path EXCEPT !.leading = TRUE, !.trailing = FALSE]

\* What a proxy may point at: a URL, the default endpoint of a service, or an
\* endpoint of another cloud's.
Targets == [is : {"url"}, trailing : BOOLEAN] \cup [is : {"endpoint"}, of : ApiServices]
             \cup {[is |-> "foreign"]}

\* The arguments of static, proxy, route (get, put, post, delete, options and
\* all have a fixed method) and attachCustomDomain.
Declarations ==
  [kind : {"static"}, path : RawPaths]
    \cup [kind : {"proxy"}, path : RawPaths, target : Targets]
    \cup [kind : {"route"}, path : RawPaths, method : Methods]
    \cup [kind : {"domain"}, domain : DomainNames]

\* What is kept of the arguments: every path is cleaned.
Kept(d) == IF d.kind = "domain" THEN d ELSE [d EXCEPT !.path = cleanPath(d.path)]

Declare(d) ==
  /\ calls < MaxCalls
  /\ calls' = calls + 1
  /\ declared' = [declared EXCEPT ![d.kind] = Append(@, Kept(d))]
  /\ UNCHANGED <<deployment, registered, outcome>>

-----------------------------------------------------------------------------
\* The resource behind a declaration; its name is the API's and a hash of these.
ResourceOf(d) ==
  CASE d.kind = "proxy"  -> <<"vpcLink", <<d.path>>>>
    [] d.kind = "route"  -> <<"function", <<d.path, d.method>>>>
    [] d.kind = "domain" -> <<"domain", <<d.domain>>>>

\* A registration: the call of publish it is made in, what it is made for, and
\* the resource.
Registration(kind, i) ==
  [call |-> calls, for |-> <<kind, i>>, resource |-> ResourceOf(declared[kind][i])]

\* Mutant of Own: a name that "includes the name plus all the registered routes".
OwnByRoutes(type) ==
  [call |-> calls, for |-> <<type, 0>>, resource |-> <<type, <<Len(declared["route"])>>>>]

\* The component or the API itself; its name is the API's.
Own(type) == [call |-> calls, for |-> <<type, 0>>, resource |-> <<type, <<>>>>]

\* A URL needs no link, but a trailing slash.
Linked(proxies) == {i \in DOMAIN proxies : proxies[i].target.is # "url"}

convertProxyRouteTarget(target) ==
  IF target.is = "url" THEN [target EXCEPT !.trailing = TRUE] ELSE target

\* The resources up to the API itself, and the custom domains, which come when
\* the API was made.
BeforeApi ==
  {Own("deployment")} \cup {Registration("proxy", i) : i \in Linked(declared["proxy"])}
    \cup {Registration("route", i) : i \in DOMAIN declared["route"]}
registerCustomDomains == {Registration("domain", i) : i \in DOMAIN declared["domain"]}

convertProxyRoute(p) == [p EXCEPT !.target = convertProxyRouteTarget(p.target)]

\* The converted arrays the API is given, which stay as they are.  (The fields
\* staticRoutes, proxyRoutes and routes of the deployment are the arrays that the
\* API object goes on filling; they say nothing of what is served.)
Served ==
  [k \in Kinds |-> [i \in DOMAIN declared[k] |->
     IF k = "proxy" THEN convertProxyRoute(declared[k][i]) ELSE declared[k][i]]]

\* new HttpDeployment.  awsx (external) looks up the files of the static routes
\* and throws when one is missing; by the next call they may all be there.  (A
\* route's function that has no network throws in every call: AwsDeployment.)
HttpDeployment(missing) ==
  IF missing
  THEN /\ declared["static"] # <<>>
       /\ registered' = registered \cup BeforeApi
       /\ UNCHANGED <<deployment, outcome>>
  ELSE /\ registered' = registered \cup BeforeApi \cup {Own("api")} \cup registerCustomDomains
       /\ deployment' = Served
       /\ outcome' = "pending"

\* publish: it throws when there is a deployment, and when the constructor does,
\* which then leaves behind what it has registered and no deployment.
publish(missing) ==
  /\ calls < MaxCalls
  /\ calls' = calls + 1
  /\ IF deployment = Absent THEN HttpDeployment(missing)
     ELSE UNCHANGED <<deployment, registered, outcome>>
  /\ UNCHANGED declared

-----------------------------------------------------------------------------
\* Of a service with a default endpoint, the load balancer behind it.
Balancer(target) == AwsService(target.of.containers, target.of.cluster).balancers[<<1, 1>>]
EndpointOf(target) == AwsService(target.of.containers, target.of.cluster).defaultEndpoint

\* Mutant of LinkFails: the type of the load balancer does not matter.
LinkFailsForeign(target) ==
  \/ target.is = "foreign"
  \/ target.is = "endpoint" /\ EndpointOf(target) = Absent

\* target.apply: no load balancer, no endpoint at all, or an application one.
LinkFails(target) ==
  \/ target.is = "foreign"
  \/ target.is = "endpoint" /\ EndpointOf(target) = Absent
  \/ /\ target.is = "endpoint"
     /\ EndpointOf(target) # Absent
     /\ Balancer(target).type = "application"

\* Two registrations of one name, which the engine (external) takes once.
Duplicated == \E x, y \in registered : x # y /\ x.resource = y.resource

\* The engine knows the names and the endpoints: a name that is taken, or an
\* endpoint that cannot be linked, fails everything.
Resolve ==
  /\ outcome = "pending"
  /\ outcome' = IF \/ Duplicated
                   \/ \E i \in DOMAIN deployment["proxy"] :
                        LinkFails(deployment["proxy"][i].target)
                THEN "failed" ELSE "live"
  /\ UNCHANGED <<declared, deployment, registered, calls>>

ApiNext ==
  \/ \E d \in Declarations : Declare(d)
  \/ \E missing \in BOOLEAN : publish(missing)
  \/ Resolve

-----------------------------------------------------------------------------
ApiTypeOK ==
  /\ declared["static"] \in Seq([kind : {"static"}, path : RawPaths])
  /\ outcome \in {"none", "pending", "live", "failed"}
  /\ outcome = "none" <=> deployment = Absent
  /\ calls \in 0..MaxCalls

(***************************************************************************)
(* What is live was registered by one call of publish: where an earlier    *)
(* call threw half way through the constructor, and the program declared   *)
(* more and called again with success, nothing that the first call left    *)
(* behind comes to be deployed beside the API.  The engine refuses the two *)
(* together, because the component has the same name in every call,        *)
(* whatever is declared by then, and not one "that includes the name plus  *)
(* all the registered routes" (aws/api.ts 130-138, 198-231).               *)
(***************************************************************************)
LiveIsOnePublish ==
  outcome = "live" => \A x, y \in registered : x.call = y.call

\* The paths of different spelling of one name are one path.
Clean(d) == d.kind = "domain" \/ (d.path.leading /\ ~d.path.trailing)

\* What the call of publish that made the deployment registered.
Published ==
  {x \in registered : \E y \in registered : y.call = x.call /\ y.resource[1] = "api"}

(***************************************************************************)
(* What is served is what was declared by the time of publish, each path   *)
(* in its one clean form, and every custom domain corresponds to "a        *)
(* previous call to attachCustomDomain" (api/api.ts 266-271).  Each route  *)
(* and each domain that is served, and no other, has a function or a       *)
(* domain name registered by that publish, whatever was declared after it  *)
(* and whichever calls threw before it.                                    *)
(***************************************************************************)
ServedAsDeclared ==
  deployment # Absent =>
    /\ \A k \in Kinds : Len(deployment[k]) <= Len(declared[k])
    /\ \A k \in Kinds \ {"proxy"} : \A i \in DOMAIN deployment[k] :
         deployment[k][i] = declared[k][i]
    /\ \A k \in Kinds : \A i \in DOMAIN deployment[k] : Clean(deployment[k][i])
    /\ \A i, j \in DOMAIN deployment["route"] :
         /\ deployment["route"][i].path.name = deployment["route"][j].path.name
         /\ deployment["route"][i].method = deployment["route"][j].method
         => ResourceOf(deployment["route"][i]) = ResourceOf(deployment["route"][j])
    /\ \A k \in {"route", "domain"} :
         {x.resource : x \in {x \in Published : x.for[1] = k}}
           = {ResourceOf(deployment[k][i]) : i \in DOMAIN deployment[k]}

\* Where API Gateway (external) takes a request of a proxied path: a link leads
\* to a network load balancer only.
ProxyArrives(target) ==
  CASE target.is = "url"      -> target.trailing
    [] target.is = "endpoint" ->
         /\ Balancer(target).type = "network"
         /\ Cardinality(AwsReached(AwsService(target.of.containers, target.of.cluster),
                                   target.of.containers, EndpointOf(target))) = 1
    [] target.is = "foreign"  -> FALSE

\* Two routes for one path and method, two links for one path, or a domain
\* twice: "Paths and routing are defined statically, and cannot overlap"
\* (api/api.ts 137).
Overlap ==
  \E k \in {"proxy", "route", "domain"} : \E i, j \in DOMAIN deployment[k] :
    /\ i # j
    /\ ResourceOf(deployment[k][i]) = ResourceOf(deployment[k][j])
    /\ k = "proxy" => {i, j} \subseteq Linked(deployment[k])

\* A call of publish threw half way before the one that succeeded.
Retried == \E x, y \in registered : x.call # y.call

(***************************************************************************)
(* Every proxy of a live deployment leads to its URL, or through the link, *)
(* the load balancer and the target group to a container of the service.   *)
(* A deployment fails only when one of its proxies cannot, when its        *)
(* declarations overlap, or when a call of publish had thrown before       *)
(* (aws/api.ts 157-298).                                                   *)
(***************************************************************************)
ProxyReaches ==
  deployment # Absent =>
    /\ outcome = "live" =>
         \A i \in DOMAIN deployment["proxy"] : ProxyArrives(deployment["proxy"][i].target)
    /\ outcome = "failed" =>
         \/ Overlap \/ Retried
         \/ \E i \in DOMAIN deployment["proxy"] :
              LET target == deployment["proxy"][i].target
              IN  target.is # "endpoint" \/ EndpointOf(target) = Absent \/ ~ProxyArrives(target)
=============================================================================
