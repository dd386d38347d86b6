-------------------------- MODULE ServiceEndpoints --------------------------
(***************************************************************************)
(* What `new Service` exposes on the two clouds (aws/service.ts 36-133,    *)
(* 192-266, 354-432, 608-806; azure/service.ts 38-97, 142-263): which      *)
(* containers and ports it accepts, the load balancer or the group in      *)
(* front of them, the endpoints it hands out, and the addresses it puts    *)
(* into the environment of the containers.                                 *)
(*                                                                         *)
(* The containers of a service are a sequence (Object.keys keeps the order *)
(* of names that are no numerals): [name, ports], each port a              *)
(* ContainerPort of api/service.ts.  Ports are numbers from 1 on, so that  *)
(* targetPort 0 can stand for an absent one, as protocol "" does.          *)
(***************************************************************************)
EXTENDS Integers, Sequences, FiniteSets, FiniteSetsExt, Functions, Values

Target(p)   == IF p.targetPort = 0 THEN p.port ELSE p.targetPort
Protocol(p) == IF p.protocol = "" THEN "tcp" ELSE p.protocol

ContainerPorts(ports, targets, protocols) ==
  [port : ports, targetPort : targets \cup {0}, external : BOOLEAN,
   protocol : protocols \cup {""}]

\* Where a name stands in the service's containers.
Named(containers, name) == {i \in DOMAIN containers : containers[i].name = name}

\* What a program may give as containers: an object's keys are distinct,
\* neither cloud takes a container without a name, and none has a port 0.
Port == Nat \ {0}
IsContainers(containers) ==
  /\ containers \in Seq([name  : STRING \ {""},
                         ports : Seq(ContainerPorts(Port, Port, STRING))])
  /\ \A i, j \in DOMAIN containers : containers[i].name = containers[j].name => i = j

-----------------------------------------------------------------------------
(* AWS: one load balancer, for the only port a service may expose. *)

\* Mutant of createLoadBalancer: the target group gets the listener's port.
createLoadBalancerSamePort(p, cluster) ==
  [listener |-> p.port, targetPort |-> p.port,
   type     |-> IF Protocol(p) \in {"http", "https"} THEN "application" ELSE "network",
   internal |-> cluster.usePrivateSubnets /\ ~p.external,
   protocol |-> Protocol(p)]

\* Refuses udp, and https without a certificate to end it with.
Balanced(p, cluster) ==
  /\ Protocol(p) # "udp"
  /\ Protocol(p) = "https" => cluster.acmCertificate

\* Listener, target group and load balancer of a port.
createLoadBalancer(p, cluster) ==
  [listener |-> p.port, targetPort |-> Target(p),
   type     |-> IF Protocol(p) \in {"http", "https"} THEN "application" ELSE "network",
   internal |-> cluster.usePrivateSubnets /\ ~p.external,
   protocol |-> Protocol(p)]

\* The places of a container and of one of its ports, and the pair of them the
\* two loops come to first.
Exposed(containers) ==
  UNION {{<<i, j>> : j \in DOMAIN containers[i].ports} : i \in DOMAIN containers}
PortAt(containers, e) == containers[e[1]].ports[e[2]]
FirstOf(exposed) ==
  CHOOSE e \in exposed : \A f \in exposed : e[1] < f[1] \/ (e[1] = f[1] /\ e[2] <= f[2])

\* The endpoints object: what is exposed of each container, by port.
AwsEndpoints(containers) ==
  [i \in DOMAIN containers |->
     [name  |-> containers[i].name,
      ports |-> [j \in DOMAIN containers[i].ports |->
                   [key  |-> containers[i].ports[j].port,
                    host |-> "loadBalancer", port |-> containers[i].ports[j].port]]]]

\* getEndpoint(containerName, containerPort), "" and 0 when left out, which stand
\* for the first there is among the endpoints; the same on both clouds.
getEndpointHelper(endpoints, name, port) ==
  LET named == IF name = "" THEN DOMAIN endpoints ELSE Named(endpoints, name)
      ports == IF named = {} THEN <<>> ELSE endpoints[Min(named)].ports
      found == {j \in DOMAIN ports : port = 0 \/ ports[j].key = port}
  IN  IF found = {} THEN Refused
      ELSE [host |-> ports[Min(found)].host, port |-> ports[Min(found)].port]

\* Mutant of AwsDefault: the first container that has a port.
AwsDefaultSearching(containers) ==
  LET withPorts == SelectSeq(containers, LAMBDA c : c.ports # <<>>)
  IN  IF withPorts = <<>> THEN Absent
      ELSE getEndpointHelper(AwsEndpoints(withPorts), "", 0)

\* Only when the first container has a port, and then getEndpoint().
AwsDefault(containers) ==
  IF containers = <<>> \/ containers[1].ports = <<>> THEN Absent
  ELSE getEndpointHelper(AwsEndpoints(containers), "", 0)

\* Mutant of Discovered: the port the container listens on.
DiscoveredTarget(containers) ==
  UNION {{[service |-> containers[i].name, host |-> "loadBalancer",
           port |-> Target(containers[i].ports[j])] :
             j \in DOMAIN containers[i].ports} : i \in DOMAIN containers}

\* {SVC}_SERVICE_HOST and _PORT, {SVC}_PORT_n_TCP: the address every container
\* of the task is given of each container's ports.
Discovered(containers) ==
  UNION {{[service |-> containers[i].name, host |-> "loadBalancer",
           port |-> containers[i].ports[j].port] :
             j \in DOMAIN containers[i].ports} : i \in DOMAIN containers}

\* The container definition's portMappings.
PortMappings(container) == {Target(container.ports[j]) : j \in DOMAIN container.ports}

\* new Service: it throws on a port it cannot balance and on a second one.
AwsService(containers, cluster) ==
  LET exposed     == Exposed(containers)
      balanced(e) == Balanced(PortAt(containers, e), cluster)
      second      == \E e, f \in exposed : e # f
  IN  IF second \/ \E e \in exposed : ~balanced(e)
      THEN [refused |-> TRUE, leftBehind |-> second /\ balanced(FirstOf(exposed))]
      ELSE [cloud |-> "aws", endpoints |-> AwsEndpoints(containers),
            defaultEndpoint |-> AwsDefault(containers),
            balancers |-> [e \in exposed |->
                             createLoadBalancer(PortAt(containers, e), cluster)],
            \* ecs.Service.loadBalancers: where ECS sends what the group gets.
            attached  |-> [e \in exposed |->
                             [container |-> containers[e[1]].name,
                              port |-> Target(PortAt(containers, e))]],
            discovered |-> Discovered(containers)]

-----------------------------------------------------------------------------
(* Azure: a group of containers with one public address. *)

AzureTarget(p) == IF p.targetPort = 0 THEN p.port ELSE p.targetPort

\* A container of the group: at most one port, not mapped, and public.
Groupable(c) ==
  /\ Len(c.ports) <= 1
  /\ \A j \in DOMAIN c.ports :
       AzureTarget(c.ports[j]) = c.ports[j].port /\ c.ports[j].external

\* exposedPorts: only the containers that have a port.
AzureEndpoints(containers) ==
  [i \in {i \in DOMAIN containers : containers[i].ports # <<>>} |->
     [name  |-> containers[i].name,
      ports |-> <<[key  |-> AzureTarget(containers[i].ports[1]),
                   host |-> "group", port |-> containers[i].ports[1].port]>>]]

AzureDefault(containers) ==
  IF containers = <<>> \/ containers[1].ports = <<>> THEN Absent
  ELSE getEndpointHelper(AzureEndpoints(containers), "", 0)

\* createGroup throws before it registers the group.
createGroup(containers) ==
  IF \E i \in DOMAIN containers : ~Groupable(containers[i]) THEN Refused
  ELSE [cloud |-> "azure", endpoints |-> AzureEndpoints(containers),
        defaultEndpoint |-> AzureDefault(containers),
        group |-> [i \in DOMAIN containers |->
                     [container |-> containers[i].name,
                      ports |-> {AzureTarget(containers[i].ports[j]) :
                                   j \in DOMAIN containers[i].ports}]]]

\* new Service: one replica only.
AzureService(containers, replicas) ==
  IF replicas # 1 THEN Refused ELSE createGroup(containers)

-----------------------------------------------------------------------------
(* What the clouds do (external): where a connection to an address ends.   *)

\* A listener forwards to its target group, ECS registers the attached
\* container's port with it, and the container listens if it maps the port.
AwsReached(service, containers, address) ==
  {service.attached[e] :
     e \in {e \in DOMAIN service.balancers :
              /\ address.host = "loadBalancer"
              /\ service.balancers[e].listener = address.port
              /\ service.balancers[e].targetPort = service.attached[e].port
              /\ \E k \in Named(containers, service.attached[e].container) :
                   service.attached[e].port \in PortMappings(containers[k])}}

\* The group's address has the ports of all of its containers.
AzureReached(service, address) ==
  {[container |-> service.group[i].container, port |-> address.port] :
     i \in {i \in DOMAIN service.group :
              address.host = "group" /\ address.port \in service.group[i].ports}}
=============================================================================
