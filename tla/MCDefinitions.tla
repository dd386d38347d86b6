---------------------------- MODULE MCDefinitions ----------------------------
(* The inputs of the TLC runs of Definitions: the values on both sides of   *)
(* every boundary the code has.                                             *)
EXTENDS Definitions

MCRates == [minutes : {0, 1, 2, 59, 60, 61, 1439, 1440}, hours : {0, 1, 23, 24},
            days : {0, 1, 23, 24, 25}]

MCDailySchedules == ScheduleOrHandler({0, 7, 23}, {0, 30, 59})

Defs == [memoryReservation : {0, 511}, memory : {0, 512, 513, 2049, 9000},
         cpu : {0, 256, 257, 1024}]
MCTaskContainers == {<<d>> : d \in Defs} \cup (Defs \X Defs)
                      \cup {<<[memoryReservation |-> 0, memory |-> m, cpu |-> 0]>> :
                              m \in {2048, 4096, 4097, 8192, 8193, 16384, 16385, 30720}}
                      \cup {<<[memoryReservation |-> 0, memory |-> m, cpu |-> c]>> :
                              m \in {8192, 16384, 30720}, c \in {4096, 4097, 65536}}

MCNetworkArgs == [numberOfAvailabilityZones : 0..5, usePrivateSubnets : BOOLEAN]
MCRegions     == {<<"a">>, <<"a", "b", "c">>, <<"a", "b", "c", "d", "e">>}
MCNameLengths == {1, 9, 17, 30, 90} \X {0, 1, 8, 13, 14, 16, 22, 23, 24, 25}

\* Any port alone; two of them where it is their number that matters.
APort     == ContainerPorts({80, 443}, {8080}, {"https", "udp"})
PortLists == {<<>>} \cup {<<p>> : p \in APort}
               \cup {<<p, q>> : p, q \in {p \in APort : p.external /\ p.targetPort = 0
                                                      /\ p.protocol # "https"}}
MCContainerLists ==
  {<<[name |-> "web", ports |-> l]>> : l \in PortLists}
    \cup {<<[name |-> "web", ports |-> k], [name |-> "db", ports |-> l]>> : k, l \in PortLists}
MCClusters == [usePrivateSubnets : BOOLEAN, acmCertificate : BOOLEAN]

\* A service on a network load balancer, one on an application one, one whose
\* listener and container differ in port, and one that exposes nothing.
Exposing(ports) == [containers |-> <<[name |-> "web", ports |-> ports]>>,
                    cluster |-> [usePrivateSubnets |-> TRUE, acmCertificate |-> FALSE]]
Tcp(target)   == [port |-> 80, targetPort |-> target, external |-> FALSE, protocol |-> ""]
MCApiServices == {Exposing(<<>>), Exposing(<<Tcp(0)>>), Exposing(<<Tcp(8080)>>),
                  Exposing(<<[Tcp(0) EXCEPT !.protocol = "http"]>>)}
=============================================================================
