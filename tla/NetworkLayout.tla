---------------------------- MODULE NetworkLayout ----------------------------
(***************************************************************************)
(* What the constructor of an AWS Network registers for its arguments      *)
(* (aws/network.ts 187-329), in which availability zones (aws/aws.ts), and *)
(* the names of resources (createNameWithStackInfo, aws/shared.ts 44-66    *)
(* and azure/shared.ts 24-45), which both clouds limit in length.          *)
(***************************************************************************)
EXTENDS Integers, Sequences, Values

\* An array element past the end: AWS picks a zone itself.
Undefined == "undefined"

\* azs[index], from the zones of the region.
getAvailabilityZone(azs, index) == IF index < Len(azs) THEN azs[index + 1] ELSE Undefined

\* numberOfAvailabilityZones || 2.
ZonesOf(args) ==
  IF args.numberOfAvailabilityZones = 0 THEN 2 ELSE args.numberOfAvailabilityZones

Supported(args) == ZonesOf(args) \in 1..4

\* Where a route table of the network sends what leaves the network.
Gateway == "internetGateway"

\* Mutant of NatSubnet: the block next to the private one.
NatSubnetNext(azs, i) ==
  [name |-> <<"nat", i>>, zone |-> getAvailabilityZone(azs, i),
   block |-> i + 1, publicIp |-> TRUE, target |-> <<Gateway>>]

\* The public subnet of a zone's NAT gateway, associated with the public table.
NatSubnet(azs, i) ==
  [name |-> <<"nat", i>>, zone |-> getAvailabilityZone(azs, i),
   block |-> i + 64, publicIp |-> TRUE, target |-> <<Gateway>>]

\* createSubnetRouteTable: the public table, or one of the zone's NAT gateway,
\* which lies in the subnet <<"nat", i>>.
createSubnetRouteTable(args, i) ==
  IF args.usePrivateSubnets THEN <<"nat", i>> ELSE <<Gateway>>

\* The subnet compute runs in, in the zone with number i.
Subnet(args, azs, i) ==
  [name |-> <<"zone", i>>, zone |-> getAvailabilityZone(azs, i),
   block |-> i, publicIp |-> ~args.usePrivateSubnets,
   target |-> createSubnetRouteTable(args, i)]

\* The subnets `new Network` records, or that it throws.
Network(args, azs) ==
  IF ~Supported(args) THEN Refused
  ELSE LET subnets == {Subnet(args, azs, i) : i \in 0..(ZonesOf(args) - 1)}
       IN  [subnets       |-> subnets,
            publicSubnets |-> IF args.usePrivateSubnets
                              THEN {NatSubnet(azs, i) : i \in 0..(ZonesOf(args) - 1)}
                              ELSE subnets]

\* The subnets whose packets get from s to the internet at its own cost: s
\* itself, and the one its NAT gateway lies in.
Path(network, s) ==
  {s} \cup {t \in network.subnets \cup network.publicSubnets : s.target = t.name}

-----------------------------------------------------------------------------
\* A name is described by the lengths of its parts.
Length(name) == name.stack + name.delim + name.required

Shorter(a, b) == IF a <= b THEN a ELSE b

\* Mutant of NameWithStackInfo: the suffix is not counted.
NameUncut(stack, required, max, delim) ==
  IF required > max THEN Refused
  ELSE IF required >= max - delim
       THEN [stack |-> 0, delim |-> 0, required |-> required]
  ELSE [stack |-> Shorter(stack, max - required), delim |-> delim, required |-> required]

\* As much of the stack's name as fits, the delimiter and the required part.
NameWithStackInfo(stack, required, max, delim) ==
  IF required > max THEN Refused
  ELSE IF required >= max - delim
       THEN [stack |-> 0, delim |-> 0, required |-> required]
  ELSE [stack |-> Shorter(stack, max - (delim + required)),
        delim |-> delim, required |-> required]

\* AWS: at most 24 characters behind `pulumi-`; without a required part the
\* stack's name alone.
AwsName(stack, required) ==
  IF required = 0
  THEN [stack |-> Shorter(stack + 7, 24), delim |-> 0, required |-> 0]
  ELSE NameWithStackInfo(stack + 7, required, 24, 1)

\* Azure: the length and the delimiter are the caller's.
AzureName(stack, required, max, delim) ==
  IF required = 0 THEN Refused
  ELSE NameWithStackInfo(stack, required, max, delim)
=============================================================================
