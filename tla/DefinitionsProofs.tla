--------------------------- MODULE DefinitionsProofs ---------------------------
(***************************************************************************)
(* Proofs about Definitions for every argument of every component; the run *)
(* has those at the boundaries only.  A component is defined in one step   *)
(* from nothing (OneDefinition), so its theorems follow from what the      *)
(* functions of Schedules, NetworkLayout, ServiceEndpoints and FargateSize *)
(* return.  An API takes many calls: what it serves and registers follows  *)
(* from the inductive invariant ApiInv, below.                             *)
(***************************************************************************)
EXTENDS Definitions, FiniteSetTheorems, WellFoundedInduction, TLAPS

LEMMA LengthsFit ==
  ASSUME NEW stack \in Nat, NEW required \in Nat, NEW max \in Nat, NEW delim \in {0, 1},
         delim < max
  PROVE  LET name == NameWithStackInfo(stack, required, max, delim)
         IN  /\ IsRefused(name) <=> required > max
             /\ ~IsRefused(name) =>
                  /\ Length(name) <= max
                  /\ name.required = required
                  /\ name.stack < stack => Length(name) >= max - 1
BY DEF NameWithStackInfo, IsRefused, Refused, Length, Shorter

\* A name without a required part is the stack's alone.
LEMMA StackFits ==
  ASSUME NEW stack \in Nat
  PROVE  LET name == AwsName(stack, 0)
         IN  /\ ~IsRefused(name) /\ Length(name) <= 24 /\ name.required = 0
             /\ name.stack < stack + 7 => Length(name) >= 23
BY DEF AwsName, IsRefused, Refused, Length, Shorter

\* Minutes taken apart into days, hours and minutes.
LEMMA DaysHoursMinutes ==
  ASSUME NEW n \in Nat
  PROVE  (n \div 1440) * 86400 + ((n % 1440) \div 60) * 3600 + (n % 60) * 60 = n * 60
<1>1. n = 1440 * (n \div 1440) + (n % 1440)
  OBVIOUS
<1>2. (n % 1440) = 60 * ((n % 1440) \div 60) + ((n % 1440) % 60)
  OBVIOUS
<1>3. ((n % 1440) % 60) = (n % 60)
  OBVIOUS
<1> QED BY <1>1, <1>2, <1>3

\* Seconds taken apart into hours, minutes and seconds.
LEMMA HoursMinutesSeconds ==
  ASSUME NEW n \in Nat
  PROVE  (n \div 3600) * 3600 + ((n % 3600) \div 60) * 60 + (n % 60) = n
<1>1. n = 3600 * (n \div 3600) + (n % 3600)
  OBVIOUS
<1>2. (n % 3600) = 60 * ((n % 3600) \div 60) + ((n % 3600) % 60)
  OBVIOUS
<1>3. ((n % 3600) % 60) = (n % 60)
  OBVIOUS
<1> QED BY <1>1, <1>2, <1>3

-----------------------------------------------------------------------------
\* What a step defines, seen from the kind of the result.
LEMMA OneDefinition ==
  ASSUME [Next]_vars, defined' # defined
  PROVE  /\ defined'.kind = "interval" => \E rate \in Rates : DefineInterval(rate)
         /\ defined'.kind = "daily"    => \E arg \in DailySchedules : DefineDaily(arg)
         /\ defined'.kind = "hourly"   => \E arg \in DailySchedules : DefineHourly(arg)
         /\ defined'.kind = "task"     => \E defs \in TaskContainers : DefineTask(defs)
         /\ defined'.kind = "network"  =>
              \E args \in NetworkArgs, azs \in Regions : DefineNetwork(args, azs)
         /\ defined'.kind = "name"     =>
              \E lengths \in NameLengths : DefineName(lengths[1], lengths[2])
         /\ defined'.kind = "service"  =>
              \E containers \in ContainerLists, cluster \in Clusters, replicas \in Replicas :
                DefineService(containers, cluster, replicas)
         /\ defined'.kind \in {"interval", "daily", "hourly", "task", "network", "name", "service"}
<1> USE DEF DefineInterval, DefineDaily, DefineHourly, DefineTask, DefineNetwork, DefineName,
            DefineService
<1>1. DefineAny
  BY DEF Next, vars
<1> QED BY <1>1 DEF DefineAny

LEMMA NameStep ==
  ASSUME NEW stack \in Nat, NEW required \in Nat, DefineName(stack, required)
  PROVE  NamesFit'
<1>1. /\ defined'.stack = stack /\ defined'.required = required
      /\ defined'.aws = AwsName(stack, required)
      /\ defined'.image = AzureName(stack, required, 63, 1)
      /\ defined'.group = AzureName(stack, required, 90, 1)
      /\ defined'.account = AzureName(stack, required, 24, 0)
  BY DEF DefineName
<1>2. Fits(defined.aws, defined.stack + 7, 24)'
  <2>1. CASE required = 0
    BY <1>1, <2>1, StackFits DEF Fits
  <2>2. CASE required # 0
    <3>1. defined'.aws = NameWithStackInfo(stack + 7, required, 24, 1)
      BY <1>1, <2>2 DEF AwsName
    <3> QED BY <1>1, <3>1, LengthsFit DEF Fits
  <2> QED BY <2>1, <2>2
<1>3. ASSUME required > 0
      PROVE  /\ Fits(defined.image, defined.stack, 63)'
             /\ Fits(defined.group, defined.stack, 90)'
             /\ Fits(defined.account, defined.stack, 24)'
  <2>1. /\ defined'.image = NameWithStackInfo(stack, required, 63, 1)
        /\ defined'.group = NameWithStackInfo(stack, required, 90, 1)
        /\ defined'.account = NameWithStackInfo(stack, required, 24, 0)
    BY <1>1, <1>3 DEF AzureName
  <2>2. Fits(defined.image, defined.stack, 63)'
    BY <1>1, <2>1, LengthsFit DEF Fits
  <2>3. Fits(defined.group, defined.stack, 90)'
    BY <1>1, <2>1, LengthsFit DEF Fits
  <2>4. Fits(defined.account, defined.stack, 24)'
    BY <1>1, <2>1, LengthsFit DEF Fits
  <2> QED BY <2>2, <2>3, <2>4
<1> QED BY <1>1, <1>2, <1>3 DEF NamesFit

(***************************************************************************)
(* For a stack's name and a required part of any length a name is within   *)
(* its limit, keeps the required part, and is cut no further than needed   *)
(* (aws/shared.ts 44-66, azure/shared.ts 24-45).                           *)
(***************************************************************************)
THEOREM NamesFitCorrect == Spec => []NamesFit
<1>1. Init => NamesFit
  BY DEF Init, None, NamesFit, Is
<1>2. NamesFit /\ [Next]_vars => NamesFit'
  <2> SUFFICES ASSUME NamesFit, [Next]_vars PROVE NamesFit'
    OBVIOUS
  <2>1. CASE defined' = defined
    BY <2>1 DEF NamesFit, Is, Fits
  <2>2. ASSUME NEW lengths \in NameLengths, DefineName(lengths[1], lengths[2])
        PROVE  NamesFit'
    <3>1. lengths[1] \in Nat /\ lengths[2] \in Nat
      BY LengthsAssumption
    <3> QED BY <2>2, <3>1, NameStep
  <2>3. ASSUME defined'.kind # "name" PROVE NamesFit'
    BY <2>3 DEF NamesFit, Is
  <2> QED BY <2>1, <2>2, <2>3, OneDefinition
<1> QED BY <1>1, <1>2, PTL DEF Spec

-----------------------------------------------------------------------------
LEMMA MinutesNat ==
  ASSUME NEW rate \in Rates
  PROVE  Minutes(rate) \in Nat
BY RatesAssumption DEF Minutes, minutesInOneHour, minutesInOneDay

LEMMA AwsIntervalKept ==
  ASSUME NEW rate \in Rates
  PROVE  /\ IsRefused(AwsInterval(rate)) <=> Minutes(rate) = 0
         /\ ~IsRefused(AwsInterval(rate)) => AwsPeriod(AwsInterval(rate)) = Minutes(rate) * 60
BY MinutesNat DEF AwsInterval, AwsPeriod, IsRefused, Refused

\* The two ways a time span is written, and when none is.
LEMMA AzureIntervalKept ==
  ASSUME NEW rate \in Rates, NEW minutes \in Nat, minutes = Minutes(rate),
         NEW made, made = AzureInterval(rate)
  PROVE  /\ IsRefused(made) <=> (minutes < 1 \/ (minutes >= 1440 /\ minutes < 34560))
         /\ ~IsRefused(made) => AzurePeriod(made) = minutes * 60
<1> USE DEF minutesInOneHour, minutesInOneDay, minutesIn24Days
<1>1. CASE minutes < 1 \/ (minutes >= 1440 /\ minutes < 34560)
  <2>1. made = Refused
    BY <1>1 DEF AzureInterval
  <2> QED BY <1>1, <2>1 DEF IsRefused, Refused
<1>2. CASE minutes >= 34560
  <2>1. made = [span |-> <<minutes \div 1440, (minutes % 1440) \div 60, minutes % 60>>]
    BY <1>2 DEF AzureInterval, ConvertMinutesToDD_HH_MM
  <2>2. minutes \div 1440 >= 24
    BY <1>2
  <2>3. AzurePeriod(made) = (minutes \div 1440) * 86400 + ((minutes % 1440) \div 60) * 3600
                              + (minutes % 60) * 60
    BY <2>1, <2>2 DEF AzurePeriod
  <2>4. AzurePeriod(made) = minutes * 60
    <3>1. (minutes \div 1440) * 86400 + ((minutes % 1440) \div 60) * 3600 + (minutes % 60) * 60
            = minutes * 60
      BY DaysHoursMinutes
    <3> QED BY ONLY <2>3, <3>1
  <2>5. ~IsRefused(made)
    BY <2>1 DEF IsRefused
  <2> QED BY <1>2, <2>4, <2>5
<1>3. CASE minutes >= 1 /\ minutes < 1440
  <2> DEFINE seconds == minutes * 60
  <2>1. made = [span |-> <<seconds \div 3600, (seconds % 3600) \div 60, seconds % 60>>]
    BY <1>3 DEF AzureInterval, ConvertSecondsToHH_MM_SS
  <2>2. seconds \in Nat /\ seconds \div 3600 < 24
    BY <1>3
  <2>3. AzurePeriod(made) = seconds
    <3>1. AzurePeriod(made) = (seconds \div 3600) * 3600 + ((seconds % 3600) \div 60) * 60
                                + (seconds % 60)
      BY <2>1, <2>2 DEF AzurePeriod
    <3> HIDE DEF seconds
    <3> QED BY <2>2, <3>1, HoursMinutesSeconds
  <2>4. ~IsRefused(made)
    BY <2>1 DEF IsRefused
  <2> QED BY <1>3, <2>3, <2>4
<1> QED BY <1>1, <1>2, <1>3

(***************************************************************************)
(* An interval of any number of minutes, hours and days is kept by both    *)
(* clouds, and refused only when it is empty or, on Azure, between one and *)
(* 24 days (aws/timer.ts 21-42, azure/timer.ts 28-103).                    *)
(***************************************************************************)
THEOREM IntervalKeptCorrect == Spec => []IntervalKept
<1>1. Init => IntervalKept
  BY DEF Init, None, IntervalKept, Is
<1>2. IntervalKept /\ [Next]_vars => IntervalKept'
  <2> SUFFICES ASSUME IntervalKept, [Next]_vars PROVE IntervalKept'
    OBVIOUS
  <2>1. CASE defined' = defined
    BY <2>1 DEF IntervalKept, Is
  <2>2. ASSUME NEW rate \in Rates, DefineInterval(rate) PROVE IntervalKept'
    <3>1. /\ defined'.rate = rate /\ defined'.aws = AwsInterval(rate)
          /\ defined'.azure = AzureInterval(rate)
      BY <2>2 DEF DefineInterval
    <3>2. Minutes(rate) \in Nat
      BY MinutesNat
    <3>3. /\ IsRefused(defined'.azure)
               <=> (Minutes(rate) < 1 \/ (Minutes(rate) >= 1440 /\ Minutes(rate) < 34560))
          /\ ~IsRefused(defined'.azure) => AzurePeriod(defined'.azure) = Minutes(rate) * 60
      BY <3>1, <3>2, AzureIntervalKept
    <3>4. /\ IsRefused(defined'.aws) <=> Minutes(rate) = 0
          /\ ~IsRefused(defined'.aws) => AwsPeriod(defined'.aws) = Minutes(rate) * 60
      BY <3>1, AwsIntervalKept
    <3> QED BY <3>1, <3>2, <3>3, <3>4
           DEF IntervalKept, minutesInOneHour, minutesInOneDay, minutesIn24Days
  <2>3. ASSUME defined'.kind # "interval" PROVE IntervalKept'
    BY <2>3 DEF IntervalKept, Is
  <2> QED BY <2>1, <2>2, <2>3, OneDefinition
<1> QED BY <1>1, <1>2, PTL DEF Spec
-----------------------------------------------------------------------------
\* What the arguments of daily and hourly ask for, and when AWS fires.
LEMMA CronFires ==
  ASSUME NEW arg \in DailySchedules,
         NEW hour, hour = IF arg.is = "schedule" THEN arg.hourUTC ELSE 0,
         NEW minute, minute = IF arg.is = "schedule" THEN arg.minuteUTC ELSE 0
  PROVE  /\ ~IsRefused(Daily(arg)) =>
              AwsFires(Daily(arg).cron) = [second |-> {0}, minute |-> {minute}, hour |-> {hour}]
         /\ ~IsRefused(Hourly(arg)) =>
              AwsFires(Hourly(arg).cron) = [second |-> {0}, minute |-> {minute}, hour |-> 0..23]
<1>1. \/ arg.is \in {"function", "missing"}
      \/ arg.is = "schedule" /\ arg.hourUTC \in Nat /\ arg.minuteUTC \in Nat
  BY SchedulesAssumption DEF ScheduleOrHandler
<1>2. CASE arg.is = "missing"
  BY <1>2 DEF Daily, Hourly, IsRefused, Refused
<1>3. CASE arg.is = "function"
  BY <1>3 DEF Daily, Hourly, AwsFires, Matches, Every
<1>4. CASE arg.is = "schedule" /\ arg.hourUTC \in Nat /\ arg.minuteUTC \in Nat
  <2>1. /\ Daily(arg) = [cron |-> <<minute, hour, -1, -1, -1, -1>>]
        /\ Hourly(arg) = [cron |-> <<minute, -1, -1, -1, -1, -1>>]
    BY <1>4 DEF Daily, Hourly, Every
  <2>2. minute # -1 /\ hour # -1
    BY <1>4
  <2> QED BY <2>1, <2>2 DEF AwsFires, Matches, Every
<1> QED BY <1>1, <1>2, <1>3, <1>4

(***************************************************************************)
(* A daily timer fires once a day at its hour and minute, an hourly one    *)
(* once an hour at its minute, for any schedule that is accepted, on AWS   *)
(* (api/timer.ts 90-131, aws/timer.ts 44-80).                              *)
(***************************************************************************)
THEOREM TimerFiresOnAwsCorrect == Spec => []TimerFiresOnAws
<1>1. Init => TimerFiresOnAws
  BY DEF Init, None, TimerFiresOnAws
<1>2. TimerFiresOnAws /\ [Next]_vars => TimerFiresOnAws'
  <2> SUFFICES ASSUME TimerFiresOnAws, [Next]_vars PROVE TimerFiresOnAws'
    OBVIOUS
  <2> USE DEF TimerFiresOnAws, FiresAsAsked, AskedHour, AskedMinute, Is
  <2>1. CASE defined' = defined
    BY <2>1
  <2>2. ASSUME NEW arg \in DailySchedules, DefineDaily(arg) PROVE TimerFiresOnAws'
    <3>1. /\ defined'.kind = "daily" /\ defined'.arg = arg /\ defined'.aws = Daily(arg)
      BY <2>2 DEF DefineDaily
    <3> QED BY <3>1, CronFires
  <2>3. ASSUME NEW arg \in DailySchedules, DefineHourly(arg) PROVE TimerFiresOnAws'
    <3>1. /\ defined'.kind = "hourly" /\ defined'.arg = arg /\ defined'.aws = Hourly(arg)
      BY <2>3 DEF DefineHourly
    <3> QED BY <3>1, CronFires
  <2>4. ASSUME defined'.kind \notin {"daily", "hourly"} PROVE TimerFiresOnAws'
    BY <2>4
  <2> QED BY <2>1, <2>2, <2>3, <2>4, OneDefinition
<1> QED BY <1>1, <1>2, PTL DEF Spec
-----------------------------------------------------------------------------
\* A function that takes no value twice has as many values as arguments.
LEMMA ValuesCounted ==
  ASSUME NEW f, IsFiniteSet(DOMAIN f), f = [x \in DOMAIN f |-> f[x]],
         \A x, y \in DOMAIN f : f[x] = f[y] => x = y
  PROVE  /\ IsFiniteSet({f[x] : x \in DOMAIN f})
         /\ Cardinality({f[x] : x \in DOMAIN f}) = Cardinality(DOMAIN f)
<1> DEFINE T == {f[x] : x \in DOMAIN f}
<1>1. f \in [DOMAIN f -> T]
  OBVIOUS
<1>2. \A t \in T : \E x \in DOMAIN f : f[x] = t
  OBVIOUS
<1>3. f \in Bijection(DOMAIN f, T)
  BY <1>1, <1>2 DEF Bijection, Injection, Surjection, IsInjective
<1>4. ExistsBijection(DOMAIN f, T)
  BY <1>3 DEF ExistsBijection
<1> QED BY <1>4, FS_Bijection

\* The zones of a network: how many, and what their subnets are.
LEMMA SubnetsOf ==
  ASSUME NEW args \in NetworkArgs, NEW azs \in Regions, NEW n, n = ZonesOf(args),
         ~IsRefused(Network(args, azs))
  PROVE  /\ n \in 1..4 /\ args.usePrivateSubnets \in BOOLEAN
         /\ Network(args, azs).subnets = {Subnet(args, azs, i) : i \in 0..(n - 1)}
         /\ Network(args, azs).publicSubnets
              = IF args.usePrivateSubnets THEN {NatSubnet(azs, i) : i \in 0..(n - 1)}
                ELSE {Subnet(args, azs, i) : i \in 0..(n - 1)}
<1>1. Supported(args)
  BY DEF Network, IsRefused, Refused
<1> QED BY <1>1, NetworksAssumption DEF Network, Supported

\* A region with enough zones has one for each subnet.
LEMMA ZonesDiffer ==
  ASSUME NEW azs \in Regions, NEW i \in Nat, NEW j \in Nat, i # j,
         i < Len(azs), j < Len(azs)
  PROVE  getAvailabilityZone(azs, i) # getAvailabilityZone(azs, j)
<1>1. azs \in Seq(STRING) /\ IsInjective(azs)
  BY NetworksAssumption
<1>2. i + 1 \in DOMAIN azs /\ j + 1 \in DOMAIN azs /\ i + 1 # j + 1
  BY <1>1
<1>3. azs[i + 1] # azs[j + 1]
  BY <1>1, <1>2 DEF IsInjective
<1> QED BY <1>3 DEF getAvailabilityZone

\* The subnets sub and the NAT subnets nat of n zones are apart and connected.
LEMMA ZonesConnected ==
  ASSUME NEW args \in NetworkArgs, NEW azs \in Regions, NEW n \in 1..4,
         NEW sub, NEW nat, NEW network, NEW Z, Z = 0..(n - 1),
         args.usePrivateSubnets \in BOOLEAN,
         sub = [i \in Z |-> Subnet(args, azs, i)],
         nat = [i \in Z |-> NatSubnet(azs, i)],
         network.subnets = {sub[i] : i \in Z},
         network.publicSubnets = IF args.usePrivateSubnets THEN {nat[i] : i \in Z}
                                 ELSE {sub[i] : i \in Z},
         NEW all, all = network.subnets \cup network.publicSubnets
  PROVE  /\ Cardinality(network.subnets) = n
         /\ \A s, t \in all : (s.block = t.block) => (s = t)
         /\ \A s, t \in network.subnets : (s.zone = t.zone /\ s # t) => n > Len(azs)
         /\ \A s \in all : s.block \in 0..255
                         /\ \E t \in Path(network, s) : /\ t.target = <<Gateway>>
                                                        /\ t.zone = s.zone
                                                        /\ t.publicIp
         /\ \A s \in network.publicSubnets : s.target = <<Gateway>> /\ s.publicIp
         /\ args.usePrivateSubnets =>
              \A s \in network.subnets : ~s.publicIp /\ s.target # <<Gateway>>
<1>1. \A i \in Z : i \in Nat /\ i < n /\ i < 4
  OBVIOUS
<1>2. \A i \in Z : /\ sub[i].name = <<"zone", i>> /\ nat[i].name = <<"nat", i>>
                   /\ sub[i].zone = getAvailabilityZone(azs, i)
                   /\ nat[i].zone = sub[i].zone
                   /\ sub[i].block = i /\ nat[i].block = i + 64
  BY DEF Subnet, NatSubnet
<1>3. \A i \in Z : /\ nat[i].publicIp /\ nat[i].target = <<Gateway>>
                   /\ args.usePrivateSubnets =>
                        ~sub[i].publicIp /\ sub[i].target = <<"nat", i>>
                   /\ ~args.usePrivateSubnets =>
                        sub[i].publicIp /\ sub[i].target = <<Gateway>>
  BY DEF Subnet, NatSubnet, createSubnetRouteTable
<1>4. Cardinality(network.subnets) = n
  <2>1. IsFiniteSet(Z) /\ Cardinality(Z) = n
    <3>1. n - 1 \in Int /\ ~(0 > n - 1) /\ (n - 1) - 0 + 1 = n
      OBVIOUS
    <3>2. /\ IsFiniteSet(0..(n - 1))
          /\ Cardinality(0..(n - 1)) = IF 0 > n - 1 THEN 0 ELSE (n - 1) - 0 + 1
      BY ONLY <3>1, FS_Interval
    <3> QED BY <3>1, <3>2
  <2>2. /\ DOMAIN sub = Z /\ sub = [x \in DOMAIN sub |-> sub[x]]
        /\ \A x, y \in DOMAIN sub : sub[x] = sub[y] => x = y
        /\ network.subnets = {sub[x] : x \in DOMAIN sub}
    BY <1>2
  <2>3. IsFiniteSet(DOMAIN sub)
    BY ONLY <2>1, <2>2
  <2>4. Cardinality({sub[x] : x \in DOMAIN sub}) = Cardinality(DOMAIN sub)
    BY ONLY <2>2, <2>3, ValuesCounted
  <2> QED BY ONLY <2>1, <2>2, <2>4
<1>5. \A s \in all : \E i \in Z : s = sub[i] \/ (s = nat[i] /\ args.usePrivateSubnets)
  OBVIOUS
<1>6. \A s, t \in all : (s.block = t.block) => (s = t)
  <2> SUFFICES ASSUME NEW s \in all, NEW t \in all, s.block = t.block PROVE s = t
    OBVIOUS
  <2>1. PICK i \in Z : s = sub[i] \/ s = nat[i]
    BY <1>5
  <2>2. PICK j \in Z : t = sub[j] \/ t = nat[j]
    BY <1>5
  <2>3. i = j /\ ((s = sub[i] /\ t = sub[j]) \/ (s = nat[i] /\ t = nat[j]))
    <3>1. /\ i \in Nat /\ i < 4 /\ j \in Nat /\ j < 4
          /\ sub[i].block = i /\ nat[i].block = i + 64
          /\ sub[j].block = j /\ nat[j].block = j + 64
      BY ONLY <1>1, <1>2, <2>1, <2>2
    <3>2. s.block = t.block
      OBVIOUS
    <3>3. CASE s = sub[i] /\ t = sub[j]
      <4>1. i = j
        BY ONLY <3>1, <3>2, <3>3
      <4> QED BY ONLY <4>1, <3>3
    <3>4. CASE s = nat[i] /\ t = nat[j]
      BY ONLY <3>1, <3>2, <3>4
    <3>5. CASE s = sub[i] /\ t = nat[j]
      BY ONLY <3>1, <3>2, <3>5
    <3>6. CASE s = nat[i] /\ t = sub[j]
      BY ONLY <3>1, <3>2, <3>6
    <3> QED BY ONLY <3>3, <3>4, <3>5, <3>6, <2>1, <2>2
  <2> QED BY ONLY <2>3
<1>7. \A s, t \in network.subnets : (s.zone = t.zone /\ s # t) => n > Len(azs)
  <2> SUFFICES ASSUME NEW i \in Z, NEW j \in Z, sub[i].zone = sub[j].zone, sub[i] # sub[j]
               PROVE  n > Len(azs)
    OBVIOUS
  <2>1. i # j /\ Len(azs) \in Nat
    BY NetworksAssumption
  <2>2. getAvailabilityZone(azs, i) = getAvailabilityZone(azs, j)
    BY <1>2
  <2>3. ~(i < Len(azs) /\ j < Len(azs))
    BY <1>1, <2>1, <2>2, ZonesDiffer
  <2> QED BY <1>1, <2>1, <2>3
<1>8. ASSUME NEW s \in all
      PROVE  /\ s.block \in 0..255
             /\ \E t \in Path(network, s) : /\ t.target = <<Gateway>> /\ t.zone = s.zone
                                            /\ t.publicIp
  <2>1. PICK i \in Z : s = sub[i] \/ (s = nat[i] /\ args.usePrivateSubnets)
    BY <1>5
  <2>2. s.block \in 0..255
    BY ONLY <1>1, <1>2, <2>1
  <2>3. CASE s = nat[i] \/ ~args.usePrivateSubnets
    <3>1. s \in Path(network, s)
      BY DEF Path
    <3>2. s.target = <<Gateway>> /\ s.publicIp
      BY <1>3, <2>1, <2>3
    <3> QED BY <2>2, <3>1, <3>2
  <2>4. CASE s = sub[i] /\ args.usePrivateSubnets
    <3>1. nat[i] \in all /\ s.target = nat[i].name
      <4>1. nat[i] \in all
        BY <2>4
      <4>2. s.target = nat[i].name
        BY ONLY <1>2, <1>3, <2>1, <2>4
      <4> QED BY <4>1, <4>2
    <3>2. nat[i] \in Path(network, s)
      BY <3>1 DEF Path
    <3>3. nat[i].target = <<Gateway>> /\ nat[i].publicIp /\ nat[i].zone = s.zone
      BY ONLY <1>2, <1>3, <2>1, <2>4
    <3> QED BY <2>2, <3>2, <3>3
  <2> QED BY <2>1, <2>3, <2>4
<1>9. \A s \in network.publicSubnets : s.target = <<Gateway>> /\ s.publicIp
  BY <1>3
<1>10. args.usePrivateSubnets =>
         \A s \in network.subnets : ~s.publicIp /\ s.target # <<Gateway>>
  <2>1. \A i \in Z : <<"nat", i>> # <<Gateway>>
    OBVIOUS
  <2> QED BY <1>3, <2>1
<1> QED BY <1>4, <1>6, <1>7, <1>8, <1>9, <1>10

LEMMA NetworkStep ==
  ASSUME NEW args \in NetworkArgs, NEW azs \in Regions, DefineNetwork(args, azs)
  PROVE  NetworkConnected'
<1> DEFINE n == ZonesOf(args)
           network == Network(args, azs)
           Z == 0..(n - 1)
           sub == [i \in Z |-> Subnet(args, azs, i)]
           nat == [i \in Z |-> NatSubnet(azs, i)]
<1>1. /\ defined'.kind = "network" /\ defined'.network = network
      /\ defined'.args = args /\ defined'.azs = azs
  BY DEF DefineNetwork
<1> SUFFICES ASSUME ~IsRefused(network)
             PROVE  NetworkConnected'
  BY <1>1 DEF NetworkConnected, Is
<1>2. /\ n \in 1..4 /\ args.usePrivateSubnets \in BOOLEAN
      /\ network.subnets = {sub[i] : i \in Z}
      /\ network.publicSubnets = IF args.usePrivateSubnets THEN {nat[i] : i \in Z}
                                 ELSE {sub[i] : i \in Z}
  <2>1. /\ n \in 1..4 /\ args.usePrivateSubnets \in BOOLEAN
        /\ network.subnets = {Subnet(args, azs, i) : i \in Z}
        /\ network.publicSubnets
             = IF args.usePrivateSubnets THEN {NatSubnet(azs, i) : i \in Z}
               ELSE {Subnet(args, azs, i) : i \in Z}
    <3> HIDE DEF n, network
    <3> QED BY SubnetsOf DEF n, network
  <2>2. {Subnet(args, azs, i) : i \in Z} = {sub[i] : i \in Z}
        /\ {NatSubnet(azs, i) : i \in Z} = {nat[i] : i \in Z}
    BY ONLY Zenon
  <2> QED BY ONLY <2>1, <2>2
<1> HIDE DEF network, n
<1>3. /\ Cardinality(network.subnets) = n
      /\ \A s, t \in network.subnets \cup network.publicSubnets :
           (s.block = t.block) => (s = t)
      /\ \A s, t \in network.subnets : (s.zone = t.zone /\ s # t) => n > Len(azs)
      /\ \A s \in network.subnets \cup network.publicSubnets :
           s.block \in 0..255
           /\ \E t \in Path(network, s) : /\ t.target = <<Gateway>>
                                          /\ t.zone = s.zone
                                          /\ t.publicIp
      /\ \A s \in network.publicSubnets : s.target = <<Gateway>> /\ s.publicIp
      /\ args.usePrivateSubnets =>
           \A s \in network.subnets : ~s.publicIp /\ s.target # <<Gateway>>
  <2>1. Z = 0..(n - 1) /\ sub = [i \in Z |-> Subnet(args, azs, i)]
        /\ nat = [i \in Z |-> NatSubnet(azs, i)]
    OBVIOUS
  <2> HIDE DEF Z, sub, nat
  <2> QED BY ONLY <1>2, <2>1, args \in NetworkArgs, azs \in Regions, ZonesConnected
<1> QED BY <1>1, <1>3 DEF NetworkConnected, n

(***************************************************************************)
(* Every network that is accepted, with any number of zones and in any     *)
(* region, has its subnets apart, each connected to the internet through   *)
(* its own zone, and the private ones without a public address             *)
(* (aws/network.ts 234-329).                                               *)
(***************************************************************************)
THEOREM NetworkConnectedCorrect == Spec => []NetworkConnected
<1>1. Init => NetworkConnected
  BY DEF Init, None, NetworkConnected, Is
<1>2. NetworkConnected /\ [Next]_vars => NetworkConnected'
  <2> SUFFICES ASSUME NetworkConnected, [Next]_vars PROVE NetworkConnected'
    OBVIOUS
  <2>1. CASE defined' = defined
    BY <2>1 DEF NetworkConnected, Is
  <2>2. ASSUME defined'.kind # "network" PROVE NetworkConnected'
    BY <2>2 DEF NetworkConnected, Is
  <2> QED BY <2>1, <2>2, NetworkStep, OneDefinition
<1> QED BY <1>1, <1>2, PTL DEF Spec
-----------------------------------------------------------------------------
\* A set of natural numbers that is not empty has a least element.
LEMMA LeastIsLeast ==
  ASSUME NEW S \in SUBSET Nat, S # {}
  PROVE  Min(S) \in S /\ \A y \in S : Min(S) <= y
<1>1. PICK x \in S : \A y \in S : ~(<<y, x>> \in OpToRel(<, Nat))
  BY NatLessThanWellFounded, WFMin
<1>2. \A y \in S : ~(y < x)
  BY <1>1, Zenon DEF OpToRel
<1>3. \A y \in S : x <= y
  BY <1>2
<1> QED BY <1>3 DEF Min

LEMMA ContainersAre ==
  ASSUME NEW containers, IsContainers(containers)
  PROVE  /\ Len(containers) \in Nat /\ DOMAIN containers = 1..Len(containers)
         /\ DOMAIN containers \in SUBSET Nat
         /\ \A i \in DOMAIN containers :
              /\ containers[i].name # ""
              /\ DOMAIN containers[i].ports \in SUBSET Nat
              /\ containers[i].ports # <<>> => 1 \in DOMAIN containers[i].ports
              /\ containers[i].ports = <<>> => DOMAIN containers[i].ports = {}
              /\ Len(containers[i].ports) \in Nat
              /\ DOMAIN containers[i].ports = 1..Len(containers[i].ports)
         /\ \A i, j \in DOMAIN containers :
              containers[i].name = containers[j].name => i = j
<1> DEFINE Q == ContainerPorts(Port, Port, STRING)
           C == [name : STRING \ {""}, ports : Seq(Q)]
<1>1. ASSUME NEW T, NEW ports \in Seq(T)
      PROVE  /\ DOMAIN ports \in SUBSET Nat
             /\ ports # <<>> => 1 \in DOMAIN ports
             /\ ports = <<>> => DOMAIN ports = {}
             /\ Len(ports) \in Nat /\ DOMAIN ports = 1..Len(ports)
             /\ \A i \in DOMAIN ports : ports[i] \in T
  BY ONLY <1>1
<1>2. containers \in Seq(C)
  BY DEF IsContainers
<1>3. \A c \in C : c.name # "" /\ c.ports \in Seq(Q)
  <2> HIDE DEF Q
  <2> QED OBVIOUS
<1> HIDE DEF C, Q
<1>4. \A i \in DOMAIN containers : containers[i].name # "" /\ containers[i].ports \in Seq(Q)
  BY ONLY <1>1, <1>2, <1>3
<1>5. \A i, j \in DOMAIN containers : containers[i].name = containers[j].name => i = j
  BY DEF IsContainers
<1>6. /\ Len(containers) \in Nat /\ DOMAIN containers = 1..Len(containers)
      /\ DOMAIN containers \in SUBSET Nat
  BY ONLY <1>1, <1>2
<1>7. \A ports \in Seq(Q) : /\ DOMAIN ports \in SUBSET Nat
                            /\ ports # <<>> => 1 \in DOMAIN ports
                            /\ ports = <<>> => DOMAIN ports = {}
                            /\ Len(ports) \in Nat /\ DOMAIN ports = 1..Len(ports)
  BY ONLY <1>1
<1> QED BY ONLY <1>4, <1>5, <1>6, <1>7

\* The places getEndpoint looks at for a name.
Asked(endpoints, name) == IF name = "" THEN DOMAIN endpoints ELSE Named(endpoints, name)

\* Where getEndpoint finds its answer: with the first of the named containers,
\* if that has a port that matches.
LEMMA Answer ==
  ASSUME NEW endpoints, DOMAIN endpoints \in SUBSET Nat,
         \A i \in DOMAIN endpoints : DOMAIN endpoints[i].ports \in SUBSET Nat,
         NEW name, NEW port
  PROVE  \/ /\ getEndpointHelper(endpoints, name, port) = Refused
            /\ \A i \in Asked(endpoints, name) : (\A k \in Asked(endpoints, name) : i <= k) =>
                 \A j \in DOMAIN endpoints[i].ports :
                   ~(port = 0 \/ endpoints[i].ports[j].key = port)
         \/ \E i \in Asked(endpoints, name) :
              /\ \A k \in Asked(endpoints, name) : i <= k
              /\ \E j \in DOMAIN endpoints[i].ports :
                   /\ port = 0 \/ endpoints[i].ports[j].key = port
                   /\ getEndpointHelper(endpoints, name, port)
                        = [host |-> endpoints[i].ports[j].host,
                           port |-> endpoints[i].ports[j].port]
<1> DEFINE named == Asked(endpoints, name)
           ports == IF named = {} THEN <<>> ELSE endpoints[Min(named)].ports
           found == {j \in DOMAIN ports : port = 0 \/ ports[j].key = port}
<1>1. named \in SUBSET DOMAIN endpoints /\ named \in SUBSET Nat
  BY DEF Named, Asked
<1>2. getEndpointHelper(endpoints, name, port)
        = IF found = {} THEN Refused
          ELSE [host |-> ports[Min(found)].host, port |-> ports[Min(found)].port]
  BY DEF getEndpointHelper, Asked
<1> HIDE DEF named
<1>3. CASE named = {}
  <2>1. DOMAIN ports = {}
    <3>1. ports = <<>>
      BY <1>3
    <3> HIDE DEF ports
    <3> QED BY ONLY <3>1
  <2>2. found = {}
    BY <2>1
  <2> HIDE DEF found
  <2> QED BY <1>2, <1>3, <2>2 DEF named
<1>4. CASE named # {}
  <2>1. Min(named) \in named /\ \A k \in named : Min(named) <= k
    BY <1>1, <1>4, LeastIsLeast
  <2>2. ports = endpoints[Min(named)].ports
    BY <1>4
  <2>3. ASSUME NEW i \in named, \A k \in named : i <= k PROVE i = Min(named)
    <3>1. i <= Min(named) /\ Min(named) <= i /\ i \in Nat /\ Min(named) \in Nat
      BY <1>1, <2>1, <2>3
    <3> QED BY ONLY <3>1
  <2>4. found \in SUBSET Nat
    <3>1. DOMAIN ports \in SUBSET Nat
      <4>1. Min(named) \in DOMAIN endpoints
        BY ONLY <1>1, <2>1
      <4> HIDE DEF ports
      <4> QED BY <4>1, <2>2
    <3> HIDE DEF ports
    <3> QED BY ONLY <3>1
  <2>5. CASE found = {}
    <3>1. \A j \in DOMAIN ports : ~(port = 0 \/ ports[j].key = port)
      BY <2>5
    <3> HIDE DEF ports, found
    <3> QED BY <1>2, <2>2, <2>3, <2>5, <3>1 DEF named
  <2>6. CASE found # {}
    <3>1. Min(found) \in found
      BY <2>4, <2>6, LeastIsLeast
    <3>2. Min(found) \in DOMAIN ports /\ (port = 0 \/ ports[Min(found)].key = port)
      BY <3>1
    <3> HIDE DEF ports, found
    <3> QED BY <1>2, <2>1, <2>2, <2>6, <3>2 DEF named
  <2> QED BY <2>5, <2>6
<1> QED BY <1>3, <1>4 DEF named

\* A service that AWS takes exposes at most one port.
LEMMA AwsTaken ==
  ASSUME NEW containers, NEW cluster, ~IsRefused(AwsService(containers, cluster))
  PROVE  LET service == AwsService(containers, cluster)
         IN  /\ \A e, f \in Exposed(containers) : e = f
             /\ service.cloud = "aws"
             /\ service.endpoints = AwsEndpoints(containers)
             /\ service.defaultEndpoint = AwsDefault(containers)
             /\ service.discovered = Discovered(containers)
             /\ service.balancers = [e \in Exposed(containers) |->
                                       createLoadBalancer(PortAt(containers, e), cluster)]
             /\ service.attached = [e \in Exposed(containers) |->
                                      [container |-> containers[e[1]].name,
                                       port |-> Target(PortAt(containers, e))]]
BY DEF AwsService, IsRefused

LEMMA AwsEndpointsAre ==
  ASSUME NEW containers
  PROVE  LET endpoints == AwsEndpoints(containers)
         IN  /\ DOMAIN endpoints = DOMAIN containers
             /\ \A i \in DOMAIN containers :
                  /\ DOMAIN endpoints[i].ports = DOMAIN containers[i].ports
                  /\ \A j \in DOMAIN containers[i].ports :
                       /\ endpoints[i].ports[j].key = containers[i].ports[j].port
                       /\ endpoints[i].ports[j].host = "loadBalancer"
                       /\ endpoints[i].ports[j].port = containers[i].ports[j].port
             /\ \A name : Asked(endpoints, name) = Asked(containers, name)
<1> DEFINE endpoints == AwsEndpoints(containers)
<1>1. /\ DOMAIN endpoints = DOMAIN containers
      /\ \A i \in DOMAIN containers :
           endpoints[i] = [name  |-> containers[i].name,
                           ports |-> [j \in DOMAIN containers[i].ports |->
                                        [key  |-> containers[i].ports[j].port,
                                         host |-> "loadBalancer",
                                         port |-> containers[i].ports[j].port]]]
  BY DEF AwsEndpoints
<1> HIDE DEF endpoints
<1>2. \A i \in DOMAIN containers : endpoints[i].name = containers[i].name
  BY <1>1
<1>3. \A name : Asked(endpoints, name) = Asked(containers, name)
  BY ONLY <1>1, <1>2 DEF Named, Asked
<1>4. /\ DOMAIN endpoints = DOMAIN containers
      /\ \A i \in DOMAIN containers :
           /\ DOMAIN endpoints[i].ports = DOMAIN containers[i].ports
           /\ \A j \in DOMAIN containers[i].ports :
                /\ endpoints[i].ports[j].key = containers[i].ports[j].port
                /\ endpoints[i].ports[j].host = "loadBalancer"
                /\ endpoints[i].ports[j].port = containers[i].ports[j].port
  BY ONLY <1>1
<1> QED BY ONLY <1>3, <1>4 DEF endpoints

\* What getEndpoint answers on AWS: nothing if the container meant has no such
\* port, or the listener of that port.
LEMMA AwsAnswer ==
  ASSUME NEW containers, IsContainers(containers), NEW name, NEW port
  PROVE  LET named    == Asked(containers, name)
             endpoint == getEndpointHelper(AwsEndpoints(containers), name, port)
         IN  \/ /\ endpoint = Refused
                /\ \A i \in named : (\A k \in named : i <= k) =>
                     \A j \in DOMAIN containers[i].ports :
                       ~(port = 0 \/ containers[i].ports[j].port = port)
             \/ \E i \in named :
                  /\ \A k \in named : i <= k
                  /\ \E j \in DOMAIN containers[i].ports :
                       /\ port = 0 \/ containers[i].ports[j].port = port
                       /\ endpoint = [host |-> "loadBalancer",
                                      port |-> containers[i].ports[j].port]
<1> DEFINE endpoints == AwsEndpoints(containers)
           named     == Asked(containers, name)
           endpoint  == getEndpointHelper(endpoints, name, port)
<1>1. /\ DOMAIN endpoints = DOMAIN containers
      /\ \A i \in DOMAIN containers :
              /\ DOMAIN endpoints[i].ports = DOMAIN containers[i].ports
              /\ \A j \in DOMAIN containers[i].ports :
                   /\ endpoints[i].ports[j].key = containers[i].ports[j].port
                   /\ endpoints[i].ports[j].host = "loadBalancer"
                   /\ endpoints[i].ports[j].port = containers[i].ports[j].port
      /\ Asked(endpoints, name) = Asked(containers, name)
  BY AwsEndpointsAre
<1>2. named \in SUBSET DOMAIN containers
  BY DEF Named, Asked
<1> HIDE DEF endpoints
<1>3. /\ DOMAIN endpoints \in SUBSET Nat
      /\ \A i \in DOMAIN endpoints : DOMAIN endpoints[i].ports \in SUBSET Nat
  BY <1>1, ContainersAre
<1>4. \/ /\ endpoint = Refused
         /\ \A i \in named : (\A k \in named : i <= k) =>
              \A j \in DOMAIN endpoints[i].ports :
                ~(port = 0 \/ endpoints[i].ports[j].key = port)
      \/ \E i \in named :
           /\ \A k \in named : i <= k
           /\ \E j \in DOMAIN endpoints[i].ports :
                /\ port = 0 \/ endpoints[i].ports[j].key = port
                /\ endpoint = [host |-> endpoints[i].ports[j].host,
                               port |-> endpoints[i].ports[j].port]
  BY ONLY <1>1, <1>3, Answer
<1> HIDE DEF named, endpoint
<1>5. ASSUME NEW i \in named, \A j \in DOMAIN endpoints[i].ports :
                                ~(port = 0 \/ endpoints[i].ports[j].key = port)
      PROVE  \A j \in DOMAIN containers[i].ports :
               ~(port = 0 \/ containers[i].ports[j].port = port)
  BY ONLY <1>1, <1>2, <1>5
<1>6. ASSUME NEW i \in named,
             NEW j \in DOMAIN endpoints[i].ports,
             port = 0 \/ endpoints[i].ports[j].key = port,
             endpoint = [host |-> endpoints[i].ports[j].host,
                         port |-> endpoints[i].ports[j].port]
      PROVE  /\ j \in DOMAIN containers[i].ports
             /\ port = 0 \/ containers[i].ports[j].port = port
             /\ endpoint = [host |-> "loadBalancer", port |-> containers[i].ports[j].port]
  BY ONLY <1>1, <1>2, <1>6
<1> QED BY ONLY <1>4, <1>5, <1>6 DEF named, endpoint, endpoints

\* The address the containers are given is the answer to a question for it.
LEMMA DiscoveryStep ==
  ASSUME NEW containers, IsContainers(containers), NEW cluster,
         ~IsRefused(AwsService(containers, cluster)), NEW d \in Discovered(containers)
  PROVE  getEndpointHelper(AwsEndpoints(containers), d.service, d.port)
           = [host |-> d.host, port |-> d.port]
<1> PICK i \in DOMAIN containers :
         \E j \in DOMAIN containers[i].ports :
           d = [service |-> containers[i].name, host |-> "loadBalancer",
                port |-> containers[i].ports[j].port]
  BY DEF Discovered
<1>1. PICK j \in DOMAIN containers[i].ports :
        d = [service |-> containers[i].name, host |-> "loadBalancer",
             port |-> containers[i].ports[j].port]
  OBVIOUS
<1>2. \A e, f \in Exposed(containers) : e = f
  BY AwsTaken
<1>3. <<i, j>> \in Exposed(containers)
  BY DEF Exposed
<1>4. /\ d.service = containers[i].name /\ containers[i].name # ""
      /\ \A k \in DOMAIN containers : containers[k].name = containers[i].name => k = i
      /\ i \in Nat
  BY <1>1, ContainersAre
<1>5. Asked(containers, d.service) = {i}
  BY <1>4 DEF Named, Asked
<1>6. \A l \in DOMAIN containers[i].ports : l = j
  <2> TAKE l \in DOMAIN containers[i].ports
  <2>1. <<i, l>> \in Exposed(containers)
    BY DEF Exposed
  <2>2. <<i, l>> = <<i, j>>
    BY <1>2, <1>3, <2>1
  <2> QED BY ONLY <2>2
<1> DEFINE endpoint == getEndpointHelper(AwsEndpoints(containers), d.service, d.port)
<1>7. \/ \A l \in DOMAIN containers[i].ports :
             ~(d.port = 0 \/ containers[i].ports[l].port = d.port)
      \/ \E l \in DOMAIN containers[i].ports :
             endpoint = [host |-> "loadBalancer", port |-> containers[i].ports[l].port]
  <2>1. \A k \in {i} : i <= k
    <3>1. i \in Nat
      BY <1>4
    <3>2. i <= i
      BY ONLY <3>1
    <3> QED BY ONLY <3>2
  <2>2. \/ \A k \in {i} : (\A m \in {i} : k <= m) =>
                 \A l \in DOMAIN containers[k].ports :
                   ~(d.port = 0 \/ containers[k].ports[l].port = d.port)
        \/ \E k \in {i} :
              \E l \in DOMAIN containers[k].ports :
                  endpoint = [host |-> "loadBalancer", port |-> containers[k].ports[l].port]
    BY ONLY <1>5, AwsAnswer, IsContainers(containers)
  <2> HIDE DEF endpoint
  <2> QED BY ONLY <2>1, <2>2
<1> HIDE DEF endpoint
<1>8. endpoint = [host |-> d.host, port |-> d.port]
  BY <1>1, <1>6, <1>7
<1> QED BY <1>8 DEF endpoint

(***************************************************************************)
(* Whatever its containers, a service tells each of them the address that  *)
(* getEndpoint answers with for every other (aws/service.ts 206-249,       *)
(* 774-794).                                                               *)
(***************************************************************************)
THEOREM DiscoveryAgreesCorrect == Spec => []DiscoveryAgrees
<1>1. Init => DiscoveryAgrees
  BY DEF Init, None, DiscoveryAgrees, Is
<1>2. DiscoveryAgrees /\ [Next]_vars => DiscoveryAgrees'
  <2> SUFFICES ASSUME DiscoveryAgrees, [Next]_vars PROVE DiscoveryAgrees'
    OBVIOUS
  <2>1. CASE defined' = defined
    BY <2>1 DEF DiscoveryAgrees, Is
  <2>2. ASSUME defined'.kind # "service" PROVE DiscoveryAgrees'
    BY <2>2 DEF DiscoveryAgrees, Is
  <2>3. ASSUME NEW containers \in ContainerLists, NEW cluster \in Clusters,
               NEW replicas \in Replicas, DefineService(containers, cluster, replicas)
        PROVE  DiscoveryAgrees'
    <3>1. defined'.aws = AwsService(containers, cluster) /\ IsContainers(containers)
      BY <2>3, ContainersAssumption DEF DefineService
    <3>2. ASSUME ~IsRefused(defined'.aws), NEW d \in defined'.aws.discovered
          PROVE  getEndpointHelper(defined'.aws.endpoints, d.service, d.port)
                   = [host |-> d.host, port |-> d.port]
      <4>1. /\ defined'.aws.endpoints = AwsEndpoints(containers)
            /\ defined'.aws.discovered = Discovered(containers)
        <5>1. ~IsRefused(AwsService(containers, cluster))
          BY ONLY <3>1, <3>2
        <5>2. LET taken == AwsService(containers, cluster)
              IN  /\ taken.endpoints = AwsEndpoints(containers)
                  /\ taken.defaultEndpoint = AwsDefault(containers)
                  /\ taken.discovered = Discovered(containers)
          BY ONLY <5>1, AwsTaken
        <5> QED BY ONLY <3>1, <3>2, <5>2
      <4> QED BY <3>1, <3>2, <4>1, DiscoveryStep
    <3> QED BY <3>2 DEF DiscoveryAgrees
  <2> QED BY <2>1, <2>2, <2>3, OneDefinition
<1> QED BY <1>1, <1>2, PTL DEF Spec

\* On AWS getEndpoint() answers just when the first container has a port.
LEMMA AwsFirst ==
  ASSUME NEW containers, IsContainers(containers)
  PROVE  IsRefused(getEndpointHelper(AwsEndpoints(containers), "", 0))
           <=> containers = <<>> \/ containers[1].ports = <<>>
<1> DEFINE endpoint == getEndpointHelper(AwsEndpoints(containers), "", 0)
<1>1. \A i \in DOMAIN containers : 1 \in DOMAIN containers /\ 1 <= i /\ i \in Nat
  <2>1. Len(containers) \in Nat /\ DOMAIN containers = 1..Len(containers)
    BY ContainersAre
  <2> QED BY ONLY <2>1
<1>2. containers # <<>> <=> 1 \in DOMAIN containers
  <2>1. containers \in Seq([name : STRING \ {""}, ports : Seq(ContainerPorts(Port, Port, STRING))])
    BY DEF IsContainers
  <2>2. \A S : \A s \in Seq(S) : s # <<>> <=> 1 \in DOMAIN s
    BY ONLY TRUE
  <2> QED BY ONLY <2>1, <2>2
<1>3. \A i \in DOMAIN containers : containers[i].ports # <<>> <=> DOMAIN containers[i].ports # {}
  BY ContainersAre
<1>4. \/ /\ endpoint = Refused
         /\ \A i \in DOMAIN containers : (\A k \in DOMAIN containers : i <= k) =>
              DOMAIN containers[i].ports = {}
      \/ \E i \in DOMAIN containers :
           /\ \A k \in DOMAIN containers : i <= k
           /\ \E j \in DOMAIN containers[i].ports :
                endpoint = [host |-> "loadBalancer", port |-> containers[i].ports[j].port]
  <2>1. \/ /\ endpoint = Refused
           /\ \A i \in Asked(containers, "") : (\A k \in Asked(containers, "") : i <= k) =>
                \A j \in DOMAIN containers[i].ports :
                  ~(0 = 0 \/ containers[i].ports[j].port = 0)
        \/ \E i \in Asked(containers, "") :
             /\ \A k \in Asked(containers, "") : i <= k
             /\ \E j \in DOMAIN containers[i].ports :
                  /\ 0 = 0 \/ containers[i].ports[j].port = 0
                  /\ endpoint = [host |-> "loadBalancer",
                                 port |-> containers[i].ports[j].port]
    BY AwsAnswer
  <2>2. Asked(containers, "") = DOMAIN containers
    BY DEF Asked
  <2> HIDE DEF endpoint
  <2> QED BY ONLY <2>1, <2>2
<1>5. IsRefused(Refused) /\ \A n : ~IsRefused([host |-> "loadBalancer", port |-> n])
  BY DEF IsRefused, Refused
<1> HIDE DEF endpoint
<1>6. \A i \in DOMAIN containers : (\A k \in DOMAIN containers : i <= k) <=> i = 1
  <2> SUFFICES ASSUME NEW i \in DOMAIN containers
               PROVE  (\A k \in DOMAIN containers : i <= k) <=> i = 1
    OBVIOUS
  <2>1. i \in Nat /\ 1 <= i /\ 1 \in DOMAIN containers
    BY <1>1
  <2>2. i <= 1 => i = 1
    BY ONLY <2>1
  <2> QED BY ONLY <1>1, <2>1, <2>2
<1>7. CASE 1 \in DOMAIN containers /\ containers[1].ports # <<>>
  BY ONLY <1>2, <1>3, <1>4, <1>5, <1>6, <1>7 DEF endpoint
<1>8. CASE ~(1 \in DOMAIN containers /\ containers[1].ports # <<>>)
  BY ONLY <1>2, <1>3, <1>4, <1>5, <1>6, <1>8 DEF endpoint
<1> QED BY <1>7, <1>8

-----------------------------------------------------------------------------
\* The containers that have a port, and those that Meant chooses.
Exposing(containers) == {i \in DOMAIN containers : containers[i].ports # <<>>}
Chosen(containers, name) ==
  IF name # "" THEN Named(containers, name) ELSE DOMAIN containers \cap {1}

\* What a question means are the ports that match of the containers chosen.
LEMMA MeantBy ==
  ASSUME NEW containers, NEW name, NEW port
  PROVE  /\ \A i \in Chosen(containers, name) : \A j \in DOMAIN containers[i].ports :
              (port = 0 \/ containers[i].ports[j].port = port) =>
                [container |-> containers[i].name, port |-> Target(containers[i].ports[j])]
                  \in Meant(containers, name, port)
         /\ (\A i \in Chosen(containers, name) :
               \A j \in DOMAIN containers[i].ports :
                 ~(port = 0 \/ containers[i].ports[j].port = port))
              => Meant(containers, name, port) = {}
<1> DEFINE meant(i) == {p \in Range(containers[i].ports) : port = 0 \/ p.port = port}
           at(i) == {[container |-> containers[i].name, port |-> Target(p)] : p \in meant(i)}
           M == Meant(containers, name, port)
           chosen == Chosen(containers, name)
<1>1. M = UNION {at(i) : i \in chosen}
  BY DEF Meant, Chosen
<1> HIDE DEF chosen
<1>2. ASSUME NEW i \in chosen, NEW j \in DOMAIN containers[i].ports,
             port = 0 \/ containers[i].ports[j].port = port
      PROVE  [container |-> containers[i].name, port |-> Target(containers[i].ports[j])] \in at(i)
  <2>1. containers[i].ports[j] \in meant(i)
    BY ONLY <1>2 DEF Range
  <2> HIDE DEF meant
  <2> QED BY ONLY <2>1
<1>3. ASSUME NEW i \in chosen, at(i) # {}
      PROVE  \E j \in DOMAIN containers[i].ports : port = 0 \/ containers[i].ports[j].port = port
  <2>1. PICK p \in meant(i) : TRUE
    BY ONLY <1>3
  <2> QED BY ONLY <2>1 DEF Range
<1> HIDE DEF at, M
<1>4. M # {} => \E i \in chosen : at(i) # {}
  BY ONLY <1>1
<1>5. \A i \in chosen : \A x \in at(i) : x \in M
  BY ONLY <1>1
<1> QED BY ONLY <1>2, <1>3, <1>4, <1>5 DEF M, chosen

\* The one answer for a question lies at the container chosen for it.
LEMMA ChosenOnAws ==
  ASSUME NEW containers, IsContainers(containers), NEW name,
         NEW i \in Asked(containers, name)
  PROVE  (\A k \in Asked(containers, name) : i <= k) <=> i \in Chosen(containers, name)
<1> DEFINE chosen == Chosen(containers, name)
<1>1. /\ \A k, l \in DOMAIN containers : containers[k].name = containers[l].name => k = l
      /\ Len(containers) \in Nat /\ DOMAIN containers = 1..Len(containers)
  BY ContainersAre
<1>2. CASE name # ""
  <2>1. Asked(containers, name) = chosen /\ i \in Named(containers, name)
    BY <1>2 DEF Asked, Chosen
  <2>2. \A k \in Named(containers, name) : k = i
    BY <1>1, <2>1 DEF Named
  <2>3. i \in Nat /\ i <= i
    <3>1. i \in DOMAIN containers
      BY <2>1 DEF Named
    <3>2. i \in Nat
      BY ONLY <1>1, <3>1
    <3> QED BY ONLY <3>2
  <2>4. chosen = Named(containers, name)
    BY <1>2 DEF Chosen
  <2> HIDE DEF chosen
  <2> QED BY ONLY <2>1, <2>2, <2>3, <2>4 DEF chosen
<1>3. CASE name = ""
  <2>1. Asked(containers, name) = DOMAIN containers /\ chosen = DOMAIN containers \cap {1}
    BY <1>3 DEF Asked, Chosen
  <2>2. i \in 1..Len(containers) /\ 1 \in 1..Len(containers)
    <3>1. i \in 1..Len(containers)
      BY <1>1, <2>1
    <3> QED BY ONLY <1>1, <3>1
  <2> HIDE DEF chosen
  <2> QED BY ONLY <1>1, <2>1, <2>2 DEF chosen
<1> QED BY <1>2, <1>3

\* What the listener of the only port exposed forwards, arrives at that port.
LEMMA ListenerReaches ==
  ASSUME NEW containers, NEW cluster, NEW i \in DOMAIN containers,
         NEW j \in DOMAIN containers[i].ports, ~IsRefused(AwsService(containers, cluster))
  PROVE  AwsReached(AwsService(containers, cluster), containers,
                    [host |-> "loadBalancer", port |-> containers[i].ports[j].port])
           = {[container |-> containers[i].name, port |-> Target(containers[i].ports[j])]}
<1> DEFINE service == AwsService(containers, cluster)
           address == [host |-> "loadBalancer", port |-> containers[i].ports[j].port]
           target  == [container |-> containers[i].name, port |-> Target(containers[i].ports[j])]
           o       == <<i, j>>
           E       == Exposed(containers)
           open    == {e \in DOMAIN service.balancers :
                         /\ address.host = "loadBalancer"
                         /\ service.balancers[e].listener = address.port
                         /\ service.balancers[e].targetPort = service.attached[e].port
                         /\ \E k \in Named(containers, service.attached[e].container) :
                              service.attached[e].port \in PortMappings(containers[k])}
<1>1. /\ \A e, f \in E : e = f
      /\ service.balancers = [e \in E |-> createLoadBalancer(PortAt(containers, e), cluster)]
      /\ service.attached = [e \in E |-> [container |-> containers[e[1]].name,
                                          port |-> Target(PortAt(containers, e))]]
  BY AwsTaken
<1>2. o \in E
  BY DEF Exposed
<1>3. PortAt(containers, o) = containers[i].ports[j]
  BY DEF PortAt
<1>4. AwsReached(service, containers, address) = {service.attached[e] : e \in open}
  BY DEF AwsReached
<1> HIDE DEF service, E
<1>5. service.attached[o] = target
  BY ONLY <1>1, <1>2, <1>3
<1>6. /\ service.balancers[o].listener = address.port
      /\ service.balancers[o].targetPort = target.port
  BY <1>1, <1>2, <1>3 DEF createLoadBalancer
<1>7. i \in Named(containers, target.container) /\ target.port \in PortMappings(containers[i])
  BY DEF Named, PortMappings
<1>8. o \in DOMAIN service.balancers /\ \A e \in DOMAIN service.balancers : e = o
  BY ONLY <1>1, <1>2
<1>9. o \in open
  <2>1. address.host = "loadBalancer"
    OBVIOUS
  <2> HIDE DEF o, target, address
  <2> QED BY ONLY <2>1, <1>5, <1>6, <1>7, <1>8
<1>10. \A e \in open : e = o
  <2> HIDE DEF o, target, address
  <2> QED BY ONLY <1>8
<1> HIDE DEF open, o, target
<1>11. {service.attached[e] : e \in open} = {target}
  BY ONLY <1>5, <1>9, <1>10
<1> QED BY <1>4, <1>11 DEF service, target, address

LEMMA AwsEndpointReaches ==
  ASSUME NEW containers, IsContainers(containers), NEW cluster,
         ~IsRefused(AwsService(containers, cluster)), NEW name, NEW port
  PROVE  LET endpoint == getEndpointHelper(AwsEndpoints(containers), name, port)
             meant    == Meant(containers, name, port)
             reached  == AwsReached(AwsService(containers, cluster), containers, endpoint)
         IN  IF IsRefused(endpoint) THEN meant = {}
             ELSE Cardinality(reached) = 1 /\ reached \subseteq meant
<1> DEFINE endpoint == getEndpointHelper(AwsEndpoints(containers), name, port)
           meant    == Meant(containers, name, port)
           reached  == AwsReached(AwsService(containers, cluster), containers, endpoint)
           chosen   == Chosen(containers, name)
           asked    == Asked(containers, name)
<1>1. /\ \A i \in chosen : \A j \in DOMAIN containers[i].ports :
              (port = 0 \/ containers[i].ports[j].port = port) =>
                [container |-> containers[i].name, port |-> Target(containers[i].ports[j])] \in meant
      /\ (\A i \in chosen : \A j \in DOMAIN containers[i].ports :
            ~(port = 0 \/ containers[i].ports[j].port = port)) => meant = {}
  BY MeantBy
<1>2. \A i \in asked : (\A k \in asked : i <= k) <=> i \in chosen
  BY ChosenOnAws
<1>3. chosen \subseteq asked /\ asked \subseteq DOMAIN containers
  BY DEF Asked, Named, Chosen
<1>4. \/ /\ endpoint = Refused
         /\ \A i \in asked : (\A k \in asked : i <= k) =>
              \A j \in DOMAIN containers[i].ports :
                ~(port = 0 \/ containers[i].ports[j].port = port)
      \/ \E i \in asked :
           /\ \A k \in asked : i <= k
           /\ \E j \in DOMAIN containers[i].ports :
                /\ port = 0 \/ containers[i].ports[j].port = port
                /\ endpoint = [host |-> "loadBalancer", port |-> containers[i].ports[j].port]
  BY AwsAnswer
<1> HIDE DEF endpoint, meant, chosen, asked
<1>5. CASE endpoint = Refused /\ \A i \in asked : (\A k \in asked : i <= k) =>
              \A j \in DOMAIN containers[i].ports :
                ~(port = 0 \/ containers[i].ports[j].port = port)
  <2>1. meant = {}
    BY ONLY <1>1, <1>2, <1>3, <1>5
  <2> QED BY <1>5, <2>1 DEF IsRefused, Refused, endpoint, meant
<1>6. ASSUME NEW i \in asked, \A k \in asked : i <= k, NEW j \in DOMAIN containers[i].ports,
             port = 0 \/ containers[i].ports[j].port = port,
             endpoint = [host |-> "loadBalancer", port |-> containers[i].ports[j].port]
      PROVE  ~IsRefused(endpoint) /\ Cardinality(reached) = 1 /\ reached \subseteq meant
  <2> DEFINE target == [container |-> containers[i].name, port |-> Target(containers[i].ports[j])]
  <2>1. reached = {target}
    <3>1. i \in DOMAIN containers
      BY <1>3
    <3> QED BY <1>6, <3>1, ListenerReaches
  <2>2. target \in meant
    BY ONLY <1>1, <1>2, <1>6
  <2>3. Cardinality({target}) = 1
    BY FS_Singleton
  <2>4. ~IsRefused(endpoint)
    BY ONLY <1>6 DEF IsRefused
  <2> HIDE DEF target, reached
  <2> QED BY ONLY <2>1, <2>2, <2>3, <2>4
<1> HIDE DEF reached
<1>7. IF IsRefused(endpoint) THEN meant = {}
      ELSE Cardinality(reached) = 1 /\ reached \subseteq meant
  <2>1. IsRefused(Refused)
    BY DEF IsRefused, Refused
  <2>2. CASE IsRefused(endpoint)
    <3>1. \A i \in asked : (\A k \in asked : i <= k) =>
              \A j \in DOMAIN containers[i].ports :
                ~(port = 0 \/ containers[i].ports[j].port = port)
      BY ONLY <1>4, <1>6, <2>2
    <3> QED BY ONLY <1>1, <1>2, <1>3, <2>2, <3>1
  <2>3. CASE ~IsRefused(endpoint)
    BY ONLY <1>4, <1>6, <2>1, <2>3
  <2> QED BY <2>2, <2>3
<1> QED BY <1>7 DEF endpoint, meant, reached

-----------------------------------------------------------------------------
\* A group that Azure takes: each container has one port at most, its own.
LEMMA AzureTaken ==
  ASSUME NEW containers, IsContainers(containers), NEW replicas,
         ~IsRefused(AzureService(containers, replicas))
  PROVE  LET service == AzureService(containers, replicas)
         IN  /\ service.cloud = "azure" /\ service.endpoints = AzureEndpoints(containers)
             /\ service.group = [i \in DOMAIN containers |->
                                   [container |-> containers[i].name,
                                    ports |-> {AzureTarget(containers[i].ports[j]) :
                                                 j \in DOMAIN containers[i].ports}]]
             /\ \A i \in DOMAIN containers :
                  /\ i \in Exposing(containers) => DOMAIN containers[i].ports = {1}
                  /\ i \notin Exposing(containers) => DOMAIN containers[i].ports = {}
                  /\ \A j \in DOMAIN containers[i].ports :
                       /\ AzureTarget(containers[i].ports[j]) = containers[i].ports[j].port
                       /\ Target(containers[i].ports[j]) = containers[i].ports[j].port
<1>1. AzureService(containers, replicas) = createGroup(containers)
  BY DEF AzureService, IsRefused, Refused
<1>2. ~(\E i \in DOMAIN containers : ~Groupable(containers[i]))
  BY <1>1 DEF createGroup, IsRefused, Refused
<1>3. ASSUME NEW i \in DOMAIN containers
      PROVE  /\ i \in Exposing(containers) => DOMAIN containers[i].ports = {1}
             /\ i \notin Exposing(containers) => DOMAIN containers[i].ports = {}
             /\ \A j \in DOMAIN containers[i].ports :
                  /\ AzureTarget(containers[i].ports[j]) = containers[i].ports[j].port
                  /\ Target(containers[i].ports[j]) = containers[i].ports[j].port
  <2>1. /\ Len(containers[i].ports) <= 1
        /\ \A j \in DOMAIN containers[i].ports :
             AzureTarget(containers[i].ports[j]) = containers[i].ports[j].port
    BY <1>2 DEF Groupable
  <2>2. /\ containers[i].ports # <<>> => 1 \in DOMAIN containers[i].ports
        /\ containers[i].ports = <<>> => DOMAIN containers[i].ports = {}
        /\ Len(containers[i].ports) \in Nat
        /\ DOMAIN containers[i].ports = 1..Len(containers[i].ports)
    BY ContainersAre
  <2>3. 1 \in DOMAIN containers[i].ports => DOMAIN containers[i].ports = {1}
    BY ONLY <2>1, <2>2
  <2>4. \A p : AzureTarget(p) = Target(p)
    BY DEF AzureTarget, Target
  <2> QED BY <2>1, <2>2, <2>3, <2>4 DEF Exposing
<1>4. createGroup(containers) =
        [cloud |-> "azure", endpoints |-> AzureEndpoints(containers),
         defaultEndpoint |-> AzureDefault(containers),
         group |-> [i \in DOMAIN containers |->
                      [container |-> containers[i].name,
                       ports |-> {AzureTarget(containers[i].ports[j]) :
                                    j \in DOMAIN containers[i].ports}]]]
  BY <1>2 DEF createGroup
<1> QED BY <1>1, <1>3, <1>4

\* A question with a name, or one that the first container can answer.
LEMMA ChosenOnAzure ==
  ASSUME NEW containers, IsContainers(containers), NEW name,
         name # "" \/ 1 \in Exposing(containers)
  PROVE  LET asked  == Asked(containers, name) \cap Exposing(containers)
             chosen == Chosen(containers, name)
         IN  /\ \A i \in asked : (\A k \in asked : i <= k) <=> i \in chosen
             /\ chosen \cap Exposing(containers) \subseteq asked
             /\ chosen \subseteq DOMAIN containers
<1> DEFINE asked  == Asked(containers, name) \cap Exposing(containers)
           chosen == Chosen(containers, name)
<1>1. /\ \A k, l \in DOMAIN containers : containers[k].name = containers[l].name => k = l
      /\ DOMAIN containers \in SUBSET Nat
  BY ContainersAre
<1>2. Exposing(containers) \in SUBSET Nat /\ Exposing(containers) \subseteq DOMAIN containers
  BY <1>1 DEF Exposing
<1>3. CASE name # ""
  <2>1. /\ asked = Named(containers, name) \cap Exposing(containers)
        /\ chosen = Named(containers, name)
    BY <1>3 DEF Asked, Chosen
  <2>2. /\ \A k, l \in Named(containers, name) : k = l
        /\ Named(containers, name) \subseteq DOMAIN containers
    BY <1>1 DEF Named
  <2>3. \A i \in asked : i \in Nat
    BY ONLY <1>2, <2>1
  <2>4. \A i \in Nat : i <= i
    BY ONLY TRUE
  <2>5. \A i \in asked : (\A k \in asked : i <= k) /\ i \in chosen
    BY ONLY <2>1, <2>2, <2>3, <2>4
  <2> HIDE DEF asked, chosen
  <2> QED BY ONLY <2>1, <2>2, <2>5 DEF asked, chosen
<1>4. CASE name = ""
  <2>1. asked = Exposing(containers) /\ chosen = {1} /\ 1 \in Exposing(containers)
    BY <1>2, <1>4 DEF Asked, Chosen
  <2>2. \A i \in Exposing(containers) : i \in Nat /\ 1 <= i
    <3>1. Len(containers) \in Nat /\ DOMAIN containers = 1..Len(containers)
      BY ContainersAre
    <3> QED BY ONLY <1>2, <3>1
  <2>3. ASSUME NEW i \in asked, \A k \in asked : i <= k
        PROVE  i = 1
    <3>1. i <= 1 /\ 1 <= i /\ i \in Nat
      BY ONLY <2>1, <2>2, <2>3
    <3> QED BY ONLY <3>1
  <2> HIDE DEF asked, chosen
  <2> QED BY ONLY <1>2, <2>1, <2>2, <2>3 DEF asked, chosen
<1> QED BY <1>3, <1>4

LEMMA AzureAnswer ==
  ASSUME NEW containers, IsContainers(containers), NEW replicas, NEW name, NEW port,
         ~IsRefused(AzureService(containers, replicas))
  PROVE  LET asked    == Asked(containers, name) \cap Exposing(containers)
             endpoint == getEndpointHelper(AzureEndpoints(containers), name, port)
         IN  \/ /\ endpoint = Refused
                /\ \A i \in asked : (\A k \in asked : i <= k) =>
                     ~(port = 0 \/ containers[i].ports[1].port = port)
             \/ \E i \in asked :
                  /\ \A k \in asked : i <= k
                  /\ port = 0 \/ containers[i].ports[1].port = port
                  /\ endpoint = [host |-> "group", port |-> containers[i].ports[1].port]
<1> DEFINE endpoints == AzureEndpoints(containers)
           asked     == Asked(containers, name) \cap Exposing(containers)
           endpoint  == getEndpointHelper(endpoints, name, port)
<1>1. /\ DOMAIN endpoints = Exposing(containers)
      /\ \A i \in Exposing(containers) :
           endpoints[i] = [name  |-> containers[i].name,
                           ports |-> <<[key  |-> AzureTarget(containers[i].ports[1]),
                                        host |-> "group",
                                        port |-> containers[i].ports[1].port]>>]
  BY DEF AzureEndpoints, Exposing
<1>2. Exposing(containers) \subseteq DOMAIN containers /\ DOMAIN containers \in SUBSET Nat
  BY ContainersAre DEF Exposing
<1>3. \A i \in Exposing(containers) :
        AzureTarget(containers[i].ports[1]) = containers[i].ports[1].port
  <2>1. \A i \in DOMAIN containers :
          /\ i \in Exposing(containers) => DOMAIN containers[i].ports = {1}
          /\ i \notin Exposing(containers) => DOMAIN containers[i].ports = {}
          /\ \A j \in DOMAIN containers[i].ports :
               /\ AzureTarget(containers[i].ports[j]) = containers[i].ports[j].port
               /\ Target(containers[i].ports[j]) = containers[i].ports[j].port
    BY AzureTaken
  <2> QED BY ONLY <1>2, <2>1
<1> HIDE DEF endpoints
<1>4. \A i \in Exposing(containers) :
        /\ endpoints[i].name = containers[i].name
        /\ DOMAIN endpoints[i].ports = {1}
        /\ endpoints[i].ports[1].key = containers[i].ports[1].port
        /\ endpoints[i].ports[1].host = "group"
        /\ endpoints[i].ports[1].port = containers[i].ports[1].port
  BY ONLY <1>1, <1>3
<1>5. Asked(endpoints, name) = asked
  BY ONLY <1>1, <1>2, <1>4 DEF Asked, Named
<1>6. /\ DOMAIN endpoints \in SUBSET Nat
      /\ \A i \in DOMAIN endpoints : DOMAIN endpoints[i].ports \in SUBSET Nat
  BY ONLY <1>1, <1>2, <1>4
<1>7. \/ /\ endpoint = Refused
         /\ \A i \in Asked(endpoints, name) : (\A k \in Asked(endpoints, name) : i <= k) =>
              \A j \in DOMAIN endpoints[i].ports :
                ~(port = 0 \/ endpoints[i].ports[j].key = port)
      \/ \E i \in Asked(endpoints, name) :
           /\ \A k \in Asked(endpoints, name) : i <= k
           /\ \E j \in DOMAIN endpoints[i].ports :
                /\ port = 0 \/ endpoints[i].ports[j].key = port
                /\ endpoint = [host |-> endpoints[i].ports[j].host,
                               port |-> endpoints[i].ports[j].port]
  BY ONLY <1>6, Answer
<1>8. asked \subseteq Exposing(containers)
  OBVIOUS
<1> HIDE DEF asked, endpoint
<1> QED BY ONLY <1>4, <1>5, <1>7, <1>8 DEF asked, endpoint, endpoints

\* On Azure getEndpoint() answers when any container has a port.
LEMMA AzureFirst ==
  ASSUME NEW containers, IsContainers(containers), NEW replicas,
         ~IsRefused(AzureService(containers, replicas))
  PROVE  IsRefused(getEndpointHelper(AzureEndpoints(containers), "", 0))
           <=> Exposing(containers) = {}
<1> DEFINE asked    == Asked(containers, "") \cap Exposing(containers)
           endpoint == getEndpointHelper(AzureEndpoints(containers), "", 0)
<1>1. \/ /\ endpoint = Refused
         /\ \A i \in asked : ~(\A k \in asked : i <= k)
      \/ \E i \in asked :
           /\ \A k \in asked : i <= k
           /\ endpoint = [host |-> "group", port |-> containers[i].ports[1].port]
  <2>1. ASSUME NEW name, NEW port
        PROVE  LET set    == Asked(containers, name) \cap Exposing(containers)
                   answer == getEndpointHelper(AzureEndpoints(containers), name, port)
               IN  \/ /\ answer = Refused
                      /\ \A i \in set : (\A k \in set : i <= k) =>
                           ~(port = 0 \/ containers[i].ports[1].port = port)
                   \/ \E i \in set :
                        /\ \A k \in set : i <= k
                        /\ port = 0 \/ containers[i].ports[1].port = port
                        /\ answer = [host |-> "group", port |-> containers[i].ports[1].port]
    BY ONLY AzureAnswer, IsContainers(containers), ~IsRefused(AzureService(containers, replicas))
  <2>2. \A port : \/ /\ getEndpointHelper(AzureEndpoints(containers), "", port) = Refused
                     /\ \A i \in asked : (\A k \in asked : i <= k) =>
                          ~(port = 0 \/ containers[i].ports[1].port = port)
                  \/ \E i \in asked :
                       /\ \A k \in asked : i <= k
                       /\ port = 0 \/ containers[i].ports[1].port = port
                       /\ getEndpointHelper(AzureEndpoints(containers), "", port)
                            = [host |-> "group", port |-> containers[i].ports[1].port]
    BY ONLY <2>1, Zenon
  <2> HIDE DEF asked
  <2> QED BY ONLY <2>2
<1>2. asked = Exposing(containers) /\ Exposing(containers) \in SUBSET Nat
  BY ContainersAre DEF Asked, Exposing
<1>3. Exposing(containers) # {} => \E i \in Exposing(containers) :
                                     \A k \in Exposing(containers) : i <= k
  BY <1>2, LeastIsLeast
<1>4. IsRefused(Refused) /\ \A n : ~IsRefused([host |-> "group", port |-> n])
  BY DEF IsRefused, Refused
<1> HIDE DEF asked, endpoint
<1> QED BY ONLY <1>1, <1>2, <1>3, <1>4 DEF endpoint

\* What arrives at the group's address on a port of no other container.
LEMMA GroupReaches ==
  ASSUME NEW containers, IsContainers(containers), NEW replicas,
         ~IsRefused(AzureService(containers, replicas)),
         NEW i \in Exposing(containers),
         \A k \in Exposing(containers) :
           containers[k].ports[1].port = containers[i].ports[1].port => k = i
  PROVE  AzureReached(AzureService(containers, replicas),
                      [host |-> "group", port |-> containers[i].ports[1].port])
           = {[container |-> containers[i].name, port |-> Target(containers[i].ports[1])]}
<1> DEFINE service == AzureService(containers, replicas)
           address == [host |-> "group", port |-> containers[i].ports[1].port]
           target  == [container |-> containers[i].name, port |-> Target(containers[i].ports[1])]
           at(k)   == [container |-> service.group[k].container, port |-> address.port]
           open    == {k \in DOMAIN service.group :
                         address.host = "group" /\ address.port \in service.group[k].ports}
<1>1. /\ service.group = [k \in DOMAIN containers |->
                            [container |-> containers[k].name,
                             ports |-> {AzureTarget(containers[k].ports[j]) :
                                          j \in DOMAIN containers[k].ports}]]
      /\ \A k \in DOMAIN containers :
           /\ k \in Exposing(containers) => DOMAIN containers[k].ports = {1}
           /\ k \notin Exposing(containers) => DOMAIN containers[k].ports = {}
           /\ \A j \in DOMAIN containers[k].ports :
                /\ AzureTarget(containers[k].ports[j]) = containers[k].ports[j].port
                /\ Target(containers[k].ports[j]) = containers[k].ports[j].port
  BY AzureTaken
<1>2. AzureReached(service, address) = {at(k) : k \in open}
  BY DEF AzureReached
<1> HIDE DEF service
<1>3. i \in DOMAIN containers
  BY DEF Exposing
<1>4. \A k \in DOMAIN containers :
        /\ k \in Exposing(containers) => service.group[k].ports = {containers[k].ports[1].port}
        /\ k \notin Exposing(containers) => service.group[k].ports = {}
        /\ service.group[k].container = containers[k].name
  BY ONLY <1>1
<1>5. DOMAIN service.group = DOMAIN containers
  BY ONLY <1>1
<1>6. i \in open
  BY ONLY <1>3, <1>4, <1>5, i \in Exposing(containers)
<1>7. \A k \in open : k = i
  BY <1>4, <1>5
<1>8. at(i) = target
  BY ONLY <1>1, <1>3, <1>4, i \in Exposing(containers)
<1> HIDE DEF open, at, target
<1>9. {at(k) : k \in open} = {target}
  BY ONLY <1>6, <1>7, <1>8
<1> QED BY <1>2, <1>9 DEF service, target, address

LEMMA AzureEndpointReaches ==
  ASSUME NEW containers, IsContainers(containers), NEW replicas, NEW name, NEW port,
         ~IsRefused(AzureService(containers, replicas)),
         name # "" \/ 1 \in Exposing(containers),
         \A i, k \in Exposing(containers) :
           containers[k].ports[1].port = containers[i].ports[1].port => k = i
  PROVE  LET endpoint == getEndpointHelper(AzureEndpoints(containers), name, port)
             meant    == Meant(containers, name, port)
             reached  == AzureReached(AzureService(containers, replicas), endpoint)
         IN  IF IsRefused(endpoint) THEN meant = {}
             ELSE Cardinality(reached) = 1 /\ reached \subseteq meant
<1> DEFINE endpoint == getEndpointHelper(AzureEndpoints(containers), name, port)
           meant    == Meant(containers, name, port)
           reached  == AzureReached(AzureService(containers, replicas), endpoint)
           chosen   == Chosen(containers, name)
           exposing == Exposing(containers)
           asked    == Asked(containers, name) \cap exposing
<1>1. /\ \A i \in chosen : \A j \in DOMAIN containers[i].ports :
              (port = 0 \/ containers[i].ports[j].port = port) =>
                [container |-> containers[i].name, port |-> Target(containers[i].ports[j])] \in meant
      /\ (\A i \in chosen : \A j \in DOMAIN containers[i].ports :
            ~(port = 0 \/ containers[i].ports[j].port = port)) => meant = {}
  BY MeantBy
<1>2. /\ \A i \in asked : (\A k \in asked : i <= k) <=> i \in chosen
      /\ chosen \cap exposing \subseteq asked
      /\ chosen \subseteq DOMAIN containers
  BY ChosenOnAzure
<1>3. \A i \in DOMAIN containers :
        /\ i \in exposing => DOMAIN containers[i].ports = {1}
        /\ i \notin exposing => DOMAIN containers[i].ports = {}
  BY AzureTaken
<1>4. \/ /\ endpoint = Refused
         /\ \A i \in asked : (\A k \in asked : i <= k) =>
              ~(port = 0 \/ containers[i].ports[1].port = port)
      \/ \E i \in asked :
           /\ \A k \in asked : i <= k
           /\ port = 0 \/ containers[i].ports[1].port = port
           /\ endpoint = [host |-> "group", port |-> containers[i].ports[1].port]
  BY ONLY AzureAnswer, IsContainers(containers), ~IsRefused(AzureService(containers, replicas))
<1>5. asked \subseteq exposing /\ exposing \subseteq DOMAIN containers
  BY DEF Exposing
<1> HIDE DEF endpoint, meant, chosen, asked, exposing
<1>6. ASSUME \A i \in asked : (\A k \in asked : i <= k) =>
               ~(port = 0 \/ containers[i].ports[1].port = port)
      PROVE  meant = {}
  <2>1. ASSUME NEW i \in chosen, NEW j \in DOMAIN containers[i].ports
        PROVE  ~(port = 0 \/ containers[i].ports[j].port = port)
    <3>1. i \in exposing /\ j = 1
      BY ONLY <1>2, <1>3, <2>1
    <3>2. i \in asked /\ \A k \in asked : i <= k
      BY ONLY <1>2, <2>1, <3>1
    <3> QED BY ONLY <1>6, <3>1, <3>2
  <2> QED BY ONLY <1>1, <2>1
<1>7. ASSUME NEW i \in asked, \A k \in asked : i <= k,
             port = 0 \/ containers[i].ports[1].port = port,
             endpoint = [host |-> "group", port |-> containers[i].ports[1].port]
      PROVE  ~IsRefused(endpoint) /\ Cardinality(reached) = 1 /\ reached \subseteq meant
  <2> DEFINE target == [container |-> containers[i].name, port |-> Target(containers[i].ports[1])]
  <2>1. reached = {target}
    BY <1>5, <1>7, GroupReaches DEF exposing
  <2>2. target \in meant
    <3>1. i \in chosen /\ 1 \in DOMAIN containers[i].ports
      BY ONLY <1>2, <1>3, <1>5, <1>7
    <3> QED BY ONLY <1>1, <1>7, <3>1
  <2>3. Cardinality({target}) = 1
    BY FS_Singleton
  <2>4. ~IsRefused(endpoint)
    BY ONLY <1>7 DEF IsRefused
  <2> HIDE DEF target, reached
  <2> QED BY ONLY <2>1, <2>2, <2>3, <2>4
<1> HIDE DEF reached
<1>8. IF IsRefused(endpoint) THEN meant = {}
      ELSE Cardinality(reached) = 1 /\ reached \subseteq meant
  <2>1. IsRefused(Refused)
    BY DEF IsRefused, Refused
  <2>2. CASE IsRefused(endpoint)
    BY ONLY <1>4, <1>6, <1>7, <2>2
  <2>3. CASE ~IsRefused(endpoint)
    BY ONLY <1>4, <1>7, <2>1, <2>3
  <2> QED BY <2>2, <2>3
<1> QED BY <1>8 DEF endpoint, meant, reached

\* What a defined service is made of.
ServiceDefined ==
  Is("service") =>
    \E containers \in ContainerLists, cluster \in Clusters, replicas \in Replicas :
      /\ defined.containers = containers
      /\ defined.aws = AwsService(containers, cluster)
      /\ defined.azure = AzureService(containers, replicas)

LEMMA ServiceDefinedAlways == Spec => []ServiceDefined
<1>1. Init => ServiceDefined
  BY DEF Init, None, ServiceDefined, Is
<1>2. ServiceDefined /\ [Next]_vars => ServiceDefined'
  <2> SUFFICES ASSUME ServiceDefined, [Next]_vars PROVE ServiceDefined'
    OBVIOUS
  <2>1. CASE defined' = defined
    BY <2>1 DEF ServiceDefined, Is
  <2>2. ASSUME defined'.kind # "service" PROVE ServiceDefined'
    BY <2>2 DEF ServiceDefined, Is
  <2>3. ASSUME NEW containers \in ContainerLists, NEW cluster \in Clusters,
               NEW replicas \in Replicas, DefineService(containers, cluster, replicas)
        PROVE  ServiceDefined'
    BY <2>3 DEF ServiceDefined, DefineService
  <2> QED BY <2>1, <2>2, <2>3, OneDefinition
<1> QED BY <1>1, <1>2, PTL DEF Spec

LEMMA FirstIsExposing ==
  ASSUME IsContainers(defined.containers)
  PROVE  /\ FirstExposes <=> 1 \in Exposing(defined.containers)
         /\ Exposes <=> Exposing(defined.containers) # {}
<1>1. defined.containers # <<>> <=> 1 \in DOMAIN defined.containers
  <2>1. defined.containers \in Seq([name : STRING \ {""},
                                    ports : Seq(ContainerPorts(Port, Port, STRING))])
    BY DEF IsContainers
  <2>2. \A S : \A s \in Seq(S) : s # <<>> <=> 1 \in DOMAIN s
    BY ONLY TRUE
  <2> QED BY ONLY <2>1, <2>2
<1> QED BY <1>1 DEF FirstExposes, Exposes, Exposing

LEMMA ServiceReaches ==
  ASSUME ServiceDefined
  PROVE  EndpointReaches
<1> SUFFICES ASSUME Is("service")
             PROVE  EndpointReaches
  BY DEF EndpointReaches
<1> PICK containers \in ContainerLists, cluster \in Clusters, replicas \in Replicas :
      /\ defined.containers = containers
      /\ defined.aws = AwsService(containers, cluster)
      /\ defined.azure = AzureService(containers, replicas)
  BY DEF ServiceDefined
<1> DEFINE aws   == AwsService(containers, cluster)
           azure == AzureService(containers, replicas)
<1>1. /\ defined.aws = aws /\ defined.azure = azure /\ defined.containers = containers
      /\ IsContainers(containers)
  BY ContainersAssumption
<1>2. ASSUME ~IsRefused(aws), NEW name, NEW port
      PROVE  LET endpoint == getEndpointHelper(aws.endpoints, name, port)
                 meant    == Meant(containers, name, port)
                 reached  == AwsReached(aws, containers, endpoint)
             IN  IF IsRefused(endpoint) THEN meant = {}
                 ELSE Cardinality(reached) = 1 /\ reached \subseteq meant
  <2>1. aws.endpoints = AwsEndpoints(containers) /\ aws.cloud = "aws"
    BY <1>2, AwsTaken
  <2> QED BY <1>1, <1>2, <2>1, AwsEndpointReaches
<1>3. ASSUME ~IsRefused(azure), ~PortsClash, NEW name, NEW port,
             name # "" \/ FirstExposes
      PROVE  LET endpoint == getEndpointHelper(azure.endpoints, name, port)
                 meant    == Meant(containers, name, port)
                 reached  == AzureReached(azure, endpoint)
             IN  IF IsRefused(endpoint) THEN meant = {}
                 ELSE Cardinality(reached) = 1 /\ reached \subseteq meant
  <2>1. /\ azure.endpoints = AzureEndpoints(containers) /\ azure.cloud = "azure"
        /\ \A i \in DOMAIN containers :
             i \in Exposing(containers) => DOMAIN containers[i].ports = {1}
    BY <1>1, <1>3, AzureTaken
  <2>2. ASSUME NEW i \in Exposing(containers), NEW k \in Exposing(containers),
               containers[k].ports[1].port = containers[i].ports[1].port
        PROVE  k = i
    <3>1. i \in DOMAIN containers /\ k \in DOMAIN containers
      BY DEF Exposing
    <3>2. /\ containers[i].ports[1] \in Range(containers[i].ports)
          /\ containers[k].ports[1] \in Range(containers[k].ports)
      BY <2>1, <3>1 DEF Range
    <3> QED BY <1>1, <1>3, <2>2, <3>1, <3>2 DEF PortsClash
  <2>3. name # "" \/ 1 \in Exposing(containers)
    BY <1>1, <1>3, FirstIsExposing
  <2>4. LET endpoint == getEndpointHelper(AzureEndpoints(containers), name, port)
            meant    == Meant(containers, name, port)
            reached  == AzureReached(AzureService(containers, replicas), endpoint)
        IN  IF IsRefused(endpoint) THEN meant = {}
            ELSE Cardinality(reached) = 1 /\ reached \subseteq meant
    <3>1. IsContainers(containers) /\ ~IsRefused(AzureService(containers, replicas))
      BY <1>1, <1>3
    <3>2. \A i, k \in Exposing(containers) :
            containers[k].ports[1].port = containers[i].ports[1].port => k = i
      BY ONLY <2>2
    <3> QED BY ONLY <2>3, <3>1, <3>2, AzureEndpointReaches
  <2> QED BY ONLY <2>1, <2>4
<1>4. \A name \in IF FirstExposes THEN Queried ELSE Queried \ {""} : name # "" \/ FirstExposes
  OBVIOUS
<1> HIDE DEF aws, azure
<1> QED BY <1>1, <1>2, <1>3, <1>4 DEF EndpointReaches, Reaches

(***************************************************************************)
(* For all containers: a connection to an endpoint that getEndpoint hands  *)
(* out ends at one port of one container, a port the question meant, and a *)
(* question that means a port has an answer, on AWS and, unless two        *)
(* containers have one port, on Azure, where a question without a name     *)
(* needs a first container that has a port (api/service.ts 279-312).       *)
(***************************************************************************)
THEOREM EndpointReachesCorrect == Spec => []EndpointReaches
<1>1. ServiceDefined => EndpointReaches
  BY ServiceReaches
<1> QED BY <1>1, ServiceDefinedAlways, PTL

LEMMA DefaultsAgree ==
  ASSUME ServiceDefined
  PROVE  DefaultAgrees
<1> SUFFICES ASSUME Is("service")
             PROVE  DefaultAgrees
  BY DEF DefaultAgrees
<1> PICK containers \in ContainerLists, cluster \in Clusters, replicas \in Replicas :
      /\ defined.containers = containers
      /\ defined.aws = AwsService(containers, cluster)
      /\ defined.azure = AzureService(containers, replicas)
  BY DEF ServiceDefined
<1> DEFINE aws   == AwsService(containers, cluster)
           azure == AzureService(containers, replicas)
           Agrees(service, first) ==
             IF FirstExposes
             THEN ~IsRefused(first) /\ service.defaultEndpoint = first
             ELSE /\ service.defaultEndpoint = Absent
                  /\ IsRefused(first) <=> service.cloud = "aws" \/ ~Exposes
<1>1. /\ IsContainers(containers)
      /\ FirstExposes <=> 1 \in Exposing(containers)
      /\ Exposes <=> Exposing(containers) # {}
      /\ FirstExposes <=> containers # <<>> /\ containers[1].ports # <<>>
  BY ContainersAssumption, FirstIsExposing DEF FirstExposes
<1>2. ASSUME ~IsRefused(aws)
      PROVE  Agrees(aws, getEndpointHelper(aws.endpoints, "", 0))
  <2>1. /\ aws.endpoints = AwsEndpoints(containers) /\ aws.cloud = "aws"
        /\ aws.defaultEndpoint = AwsDefault(containers)
    BY <1>2, AwsTaken
  <2>2. IsRefused(getEndpointHelper(AwsEndpoints(containers), "", 0)) <=> ~FirstExposes
    BY <1>1, AwsFirst
  <2> HIDE DEF aws
  <2> QED BY ONLY <1>1, <2>1, <2>2 DEF AwsDefault
<1>3. ASSUME ~IsRefused(azure)
      PROVE  Agrees(azure, getEndpointHelper(azure.endpoints, "", 0))
  <2>1. /\ azure.endpoints = AzureEndpoints(containers) /\ azure.cloud = "azure"
        /\ azure.defaultEndpoint = AzureDefault(containers)
    BY <1>3 DEF AzureService, createGroup, IsRefused, Refused
  <2>2. IsRefused(getEndpointHelper(AzureEndpoints(containers), "", 0)) <=> ~Exposes
    BY <1>1, <1>3, AzureFirst
  <2>3. FirstExposes => Exposes
    BY <1>1
  <2> HIDE DEF azure
  <2> QED BY ONLY <1>1, <2>1, <2>2, <2>3 DEF AzureDefault
<1> HIDE DEF aws, azure
<1> QED BY <1>2, <1>3 DEF DefaultAgrees, aws, azure

(***************************************************************************)
(* For all containers: where the first has a port the default endpoint is  *)
(* the answer of getEndpoint(); where it has none there is no default      *)
(* endpoint, and getEndpoint() throws on AWS and answers for the first     *)
(* container that has a port on Azure (aws/service.ts 756-764,             *)
(* azure/service.ts 231-263).                                              *)
(***************************************************************************)
THEOREM DefaultAgreesCorrect == Spec => []DefaultAgrees
<1>1. ServiceDefined => DefaultAgrees
  BY DefaultsAgree
<1> QED BY <1>1, ServiceDefinedAlways, PTL

-----------------------------------------------------------------------------
(* An API: what publish registers and serves follows from what was         *)
(* declared when the one call that succeeded was made, whatever the calls  *)
(* that threw before it left registered.                                   *)

\* The arrays of the API hold what declarations leave behind, each its kind.
DeclaredOK ==
  /\ declared \in [Kinds -> Seq(Declarations)]
  /\ \A k \in Kinds : \A i \in DOMAIN declared[k] :
       declared[k][i].kind = k /\ Clean(declared[k][i])

\* What call c of publish registers of its own, and all it registers for what it
\* serves.
OwnOf(c, type) == [call |-> c, for |-> <<type, 0>>, resource |-> <<type, <<>>>>]

RegisteredFor(c, served) ==
  {OwnOf(c, "deployment"), OwnOf(c, "api")}
    \cup {[call |-> c, for |-> <<"proxy", i>>, resource |-> ResourceOf(served["proxy"][i])] :
            i \in Linked(served["proxy"])}
    \cup {[call |-> c, for |-> <<"route", i>>, resource |-> ResourceOf(served["route"][i])] :
            i \in DOMAIN served["route"]}
    \cup {[call |-> c, for |-> <<"domain", i>>, resource |-> ResourceOf(served["domain"][i])] :
            i \in DOMAIN served["domain"]}

Converted(k, d) == IF k = "proxy" THEN convertProxyRoute(d) ELSE d

\* The deployment serves the first of what is declared; the call that made it
\* registered just what that takes, and no other call made an API.
IsServed ==
  deployment # Absent =>
    /\ \A k \in Kinds :
         /\ deployment[k] \in Seq(Declarations) /\ Len(deployment[k]) <= Len(declared[k])
         /\ \A i \in DOMAIN deployment[k] : deployment[k][i] = Converted(k, declared[k][i])
    /\ \E c \in Nat :
         /\ RegisteredFor(c, deployment) \subseteq registered
         /\ \A x \in registered : x.call = c => x \in RegisteredFor(c, deployment)
         /\ \A x \in registered : x.resource[1] = "api" => x.call = c
    /\ outcome # "none"
    /\ outcome = "live" =>
         /\ ~Duplicated
         /\ \A i \in DOMAIN deployment["proxy"] : ~LinkFails(deployment["proxy"][i].target)
    /\ outcome = "failed" =>
         \/ Duplicated
         \/ \E i \in DOMAIN deployment["proxy"] : LinkFails(deployment["proxy"][i].target)

NotServed ==
  deployment = Absent =>
    outcome = "none" /\ \A x \in registered : x.resource[1] # "api"

\* Every call that registered anything registered the component, under the one
\* name it has.
LeftBehind ==
  \A x \in registered : /\ x.call \in Nat /\ x.call < calls
                        /\ OwnOf(x.call, "deployment") \in registered

ApiInv ==
  /\ DeclaredOK /\ IsServed /\ NotServed /\ LeftBehind
  /\ outcome \in {"none", "pending", "live", "failed"} /\ calls \in 0..MaxCalls

LEMMA KeptIsClean ==
  ASSUME NEW d \in Declarations
  PROVE  Kept(d) \in Declarations /\ Kept(d).kind = d.kind /\ Clean(Kept(d)) /\ d.kind \in Kinds
<1>1. \A path \in RawPaths : /\ cleanPath(path) \in RawPaths /\ cleanPath(path).leading = TRUE
                             /\ cleanPath(path).trailing = FALSE
  BY DEF RawPaths, cleanPath
<1> USE DEF Kept, Clean, Kinds
<1> DEFINE R == RawPaths
           T == Targets
<1>2. CASE d \in [kind : {"static"}, path : R]
  <2> HIDE DEF R
  <2>1. Kept(d) \in [kind : {"static"}, path : R]
    BY <1>1, <1>2 DEF R
  <2>2. Kept(d).kind = "static" /\ d.kind = "static" /\ Kept(d).path = cleanPath(d.path)
    BY <1>2
  <2> QED BY <1>1, <1>2, <2>1, <2>2 DEF R, Declarations
<1>3. CASE d \in [kind : {"proxy"}, path : R, target : T]
  <2> HIDE DEF R, T
  <2>1. Kept(d) \in [kind : {"proxy"}, path : R, target : T]
    BY <1>1, <1>3 DEF R
  <2>2. Kept(d).kind = "proxy" /\ d.kind = "proxy" /\ Kept(d).path = cleanPath(d.path)
    BY <1>3
  <2> QED BY <1>1, <1>3, <2>1, <2>2 DEF R, T, Declarations
<1>4. CASE d \in [kind : {"route"}, path : R, method : Methods]
  <2> HIDE DEF R
  <2>1. Kept(d) \in [kind : {"route"}, path : R, method : Methods]
    BY <1>1, <1>4 DEF R
  <2>2. Kept(d).kind = "route" /\ d.kind = "route" /\ Kept(d).path = cleanPath(d.path)
    BY <1>4
  <2> QED BY <1>1, <1>4, <2>1, <2>2 DEF R, Declarations
<1>5. CASE d \in [kind : {"domain"}, domain : DomainNames]
  BY <1>5
<1> QED BY <1>2, <1>3, <1>4, <1>5 DEF Declarations

\* A declaration is added behind those there are.
LEMMA DeclareStep ==
  ASSUME DeclaredOK, NEW d \in Declarations, Declare(d)
  PROVE  /\ DeclaredOK'
         /\ \A k \in Kinds :
              /\ Len(declared[k]) <= Len(declared'[k])
              /\ \A i \in DOMAIN declared[k] :
                   i \in DOMAIN declared'[k] /\ declared'[k][i] = declared[k][i]
<1> DEFINE D == Declarations
           e == Kept(d)
<1>1. e \in D /\ e.kind = d.kind /\ Clean(e) /\ d.kind \in Kinds
  BY KeptIsClean
<1>2. /\ declared \in [Kinds -> Seq(D)]
      /\ \A k \in Kinds : \A i \in DOMAIN declared[k] :
           declared[k][i].kind = k /\ Clean(declared[k][i])
  BY DEF DeclaredOK
<1>3. declared' = [declared EXCEPT ![d.kind] = Append(declared[d.kind], e)]
  BY DEF Declare
<1> HIDE DEF D, e
<1>4. \A s \in Seq(D) :
        /\ Append(s, e) \in Seq(D) /\ Len(s) \in Nat
        /\ Len(Append(s, e)) = Len(s) + 1
        /\ \A i \in DOMAIN s : i \in DOMAIN Append(s, e) /\ Append(s, e)[i] = s[i]
        /\ \A i \in DOMAIN Append(s, e) : i \in DOMAIN s \/ Append(s, e)[i] = e
  BY <1>1
<1>5. declared' \in [Kinds -> Seq(D)]
  BY ONLY <1>1, <1>2, <1>3, <1>4
<1>6. \A k \in Kinds : declared'[k] = IF k = d.kind THEN Append(declared[k], e) ELSE declared[k]
  BY ONLY <1>2, <1>3
<1>7. \A k \in Kinds : \A i \in DOMAIN declared'[k] :
        declared'[k][i].kind = k /\ Clean(declared'[k][i])
  <2> TAKE k \in Kinds
  <2>1. declared[k] \in Seq(D)
    BY ONLY <1>2
  <2>2. CASE k = d.kind
    <3>1. declared'[k] = Append(declared[k], e)
      BY ONLY <1>6, <2>2
    <3>2. ASSUME NEW i \in DOMAIN Append(declared[k], e)
          PROVE  /\ Append(declared[k], e)[i].kind = k
                 /\ Clean(Append(declared[k], e)[i])
      <4>1. CASE Append(declared[k], e)[i] = e
        BY ONLY <1>1, <2>2, <4>1
      <4>2. CASE i \in DOMAIN declared[k]
        BY ONLY <1>2, <1>4, <2>1, <4>2
      <4> QED BY ONLY <1>4, <2>1, <4>1, <4>2
    <3> QED BY ONLY <3>1, <3>2
  <2>3. CASE k # d.kind
    BY ONLY <1>2, <1>6, <2>3
  <2> QED BY ONLY <2>2, <2>3
<1>8. ASSUME NEW k \in Kinds
      PROVE  /\ Len(declared[k]) <= Len(declared'[k])
             /\ \A i \in DOMAIN declared[k] :
                  i \in DOMAIN declared'[k] /\ declared'[k][i] = declared[k][i]
  <2>1. declared[k] \in Seq(D) /\ Len(declared[k]) \in Nat
    BY ONLY <1>2, <1>4
  <2>2. Len(declared[k]) <= Len(declared[k]) /\ Len(declared[k]) <= Len(declared[k]) + 1
    BY ONLY <2>1
  <2>3. CASE k = d.kind
    <3>1. declared'[k] = Append(declared[k], e)
      BY ONLY <1>6, <2>3
    <3> QED BY ONLY <1>4, <2>1, <2>2, <3>1
  <2>4. CASE k # d.kind
    BY ONLY <1>6, <2>2, <2>4
  <2> QED BY ONLY <2>3, <2>4
<1> QED BY ONLY <1>5, <1>7, <1>8 DEF DeclaredOK, D, Clean

\* Converting a proxy changes its target only, and only that of a URL.
LEMMA ConvertedIs ==
  ASSUME NEW d \in Declarations, d.kind = "proxy"
  PROVE  /\ convertProxyRoute(d) \in Declarations /\ convertProxyRoute(d).kind = "proxy"
         /\ convertProxyRoute(d).path = d.path
         /\ convertProxyRoute(d).target = convertProxyRouteTarget(d.target)
         /\ d.target \in Targets
         /\ convertProxyRoute(d).target.is = d.target.is
         /\ ResourceOf(convertProxyRoute(d)) = ResourceOf(d)
<1> DEFINE R == RawPaths
           T == Targets
<1>1. d \in [kind : {"proxy"}, path : R, target : T]
  <2> HIDE DEF R, T
  <2> QED BY DEF Declarations, R, T
<1>2. ASSUME NEW t \in Targets
      PROVE  convertProxyRouteTarget(t) \in Targets /\ convertProxyRouteTarget(t).is = t.is
  <2>1. CASE t \in [is : {"url"}, trailing : BOOLEAN]
    <3>1. convertProxyRouteTarget(t) = [t EXCEPT !.trailing = TRUE]
      BY <2>1 DEF convertProxyRouteTarget
    <3>2. [t EXCEPT !.trailing = TRUE] \in [is : {"url"}, trailing : BOOLEAN]
      BY <2>1
    <3> QED BY <2>1, <3>1, <3>2 DEF Targets
  <2>2. CASE t \notin [is : {"url"}, trailing : BOOLEAN]
    BY <2>2 DEF Targets, convertProxyRouteTarget
  <2> QED BY <2>1, <2>2
<1>3. convertProxyRouteTarget(d.target) \in T /\ convertProxyRouteTarget(d.target).is = d.target.is
  BY <1>1, <1>2
<1> HIDE DEF R, T
<1>4. convertProxyRoute(d) = [d EXCEPT !.target = convertProxyRouteTarget(d.target)]
  BY DEF convertProxyRoute
<1>5. /\ convertProxyRoute(d) \in [kind : {"proxy"}, path : R, target : T]
      /\ convertProxyRoute(d).path = d.path /\ convertProxyRoute(d).kind = "proxy"
      /\ convertProxyRoute(d).target = convertProxyRouteTarget(d.target)
  BY ONLY <1>1, <1>3, <1>4
<1>6. convertProxyRoute(d) \in Declarations
  BY ONLY <1>5 DEF Declarations, R, T
<1>7. ResourceOf(convertProxyRoute(d)) = ResourceOf(d)
  BY ONLY <1>5, d.kind = "proxy" DEF ResourceOf
<1>8. d.target \in Targets
  BY ONLY <1>1 DEF T
<1> QED BY ONLY <1>3, <1>5, <1>6, <1>7, <1>8

\* A function on the places of a sequence is a sequence as long.
LEMMA MappedSeq ==
  ASSUME NEW S, NEW s \in Seq(S), NEW T, NEW f, f = [i \in DOMAIN s |-> f[i]],
         \A i \in DOMAIN s : f[i] \in T
  PROVE  f \in Seq(T) /\ Len(f) = Len(s)
<1>1. Len(s) \in Nat /\ DOMAIN s = 1..Len(s)
  OBVIOUS
<1>2. f \in [1..Len(s) -> T]
  BY <1>1
<1> QED BY <1>1, <1>2

LEMMA ServedIs ==
  ASSUME DeclaredOK
  PROVE  \A k \in Kinds :
           /\ Served[k] \in Seq(Declarations) /\ Len(Served[k]) = Len(declared[k])
           /\ Served[k] = [i \in DOMAIN declared[k] |-> Converted(k, declared[k][i])]
<1> SUFFICES ASSUME NEW k \in Kinds
             PROVE  /\ Served[k] \in Seq(Declarations) /\ Len(Served[k]) = Len(declared[k])
                    /\ Served[k] = [i \in DOMAIN declared[k] |-> Converted(k, declared[k][i])]
  OBVIOUS
<1>1. Served[k] = [i \in DOMAIN declared[k] |-> Converted(k, declared[k][i])]
  BY DEF Served, Converted
<1>2. declared[k] \in Seq(Declarations) /\ \A i \in DOMAIN declared[k] : declared[k][i].kind = k
  BY DEF DeclaredOK
<1>3. ASSUME NEW i \in DOMAIN declared[k] PROVE Converted(k, declared[k][i]) \in Declarations
  <2>1. declared[k][i] \in Declarations
    BY <1>2
  <2> QED BY <1>2, <2>1, ConvertedIs DEF Converted
<1> DEFINE f == Served[k]
<1> HIDE DEF f
<1>4. f = [i \in DOMAIN declared[k] |-> f[i]] /\ \A i \in DOMAIN declared[k] : f[i] \in Declarations
  BY <1>1, <1>3 DEF f
<1>5. f \in Seq(Declarations) /\ Len(f) = Len(declared[k])
  BY ONLY <1>2, <1>4, MappedSeq
<1> QED BY <1>1, <1>5 DEF f

\* A call of publish that does not throw registers just that.
LEMMA AllRegistered ==
  ASSUME DeclaredOK
  PROVE  BeforeApi \cup {Own("api")} \cup registerCustomDomains = RegisteredFor(calls, Served)
<1> DEFINE P == {Registration("proxy", i) : i \in Linked(declared["proxy"])}
           Q == {Registration("route", i) : i \in DOMAIN declared["route"]}
           D == {Registration("domain", i) : i \in DOMAIN declared["domain"]}
<1>1. ASSUME NEW k \in Kinds
      PROVE  /\ DOMAIN Served[k] = DOMAIN declared[k]
             /\ \A i \in DOMAIN declared[k] :
                  ResourceOf(Served[k][i]) = ResourceOf(declared[k][i])
             /\ k = "proxy" => \A i \in DOMAIN declared[k] :
                                 Served[k][i].target.is = declared[k][i].target.is
  <2>1. Served[k] = [i \in DOMAIN declared[k] |-> Converted(k, declared[k][i])]
    BY ServedIs
  <2>2. \A i \in DOMAIN declared[k] : declared[k][i] \in Declarations /\ declared[k][i].kind = k
    BY DEF DeclaredOK
  <2>3. ASSUME NEW i \in DOMAIN declared[k]
        PROVE  /\ ResourceOf(Converted(k, declared[k][i])) = ResourceOf(declared[k][i])
               /\ k = "proxy" => Converted(k, declared[k][i]).target.is = declared[k][i].target.is
    <3>1. CASE k = "proxy"
      BY <2>2, <3>1, ConvertedIs DEF Converted
    <3>2. CASE k # "proxy"
      BY <3>2 DEF Converted
    <3> QED BY <3>1, <3>2
  <2> QED BY ONLY <2>1, <2>3
<1>2. "proxy" \in Kinds /\ "route" \in Kinds /\ "domain" \in Kinds
  BY DEF Kinds
<1>3. P = {[call |-> calls, for |-> <<"proxy", i>>, resource |-> ResourceOf(Served["proxy"][i])] :
             i \in Linked(Served["proxy"])}
  <2>1. Linked(Served["proxy"]) = Linked(declared["proxy"])
    BY <1>1, <1>2 DEF Linked
  <2>2. \A i \in Linked(declared["proxy"]) :
          Registration("proxy", i) = [call |-> calls, for |-> <<"proxy", i>>,
                                      resource |-> ResourceOf(Served["proxy"][i])]
    BY <1>1, <1>2 DEF Linked, Registration
  <2> QED BY ONLY <2>1, <2>2
<1>4. Q = {[call |-> calls, for |-> <<"route", i>>, resource |-> ResourceOf(Served["route"][i])] :
             i \in DOMAIN Served["route"]}
  <2>1. \A i \in DOMAIN declared["route"] :
          Registration("route", i) = [call |-> calls, for |-> <<"route", i>>,
                                      resource |-> ResourceOf(Served["route"][i])]
    BY <1>1, <1>2 DEF Registration
  <2>2. DOMAIN Served["route"] = DOMAIN declared["route"]
    BY <1>1, <1>2
  <2> QED BY ONLY <2>1, <2>2
<1>5. D = {[call |-> calls, for |-> <<"domain", i>>, resource |-> ResourceOf(Served["domain"][i])] :
             i \in DOMAIN Served["domain"]}
  <2>1. \A i \in DOMAIN declared["domain"] :
          Registration("domain", i) = [call |-> calls, for |-> <<"domain", i>>,
                                       resource |-> ResourceOf(Served["domain"][i])]
    BY <1>1, <1>2 DEF Registration
  <2>2. DOMAIN Served["domain"] = DOMAIN declared["domain"]
    BY <1>1, <1>2
  <2> QED BY ONLY <2>1, <2>2
<1>6. OwnOf(calls, "deployment") = Own("deployment") /\ OwnOf(calls, "api") = Own("api")
  BY DEF Own, OwnOf
<1>7. BeforeApi = {Own("deployment")} \cup P \cup Q /\ registerCustomDomains = D
  BY DEF BeforeApi, registerCustomDomains
<1> HIDE DEF P, Q, D
<1>8. RegisteredFor(calls, Served) = {Own("deployment"), Own("api")} \cup P \cup Q \cup D
  BY ONLY <1>3, <1>4, <1>5, <1>6 DEF RegisteredFor
<1> QED BY ONLY <1>7, <1>8

\* What a call of publish has registered when it throws.
LEMMA BeforeApiIs ==
  ASSUME DeclaredOK
  PROVE  /\ OwnOf(calls, "deployment") \in BeforeApi
         /\ \A x \in BeforeApi : x.call = calls /\ x.resource[1] # "api"
<1>1. OwnOf(calls, "deployment") = Own("deployment") /\ Own("deployment") \in BeforeApi
  BY DEF OwnOf, Own, BeforeApi
<1>2. Own("deployment").call = calls /\ Own("deployment").resource[1] # "api"
  BY DEF Own
<1>3. ASSUME NEW k \in {"proxy", "route"}, NEW i \in DOMAIN declared[k]
      PROVE  Registration(k, i).call = calls /\ Registration(k, i).resource[1] # "api"
  <2>1. declared[k][i].kind = k
    BY DEF DeclaredOK, Kinds
  <2>2. ResourceOf(declared[k][i])[1] # "api"
    BY <2>1 DEF ResourceOf
  <2> QED BY <2>2 DEF Registration
<1>4. Linked(declared["proxy"]) \subseteq DOMAIN declared["proxy"]
  BY DEF Linked
<1> QED BY <1>1, <1>2, <1>3, <1>4 DEF BeforeApi

LEMMA PublishStep ==
  ASSUME ApiInv, NEW missing \in BOOLEAN, publish(missing)
  PROVE  ApiInv'
<1>1. DeclaredOK' /\ declared' = declared /\ DeclaredOK
  BY DEF ApiInv, publish, DeclaredOK
<1>2. calls' \in 0..MaxCalls /\ calls \in Nat /\ calls' = calls + 1
  BY MaxCallsAssumption DEF ApiInv, publish
<1>3. /\ OwnOf(calls, "deployment") \in BeforeApi
      /\ \A x \in BeforeApi : x.call = calls /\ x.resource[1] # "api"
  BY <1>1, BeforeApiIs
<1>4. \A x \in registered : /\ x.call \in Nat /\ x.call < calls
                            /\ OwnOf(x.call, "deployment") \in registered
  BY DEF ApiInv, LeftBehind
<1>5. CASE deployment # Absent
  <2>1. UNCHANGED <<deployment, registered, outcome>>
    BY <1>5 DEF publish
  <2>2. LeftBehind'
    BY ONLY <1>2, <1>4, <2>1 DEF LeftBehind
  <2> QED BY <1>1, <1>2, <1>5, <2>1, <2>2 DEF ApiInv, IsServed, NotServed, Duplicated
<1>6. CASE deployment = Absent /\ missing
  <2>1. UNCHANGED <<deployment, outcome>> /\ registered' = registered \cup BeforeApi
    BY <1>6 DEF publish, HttpDeployment
  <2>2. LeftBehind'
    BY ONLY <1>2, <1>3, <1>4, <2>1 DEF LeftBehind
  <2>3. NotServed'
    BY <1>3, <1>6, <2>1 DEF ApiInv, NotServed
  <2>4. IsServed'
    BY ONLY <1>6, <2>1 DEF IsServed
  <2> QED BY <1>1, <1>2, <2>1, <2>2, <2>3, <2>4 DEF ApiInv
<1>7. CASE deployment = Absent /\ ~missing
  <2>1. /\ registered' = registered \cup BeforeApi \cup {Own("api")} \cup registerCustomDomains
        /\ deployment' = Served /\ outcome' = "pending"
    BY <1>7 DEF publish, HttpDeployment
  <2>2. BeforeApi \cup {Own("api")} \cup registerCustomDomains = RegisteredFor(calls, Served)
    BY <1>1, AllRegistered
  <2>3. registered' = registered \cup RegisteredFor(calls, deployment')
    BY ONLY <2>1, <2>2
  <2>4. deployment' # Absent
    <3>1. DOMAIN Served = Kinds /\ "absent" \notin Kinds
      BY DEF Served, Kinds
    <3>2. "absent" \in DOMAIN Absent
      BY DEF Absent
    <3> QED BY <2>1, <3>1, <3>2
  <2>5. ASSUME NEW k \in Kinds
        PROVE  /\ Served[k] \in Seq(Declarations) /\ Len(Served[k]) <= Len(declared[k])
               /\ \A i \in DOMAIN Served[k] : Served[k][i] = Converted(k, declared[k][i])
    <3>1. /\ Served[k] \in Seq(Declarations) /\ Len(Served[k]) = Len(declared[k])
          /\ Served[k] = [i \in DOMAIN declared[k] |-> Converted(k, declared[k][i])]
      BY <1>1, ServedIs
    <3>2. Len(Served[k]) \in Nat /\ Len(Served[k]) <= Len(declared[k])
      BY ONLY <3>1
    <3> QED BY ONLY <3>1, <3>2
  <2>6. \A x \in RegisteredFor(calls, deployment') : x.call = calls
    BY ONLY TRUE DEF RegisteredFor, OwnOf
  <2>7. OwnOf(calls, "deployment") \in RegisteredFor(calls, deployment')
    BY ONLY TRUE DEF RegisteredFor
  <2>8. IsServed'
    <3>1. /\ RegisteredFor(calls, deployment') \subseteq registered'
          /\ \A x \in registered' : x.call = calls => x \in RegisteredFor(calls, deployment')
      BY ONLY <1>2, <1>4, <2>3
    <3>2. \A x \in registered' : x.resource[1] = "api" => x.call = calls
      <4>1. \A x \in registered : x.resource[1] # "api"
        BY <1>7 DEF ApiInv, NotServed
      <4> QED BY ONLY <2>3, <2>6, <4>1
    <3>3. \A k \in Kinds :
            /\ deployment'[k] \in Seq(Declarations) /\ Len(deployment'[k]) <= Len(declared'[k])
            /\ \A i \in DOMAIN deployment'[k] :
                 deployment'[k][i] = Converted(k, declared'[k][i])
      BY ONLY <1>1, <2>1, <2>5
    <3>4. outcome' # "none" /\ outcome' # "live" /\ outcome' # "failed"
      BY ONLY <2>1
    <3> QED BY ONLY <1>2, <3>1, <3>2, <3>3, <3>4 DEF IsServed
  <2>9. LeftBehind'
    BY ONLY <1>2, <1>4, <2>3, <2>6, <2>7 DEF LeftBehind
  <2>10. NotServed'
    BY ONLY <2>4 DEF NotServed
  <2> QED BY ONLY <1>1, <1>2, <2>1, <2>8, <2>9, <2>10 DEF ApiInv
<1> QED BY <1>5, <1>6, <1>7

LEMMA ApiDeclareStep ==
  ASSUME ApiInv, NEW d \in Declarations, Declare(d)
  PROVE  ApiInv'
<1>1. /\ DeclaredOK'
      /\ \A k \in Kinds :
           /\ Len(declared[k]) <= Len(declared'[k])
           /\ \A i \in DOMAIN declared[k] :
                i \in DOMAIN declared'[k] /\ declared'[k][i] = declared[k][i]
  BY DeclareStep DEF ApiInv
<1>2. UNCHANGED <<deployment, registered, outcome>> /\ calls' \in 0..MaxCalls
  BY MaxCallsAssumption DEF ApiInv, Declare
<1>3. ASSUME deployment # Absent, NEW k \in Kinds
      PROVE  /\ deployment[k] \in Seq(Declarations) /\ Len(deployment[k]) <= Len(declared'[k])
             /\ \A i \in DOMAIN deployment[k] : deployment[k][i] = Converted(k, declared'[k][i])
  <2>1. /\ deployment[k] \in Seq(Declarations) /\ Len(deployment[k]) <= Len(declared[k])
        /\ \A i \in DOMAIN deployment[k] : deployment[k][i] = Converted(k, declared[k][i])
    BY <1>3 DEF ApiInv, IsServed
  <2>2. declared[k] \in Seq(Declarations) /\ declared'[k] \in Seq(Declarations)
    BY <1>1 DEF ApiInv, DeclaredOK, Declarations, Targets, RawPaths
  <2>3. \A S : \A s \in Seq(S) : Len(s) \in Nat /\ DOMAIN s = 1..Len(s)
    BY ONLY TRUE
  <2> DEFINE D == Declarations
  <2> HIDE DEF D
  <2>4. /\ Len(deployment[k]) \in Nat /\ DOMAIN deployment[k] = 1..Len(deployment[k])
        /\ Len(declared[k]) \in Nat /\ DOMAIN declared[k] = 1..Len(declared[k])
        /\ Len(declared'[k]) \in Nat
    BY ONLY <2>1, <2>2, <2>3
  <2>5. /\ Len(deployment[k]) <= Len(declared'[k])
        /\ \A i \in DOMAIN deployment[k] : i \in DOMAIN declared[k]
    BY ONLY <1>1, <2>1, <2>4
  <2> QED BY ONLY <1>1, <2>1, <2>5
<1>4. IsServed'
  BY ONLY <1>2, <1>3, ApiInv
  DEF ApiInv, IsServed, Duplicated
<1>5. NotServed'
  BY ONLY <1>2, ApiInv DEF ApiInv, NotServed
<1>6. LeftBehind'
  <2>1. calls \in Nat /\ calls' = calls + 1
    BY MaxCallsAssumption DEF ApiInv, Declare
  <2>2. \A x \in registered : /\ x.call \in Nat /\ x.call < calls
                              /\ OwnOf(x.call, "deployment") \in registered
    BY DEF ApiInv, LeftBehind
  <2> QED BY ONLY <1>2, <2>1, <2>2 DEF LeftBehind
<1> QED BY ONLY <1>1, <1>2, <1>4, <1>5, <1>6, ApiInv DEF ApiInv

LEMMA ResolveStep ==
  ASSUME ApiInv, Resolve
  PROVE  ApiInv'
<1>1. UNCHANGED <<declared, deployment, registered, calls>> /\ deployment # Absent
  BY DEF ApiInv, NotServed, Resolve
<1>2. outcome' = IF Duplicated \/ \E i \in DOMAIN deployment["proxy"] :
                                     LinkFails(deployment["proxy"][i].target)
                 THEN "failed" ELSE "live"
  BY DEF Resolve
<1>3. DeclaredOK' /\ LeftBehind' /\ NotServed'
  BY <1>1 DEF ApiInv, DeclaredOK, LeftBehind, NotServed
<1>4. Duplicated' <=> Duplicated
  BY <1>1 DEF Duplicated
<1> QED BY <1>1, <1>2, <1>3, <1>4 DEF ApiInv, IsServed

LEMMA ApiInvStep == ApiInv /\ [Next]_vars => ApiInv'
<1> SUFFICES ASSUME ApiInv, [Next]_vars
             PROVE  ApiInv'
  OBVIOUS
<1>1. CASE UNCHANGED apiVars
  BY <1>1 DEF apiVars, ApiInv, DeclaredOK, IsServed, NotServed, LeftBehind, Duplicated
<1>2. CASE ApiNext
  BY <1>2, PublishStep, ApiDeclareStep, ResolveStep DEF ApiNext
<1> QED BY <1>1, <1>2 DEF Next, vars

LEMMA ApiInvInit == Init => ApiInv
<1> SUFFICES ASSUME Init
             PROVE  ApiInv
  OBVIOUS
<1>1. /\ declared = [k \in Kinds |-> <<>>] /\ deployment = Absent /\ registered = {}
      /\ calls = 0 /\ outcome = "none"
  BY DEF Init, ApiInit
<1>2. DeclaredOK
  <2>1. \A S : <<>> \in Seq(S) /\ DOMAIN <<>> = {}
    BY ONLY TRUE
  <2>2. \A k \in Kinds : declared[k] = <<>>
    BY <1>1
  <2> QED BY ONLY <1>1, <2>1, <2>2 DEF DeclaredOK
<1> QED BY <1>1, <1>2, MaxCallsAssumption DEF ApiInv, IsServed, NotServed, LeftBehind

\* What is served, place by place.
LEMMA ServedParts ==
  ASSUME ApiInv, deployment # Absent
  PROVE  \A k \in Kinds :
           /\ Len(deployment[k]) \in Nat /\ DOMAIN deployment[k] = 1..Len(deployment[k])
           /\ Len(deployment[k]) <= Len(declared[k])
           /\ \A i \in DOMAIN deployment[k] :
                /\ i \in DOMAIN declared[k] /\ declared[k][i] \in Declarations
                /\ deployment[k][i].kind = k /\ Clean(deployment[k][i])
                /\ ResourceOf(deployment[k][i]) = ResourceOf(declared[k][i])
                /\ deployment[k][i].path = declared[k][i].path
                /\ k # "proxy" => deployment[k][i] = declared[k][i]
                /\ k = "proxy" =>
                     /\ declared[k][i].target \in Targets
                     /\ deployment[k][i].target = convertProxyRouteTarget(declared[k][i].target)
<1> SUFFICES ASSUME NEW k \in Kinds
             PROVE  /\ Len(deployment[k]) \in Nat /\ DOMAIN deployment[k] = 1..Len(deployment[k])
                    /\ Len(deployment[k]) <= Len(declared[k])
                    /\ \A i \in DOMAIN deployment[k] :
                         /\ i \in DOMAIN declared[k] /\ declared[k][i] \in Declarations
                         /\ deployment[k][i].kind = k /\ Clean(deployment[k][i])
                         /\ ResourceOf(deployment[k][i]) = ResourceOf(declared[k][i])
                         /\ deployment[k][i].path = declared[k][i].path
                         /\ k # "proxy" => deployment[k][i] = declared[k][i]
                         /\ k = "proxy" =>
                              /\ declared[k][i].target \in Targets
                              /\ deployment[k][i].target
                                   = convertProxyRouteTarget(declared[k][i].target)
  OBVIOUS
<1>1. /\ deployment[k] \in Seq(Declarations) /\ Len(deployment[k]) <= Len(declared[k])
      /\ \A i \in DOMAIN deployment[k] : deployment[k][i] = Converted(k, declared[k][i])
  BY DEF ApiInv, IsServed
<1>2. /\ declared[k] \in Seq(Declarations)
      /\ \A i \in DOMAIN declared[k] : declared[k][i].kind = k /\ Clean(declared[k][i])
  BY DEF ApiInv, DeclaredOK
<1> DEFINE D == Declarations
<1> HIDE DEF D
<1>3. \A s \in Seq(D) : Len(s) \in Nat /\ DOMAIN s = 1..Len(s) /\ \A i \in DOMAIN s : s[i] \in D
  BY ONLY TRUE
<1>4. /\ Len(deployment[k]) \in Nat /\ DOMAIN deployment[k] = 1..Len(deployment[k])
      /\ Len(declared[k]) \in Nat /\ DOMAIN declared[k] = 1..Len(declared[k])
      /\ \A i \in DOMAIN declared[k] : declared[k][i] \in Declarations
  BY ONLY <1>1, <1>2, <1>3 DEF D
<1>5. \A i \in DOMAIN deployment[k] : i \in DOMAIN declared[k]
  BY ONLY <1>1, <1>4
<1>6. ASSUME NEW i \in DOMAIN deployment[k]
      PROVE  /\ deployment[k][i].kind = k /\ Clean(deployment[k][i])
             /\ ResourceOf(deployment[k][i]) = ResourceOf(declared[k][i])
             /\ deployment[k][i].path = declared[k][i].path
             /\ k # "proxy" => deployment[k][i] = declared[k][i]
             /\ k = "proxy" =>
                  /\ declared[k][i].target \in Targets
                  /\ deployment[k][i].target = convertProxyRouteTarget(declared[k][i].target)
  <2>1. /\ declared[k][i] \in Declarations /\ declared[k][i].kind = k /\ Clean(declared[k][i])
        /\ deployment[k][i] = Converted(k, declared[k][i])
    BY ONLY <1>1, <1>2, <1>4, <1>5, <1>6
  <2>2. CASE k = "proxy"
    <3>1. deployment[k][i] = convertProxyRoute(declared[k][i])
      BY <2>1, <2>2 DEF Converted
    <3> QED BY <2>1, <2>2, <3>1, ConvertedIs DEF Clean
  <2>3. CASE k # "proxy"
    BY <2>1, <2>3 DEF Converted
  <2> QED BY <2>2, <2>3
<1> QED BY ONLY <1>1, <1>4, <1>5, <1>6

\* What kind a resource is of tells what it was registered for.
LEMMA RegisteredIs ==
  ASSUME NEW c, NEW served, NEW x \in RegisteredFor(c, served),
         \A k \in Kinds : \A i \in DOMAIN served[k] : served[k][i].kind = k
  PROVE  \/ x = OwnOf(c, "deployment") \/ x = OwnOf(c, "api")
         \/ \E i \in Linked(served["proxy"]) :
              /\ i \in DOMAIN served["proxy"]
              /\ x = [call |-> c, for |-> <<"proxy", i>>,
                      resource |-> ResourceOf(served["proxy"][i])]
              /\ x.resource[1] = "vpcLink"
         \/ \E i \in DOMAIN served["route"] :
              /\ x = [call |-> c, for |-> <<"route", i>>,
                      resource |-> ResourceOf(served["route"][i])]
              /\ x.resource[1] = "function"
         \/ \E i \in DOMAIN served["domain"] :
              /\ x = [call |-> c, for |-> <<"domain", i>>,
                      resource |-> ResourceOf(served["domain"][i])]
              /\ x.resource[1] = "domain"
<1>1. /\ \A i \in DOMAIN served["proxy"] :
           ResourceOf(served["proxy"][i]) = <<"vpcLink", <<served["proxy"][i].path>>>>
      /\ \A i \in DOMAIN served["route"] :
           ResourceOf(served["route"][i])
             = <<"function", <<served["route"][i].path, served["route"][i].method>>>>
      /\ \A i \in DOMAIN served["domain"] :
           ResourceOf(served["domain"][i]) = <<"domain", <<served["domain"][i].domain>>>>
  BY DEF ResourceOf, Kinds
<1>2. Linked(served["proxy"]) \subseteq DOMAIN served["proxy"]
  BY DEF Linked
<1> QED BY <1>1, <1>2 DEF RegisteredFor

(***************************************************************************)
(* Nothing that a call of publish left behind when it threw is ever live   *)
(* beside the API that a later call deploys, whatever was declared between *)
(* the two: both calls register the component under one name               *)
(* (aws/api.ts 130-138, 198-231).                                          *)
(***************************************************************************)
THEOREM LiveIsOnePublishCorrect == Spec => []LiveIsOnePublish
<1>1. ASSUME ApiInv PROVE LiveIsOnePublish
  <2> SUFFICES ASSUME outcome = "live", NEW x \in registered, NEW y \in registered,
                      x.call # y.call
               PROVE  FALSE
    BY DEF LiveIsOnePublish
  <2>1. ~Duplicated
    BY <1>1 DEF ApiInv, IsServed, NotServed
  <2>2. OwnOf(x.call, "deployment") \in registered /\ OwnOf(y.call, "deployment") \in registered
    BY <1>1 DEF ApiInv, LeftBehind
  <2>3. /\ OwnOf(x.call, "deployment") # OwnOf(y.call, "deployment")
        /\ OwnOf(x.call, "deployment").resource = OwnOf(y.call, "deployment").resource
    BY DEF OwnOf
  <2> QED BY ONLY <2>1, <2>2, <2>3 DEF Duplicated
<1> QED BY <1>1, ApiInvInit, ApiInvStep, PTL DEF Spec

\* What the call that made the deployment registered.
LEMMA PublishedIs ==
  ASSUME ApiInv, deployment # Absent
  PROVE  \E c \in Nat : Published = RegisteredFor(c, deployment)
<1>1. PICK c \in Nat : /\ RegisteredFor(c, deployment) \subseteq registered
                       /\ \A x \in registered : x.call = c => x \in RegisteredFor(c, deployment)
                       /\ \A x \in registered : x.resource[1] = "api" => x.call = c
  BY DEF ApiInv, IsServed
<1>2. \A x \in RegisteredFor(c, deployment) : x.call = c
  BY ONLY TRUE DEF RegisteredFor, OwnOf
<1>3. /\ OwnOf(c, "api") \in RegisteredFor(c, deployment)
      /\ OwnOf(c, "api").call = c /\ OwnOf(c, "api").resource[1] = "api"
  BY ONLY TRUE DEF RegisteredFor, OwnOf
<1>4. \A x \in registered : x.call = c <=> x \in Published
  BY ONLY <1>1, <1>3 DEF Published
<1>5. \A x \in Published : x \in registered
  BY ONLY TRUE DEF Published
<1>6. Published = RegisteredFor(c, deployment)
  BY ONLY <1>1, <1>2, <1>4, <1>5
<1> QED BY <1>6

\* The resources of the routes and of the domains.
LEMMA ResourcesServed ==
  ASSUME ApiInv, deployment # Absent
  PROVE  \A k \in {"route", "domain"} :
           {x.resource : x \in {x \in Published : x.for[1] = k}}
             = {ResourceOf(deployment[k][i]) : i \in DOMAIN deployment[k]}
<1>1. PICK c \in Nat : Published = RegisteredFor(c, deployment)
  BY PublishedIs
<1> SUFFICES ASSUME NEW k \in {"route", "domain"}
             PROVE  {x.resource : x \in {x \in Published : x.for[1] = k}}
                      = {ResourceOf(deployment[k][i]) : i \in DOMAIN deployment[k]}
  OBVIOUS
<1> DEFINE R(i) == ResourceOf(deployment[k][i])
<1>2. ASSUME NEW i \in DOMAIN deployment[k]
      PROVE  [call |-> c, for |-> <<k, i>>, resource |-> R(i)] \in Published
  BY ONLY <1>1, k \in {"route", "domain"}, i \in DOMAIN deployment[k] DEF RegisteredFor
<1>3. ASSUME NEW x \in Published, x.for[1] = k
      PROVE  \E i \in DOMAIN deployment[k] : x.resource = R(i)
  BY ONLY <1>1, <1>3, k \in {"route", "domain"} DEF RegisteredFor, OwnOf
<1> HIDE DEF R
<1>4. {x.resource : x \in {x \in Published : x.for[1] = k}} = {R(i) : i \in DOMAIN deployment[k]}
  BY ONLY <1>2, <1>3
<1> QED BY <1>4 DEF R

LEMMA ServedWasDeclared ==
  ASSUME ApiInv
  PROVE  ServedAsDeclared
<1> SUFFICES ASSUME deployment # Absent
             PROVE  ServedAsDeclared
  BY DEF ServedAsDeclared
<1>1. \A k \in Kinds :
        /\ Len(deployment[k]) <= Len(declared[k])
        /\ \A i \in DOMAIN deployment[k] :
             /\ deployment[k][i].kind = k /\ Clean(deployment[k][i])
             /\ declared[k][i] \in Declarations
             /\ k # "proxy" => deployment[k][i] = declared[k][i]
  BY ServedParts
<1>2. ASSUME NEW i \in DOMAIN deployment["route"], NEW j \in DOMAIN deployment["route"],
             deployment["route"][i].path.name = deployment["route"][j].path.name,
             deployment["route"][i].method = deployment["route"][j].method
      PROVE  ResourceOf(deployment["route"][i]) = ResourceOf(deployment["route"][j])
  <2>1. ASSUME NEW k \in DOMAIN deployment["route"]
        PROVE  /\ deployment["route"][k].kind = "route"
               /\ deployment["route"][k].path = [leading |-> TRUE, trailing |-> FALSE,
                                                 name |-> deployment["route"][k].path.name]
    <3> DEFINE d == deployment["route"][k]
    <3>1. d \in Declarations /\ d.kind = "route" /\ Clean(d)
      BY <1>1 DEF Kinds
    <3> HIDE DEF d
    <3>2. d.path \in [leading : BOOLEAN, name : PathNames, trailing : BOOLEAN]
      BY <3>1 DEF Declarations, RawPaths
    <3>3. d.path.leading /\ ~d.path.trailing
      BY ONLY <3>1 DEF Clean
    <3>4. d.path = [leading |-> TRUE, trailing |-> FALSE, name |-> d.path.name]
      BY ONLY <3>2, <3>3
    <3> QED BY <3>1, <3>4 DEF d
  <2>2. deployment["route"][i].path = deployment["route"][j].path
    BY <1>2, <2>1
  <2> QED BY <1>2, <2>1, <2>2 DEF ResourceOf
<1>3. \A k \in Kinds : \A i \in DOMAIN deployment[k] : Clean(deployment[k][i])
  BY ONLY <1>1
<1> QED BY ONLY <1>1, <1>2, <1>3, ResourcesServed, ApiInv, deployment # Absent
        DEF ServedAsDeclared

(***************************************************************************)
(* An API serves what was declared by the time of publish, in the same     *)
(* order and with every path in its clean form, and that publish           *)
(* registered a function for each of its routes, a domain name for each    *)
(* call of attachCustomDomain before it, and no other (aws/api.ts 87-138,  *)
(* 150-247; api/api.ts 266-271).                                           *)
(***************************************************************************)
THEOREM ServedAsDeclaredCorrect == Spec => []ServedAsDeclared
BY ApiInvInit, ApiInvStep, ServedWasDeclared, PTL DEF Spec

\* Behind the default endpoint of a service is the listener of its first port.
LEMMA DefaultReaches ==
  ASSUME NEW containers, IsContainers(containers), NEW cluster,
         ~IsRefused(AwsService(containers, cluster)),
         AwsService(containers, cluster).defaultEndpoint # Absent
  PROVE  LET service == AwsService(containers, cluster)
         IN  /\ service.balancers[<<1, 1>>].type \in {"application", "network"}
             /\ Cardinality(AwsReached(service, containers, service.defaultEndpoint)) = 1
<1> DEFINE service == AwsService(containers, cluster)
           endpoint == getEndpointHelper(AwsEndpoints(containers), "", 0)
<1>1. /\ service.defaultEndpoint = AwsDefault(containers)
      /\ service.balancers = [e \in Exposed(containers) |->
                                createLoadBalancer(PortAt(containers, e), cluster)]
  <2>1. /\ \A e, f \in Exposed(containers) : e = f
        /\ service.defaultEndpoint = AwsDefault(containers)
        /\ service.balancers = [e \in Exposed(containers) |->
                                  createLoadBalancer(PortAt(containers, e), cluster)]
    BY AwsTaken
  <2> QED BY <2>1
<1>2. /\ containers # <<>> /\ containers[1].ports # <<>> /\ AwsDefault(containers) = endpoint
  BY <1>1 DEF AwsDefault
<1>3. 1 \in DOMAIN containers /\ \A k \in DOMAIN containers : 1 <= k
  <2>1. Len(containers) \in Nat /\ DOMAIN containers = 1..Len(containers)
    BY ContainersAre
  <2>2. Len(containers) # 0
    <3>1. containers \in Seq([name : STRING \ {""},
                              ports : Seq(ContainerPorts(Port, Port, STRING))])
      BY DEF IsContainers
    <3>2. \A S : \A s \in Seq(S) : Len(s) = 0 => s = <<>>
      BY ONLY TRUE
    <3> QED BY ONLY <1>2, <3>1, <3>2
  <2> QED BY ONLY <2>1, <2>2
<1>4. 1 \in DOMAIN containers[1].ports
  BY <1>2, <1>3, ContainersAre
<1>5. <<1, 1>> \in Exposed(containers)
  BY <1>3, <1>4 DEF Exposed
<1>6. service.balancers[<<1, 1>>].type \in {"application", "network"}
  <2> HIDE DEF service
  <2> QED BY ONLY <1>1, <1>5 DEF createLoadBalancer
<1>7. ~IsRefused(endpoint)
  BY <1>2, AwsFirst
<1>8. Cardinality(AwsReached(service, containers, endpoint)) = 1
  <2>1. LET meant   == Meant(containers, "", 0)
            reached == AwsReached(service, containers, endpoint)
        IN  IF IsRefused(endpoint) THEN meant = {}
            ELSE Cardinality(reached) = 1 /\ reached \subseteq meant
    BY AwsEndpointReaches
  <2> HIDE DEF endpoint, service
  <2> QED BY ONLY <1>7, <2>1
<1> QED BY <1>1, <1>2, <1>6, <1>8

\* Two registrations of one name, by the call that made the deployment, are for
\* two declarations that overlap.
LEMMA SameIsOverlap ==
  ASSUME ApiInv, deployment # Absent, Duplicated
  PROVE  Overlap \/ Retried
<1> SUFFICES ASSUME ~Retried, ~Overlap
             PROVE  FALSE
  OBVIOUS
<1>1. PICK x \in registered, y \in registered : x # y /\ x.resource = y.resource
  BY DEF Duplicated
<1>2. PICK c \in Nat : /\ RegisteredFor(c, deployment) \subseteq registered
                       /\ \A z \in registered : z.call = c => z \in RegisteredFor(c, deployment)
  BY DEF ApiInv, IsServed
<1>3. x \in RegisteredFor(c, deployment) /\ y \in RegisteredFor(c, deployment)
  <2>1. OwnOf(c, "api") \in registered /\ OwnOf(c, "api").call = c
    BY <1>2 DEF RegisteredFor, OwnOf
  <2> QED BY <1>2, <2>1 DEF Retried
<1> DEFINE R(k, i) == ResourceOf(deployment[k][i])
           L == Linked(deployment["proxy"])
           Z(k, i) == [call |-> c, for |-> <<k, i>>, resource |-> R(k, i)]
<1>4. /\ L \subseteq DOMAIN deployment["proxy"]
      /\ \A i, j \in L : R("proxy", i) = R("proxy", j) => i = j
  <2>1. L \subseteq DOMAIN deployment["proxy"]
    BY DEF Linked
  <2> QED BY <2>1 DEF Overlap
<1>5. /\ \A i, j \in DOMAIN deployment["route"] : R("route", i) = R("route", j) => i = j
      /\ \A i, j \in DOMAIN deployment["domain"] : R("domain", i) = R("domain", j) => i = j
  BY DEF Overlap
<1>6. \A k \in Kinds : \A i \in DOMAIN deployment[k] : deployment[k][i].kind = k
  BY ServedParts
<1>7. ASSUME NEW z \in RegisteredFor(c, deployment)
      PROVE  \/ z.resource[1] = "deployment" /\ z = OwnOf(c, "deployment")
             \/ z.resource[1] = "api" /\ z = OwnOf(c, "api")
             \/ z.resource[1] = "vpcLink" /\ \E i \in L : z = Z("proxy", i)
             \/ z.resource[1] = "function" /\ \E i \in DOMAIN deployment["route"] : z = Z("route", i)
             \/ z.resource[1] = "domain" /\ \E i \in DOMAIN deployment["domain"] : z = Z("domain", i)
  <2>1. OwnOf(c, "deployment").resource[1] = "deployment" /\ OwnOf(c, "api").resource[1] = "api"
    BY DEF OwnOf
  <2>2. \/ z = OwnOf(c, "deployment") \/ z = OwnOf(c, "api")
        \/ \E i \in Linked(deployment["proxy"]) :
              /\ i \in DOMAIN deployment["proxy"]
              /\ z = [call |-> c, for |-> <<"proxy", i>>,
                      resource |-> ResourceOf(deployment["proxy"][i])]
              /\ z.resource[1] = "vpcLink"
        \/ \E i \in DOMAIN deployment["route"] :
              /\ z = [call |-> c, for |-> <<"route", i>>,
                      resource |-> ResourceOf(deployment["route"][i])]
              /\ z.resource[1] = "function"
        \/ \E i \in DOMAIN deployment["domain"] :
              /\ z = [call |-> c, for |-> <<"domain", i>>,
                      resource |-> ResourceOf(deployment["domain"][i])]
              /\ z.resource[1] = "domain"
    BY <1>6, RegisteredIs
  <2> QED BY ONLY <2>1, <2>2
<1>8. \A k \in Kinds : \A i : Z(k, i).resource = R(k, i)
  OBVIOUS
<1>9. "proxy" \in Kinds /\ "route" \in Kinds /\ "domain" \in Kinds
  BY DEF Kinds
<1> HIDE DEF R, L, Z
<1> QED BY ONLY <1>1, <1>3, <1>4, <1>5, <1>7, <1>8, <1>9

LEMMA LiveReaches ==
  ASSUME ApiInv
  PROVE  ProxyReaches
<1> SUFFICES ASSUME deployment # Absent
             PROVE  ProxyReaches
  BY DEF ProxyReaches
<1>1. ASSUME NEW i \in DOMAIN deployment["proxy"], NEW target,
             target = deployment["proxy"][i].target
      PROVE  /\ ~LinkFails(target) => ProxyArrives(target)
             /\ LinkFails(target) => \/ target.is # "endpoint" \/ EndpointOf(target) = Absent
                                     \/ ~ProxyArrives(target)
  <2>1. PICK t \in Targets : target = convertProxyRouteTarget(t)
    BY <1>1, ServedParts DEF Kinds
  <2>2. CASE t.is = "url"
    <3>1. t \in [is : {"url"}, trailing : BOOLEAN]
      BY <2>2 DEF Targets
    <3>2. target.is = "url" /\ target.trailing = TRUE
      BY <2>1, <2>2, <3>1 DEF convertProxyRouteTarget
    <3> QED BY <3>2 DEF ProxyArrives, LinkFails
  <2>3. CASE t.is = "foreign"
    <3>1. target.is = "foreign"
      BY <2>1, <2>3 DEF convertProxyRouteTarget
    <3> QED BY <3>1 DEF LinkFails
  <2>4. CASE t.is = "endpoint"
    <3>1. target.is = "endpoint" /\ target.of \in ApiServices
      BY <2>1, <2>4 DEF convertProxyRouteTarget, Targets
    <3> DEFINE containers == target.of.containers
               service == AwsService(containers, target.of.cluster)
    <3>2. IsContainers(containers) /\ ~IsRefused(service)
      BY <3>1, ServicesAssumption
    <3>3. ASSUME EndpointOf(target) # Absent
          PROVE  /\ Balancer(target).type \in {"application", "network"}
                 /\ Cardinality(AwsReached(service, containers, EndpointOf(target))) = 1
      BY <3>2, <3>3, DefaultReaches DEF EndpointOf, Balancer
    <3>4. ProxyArrives(target)
            <=> /\ Balancer(target).type = "network"
                /\ Cardinality(AwsReached(service, containers, EndpointOf(target))) = 1
      BY <3>1 DEF ProxyArrives
    <3>5. LinkFails(target) <=> \/ EndpointOf(target) = Absent
                                \/ Balancer(target).type = "application"
      BY <3>1, <3>3 DEF LinkFails
    <3> QED BY <3>1, <3>3, <3>4, <3>5
  <2>5. t.is \in {"url", "foreign", "endpoint"}
    BY DEF Targets
  <2> QED BY <2>2, <2>3, <2>4, <2>5
<1>2. /\ outcome = "live" =>
           \A i \in DOMAIN deployment["proxy"] : ~LinkFails(deployment["proxy"][i].target)
      /\ outcome = "failed" =>
           \/ Overlap \/ Retried
           \/ \E i \in DOMAIN deployment["proxy"] : LinkFails(deployment["proxy"][i].target)
  BY SameIsOverlap DEF ApiInv, IsServed
<1> QED BY ONLY <1>1, <1>2 DEF ProxyReaches

(***************************************************************************)
(* Every proxy of a live deployment, to any service with any containers,   *)
(* leads to its URL or to one port of one container, and a deployment only *)
(* fails for a proxy that cannot, for declarations that overlap, or after  *)
(* a call of publish that threw (aws/api.ts 157-298).                      *)
(***************************************************************************)
THEOREM ProxyReachesCorrect == Spec => []ProxyReaches
BY ApiInvInit, ApiInvStep, LiveReaches, PTL DEF Spec

-----------------------------------------------------------------------------
\* The sums of n numbers exist: of the least n that had none, one less has.
LEMMA SumsExist ==
  ASSUME NEW m, NEW N \in Nat, \A i \in 1..N : m[i] \in Nat
  PROVE  \E f : f = [i \in 0..N |-> IF i = 0 THEN 0 ELSE f[i - 1] + m[i]]
<1> DEFINE Sums(n, f) == f = [i \in 0..n |-> IF i = 0 THEN 0 ELSE f[i - 1] + m[i]]
           Without == {n \in Nat : ~\E f : Sums(n, f)}
<1>1. ASSUME NEW n \in Without PROVE \E k \in Without : k < n
  <2>1. n # 0
    <3>1. Sums(0, [i \in {0} |-> 0])
      <4>1. 0..0 = {0}
        OBVIOUS
      <4>2. [i \in {0} |-> 0] = [i \in {0} |-> IF i = 0 THEN 0
                                               ELSE [j \in {0} |-> 0][i - 1] + m[i]]
        BY ONLY Zenon
      <4> QED BY ONLY <4>1, <4>2
    <3> QED BY <1>1, <3>1
  <2>2. n \in Nat /\ n - 1 \in Nat /\ n - 1 < n
    BY <1>1, <2>1
  <2>3. ASSUME NEW f, Sums(n - 1, f)
        PROVE  Sums(n, [i \in 0..n |-> IF i = n THEN f[n - 1] + m[n] ELSE f[i]])
    <3> DEFINE g == [i \in 0..n |-> IF i = n THEN f[n - 1] + m[n] ELSE f[i]]
    <3>1. ASSUME NEW i \in 0..n PROVE g[i] = IF i = 0 THEN 0 ELSE g[i - 1] + m[i]
      <4>1. CASE i = 0
        <5>1. f[0] = 0
          BY <2>2, <2>3
        <5> QED BY <2>1, <4>1, <5>1
      <4>2. CASE i # 0 /\ i # n
        <5>1. i \in 0..(n - 1) /\ i - 1 \in 0..n /\ i - 1 # n /\ i - 1 \in 0..(n - 1)
          BY <2>2, <4>2
        <5>2. f[i] = f[i - 1] + m[i]
          BY <2>3, <4>2, <5>1
        <5> QED BY <4>2, <5>1, <5>2
      <4>3. CASE i = n
        <5>1. n - 1 \in 0..n /\ n - 1 # n
          BY <2>2
        <5> QED BY <2>1, <4>3, <5>1
      <4> QED BY <4>1, <4>2, <4>3
    <3>2. g = [i \in 0..n |-> g[i]]
      OBVIOUS
    <3> HIDE DEF g
    <3>3. g = [i \in 0..n |-> IF i = 0 THEN 0 ELSE g[i - 1] + m[i]]
      BY ONLY <3>1, <3>2
    <3> QED BY <3>3 DEF g
  <2>4. n - 1 \in Without
    BY <1>1, <2>2, <2>3
  <2> QED BY <2>2, <2>4
<1> HIDE DEF Without
<1>2. Without = {}
  <2> SUFFICES ASSUME Without # {}
               PROVE  FALSE
    OBVIOUS
  <2>1. Without \in SUBSET Nat
    BY DEF Without
  <2>2. Min(Without) \in Without /\ \A k \in Without : Min(Without) <= k
    BY <2>1, LeastIsLeast
  <2>3. PICK k \in Without : k < Min(Without)
    BY <1>1, <2>2
  <2>4. Min(Without) \in Nat /\ k \in Nat /\ Min(Without) <= k
    BY ONLY <2>1, <2>2, <2>3
  <2> QED BY ONLY <2>3, <2>4
<1> QED BY <1>2 DEF Without

LEMMA SumsAre ==
  ASSUME NEW m \in Seq(Nat)
  PROVE  /\ SumsOf(m)[0] = 0
         /\ \A i \in 1..Len(m) : SumsOf(m)[i] = SumsOf(m)[i - 1] + m[i]
<1> DEFINE N == Len(m)
           s == SumsOf(m)
<1>1. N \in Nat /\ \A i \in 1..N : m[i] \in Nat
  OBVIOUS
<1>2. s = CHOOSE f : f = [i \in 0..N |-> IF i = 0 THEN 0 ELSE f[i - 1] + m[i]]
  BY DEF SumsOf
<1> HIDE DEF N, s
<1>3. \E f : f = [i \in 0..N |-> IF i = 0 THEN 0 ELSE f[i - 1] + m[i]]
  BY ONLY <1>1, SumsExist
<1>4. s = [i \in 0..N |-> IF i = 0 THEN 0 ELSE s[i - 1] + m[i]]
  BY ONLY <1>2, <1>3
<1>5. 0 \in 0..N /\ \A i \in 1..N : i \in 0..N /\ i # 0
  BY ONLY <1>1
<1> QED BY <1>4, <1>5 DEF s, N

LEMMA SumsNat ==
  ASSUME NEW m \in Seq(Nat), NEW n \in 0..Len(m)
  PROVE  SumsOf(m)[n] \in Nat
<1> DEFINE Bad == {i \in 0..Len(m) : SumsOf(m)[i] \notin Nat}
<1>1. Len(m) \in Nat /\ \A i \in 1..Len(m) : m[i] \in Nat
  OBVIOUS
<1>2. /\ SumsOf(m)[0] = 0
      /\ \A i \in 1..Len(m) : SumsOf(m)[i] = SumsOf(m)[i - 1] + m[i]
  BY SumsAre
<1>3. Bad \in SUBSET Nat
  BY <1>1
<1>4. Bad = {}
  <2> SUFFICES ASSUME Bad # {}
               PROVE  FALSE
    OBVIOUS
  <2> DEFINE b == Min(Bad)
  <2>1. b \in Bad /\ \A i \in Bad : b <= i
    <3> HIDE DEF Bad
    <3> QED BY <1>3, LeastIsLeast
  <2>2. b \in 0..Len(m) /\ SumsOf(m)[b] \notin Nat
    BY <2>1
  <2> HIDE DEF b
  <2>3. b # 0
    BY <1>2, <2>2
  <2>4. /\ b \in 1..Len(m) /\ b - 1 \in 0..Len(m) /\ ~(b <= b - 1)
    BY ONLY <1>1, <2>2, <2>3
  <2>5. SumsOf(m)[b - 1] \in Nat
    BY <2>1, <2>4
  <2>6. SumsOf(m)[b] = SumsOf(m)[b - 1] + m[b] /\ m[b] \in Nat
    BY ONLY <1>1, <1>2, <2>4
  <2> QED BY ONLY <2>2, <2>5, <2>6
<1> QED BY <1>4

\* What the containers of a task ask for is a number.
LEMMA TotalsNat ==
  ASSUME NEW defs \in TaskContainers
  PROVE  /\ TotalMemory(defs) \in Nat /\ TotalCpu(defs) \in Nat /\ TotalCpu(defs) <= 65536
<1> DEFINE D == [memoryReservation : Nat, memory : Nat, cpu : Nat]
           M == [i \in DOMAIN defs |-> MemoryOf(defs[i])]
           C == [i \in DOMAIN defs |-> CpuOf(defs[i])]
<1>1. defs \in Seq(D) /\ TotalCpu(defs) <= 65536
  BY TasksAssumption
<1>2. \A d \in D : MemoryOf(d) \in Nat /\ CpuOf(d) \in Nat
  BY DEF MemoryOf, CpuOf
<1> HIDE DEF D
<1>3. \A i \in DOMAIN defs : defs[i] \in D
  BY ONLY <1>1
<1>4. /\ M = [i \in DOMAIN defs |-> M[i]] /\ \A i \in DOMAIN defs : M[i] \in Nat
      /\ C = [i \in DOMAIN defs |-> C[i]] /\ \A i \in DOMAIN defs : C[i] \in Nat
  BY ONLY <1>2, <1>3
<1>5. TotalMemory(defs) = SumsOf(M)[Len(defs)] /\ TotalCpu(defs) = SumsOf(C)[Len(defs)]
  BY DEF TotalMemory, TotalCpu
<1> HIDE DEF M, C
<1>6. M \in Seq(Nat) /\ Len(M) = Len(defs) /\ C \in Seq(Nat) /\ Len(C) = Len(defs)
  <2>0. defs \in Seq(D)
    BY ONLY <1>1
  <2>1. M \in Seq(Nat) /\ Len(M) = Len(defs)
    BY ONLY <2>0, <1>4, MappedSeq
  <2>2. C \in Seq(Nat) /\ Len(C) = Len(defs)
    BY ONLY <2>0, <1>4, MappedSeq
  <2> QED BY ONLY <2>1, <2>2
<1>7. Len(defs) \in 0..Len(M) /\ Len(defs) \in 0..Len(C)
  BY ONLY <1>1, <1>6
<1> QED BY ONLY <1>1, <1>5, <1>6, <1>7, SumsNat

\* The powers of 2 reach as far as the tasks do.
LEMMA PowerFound ==
  ASSUME NEW cpu \in Nat, cpu <= 65536
  PROVE  LET p == PowerOf2From(cpu)
         IN  p \in CpuValues /\ p >= cpu /\ \A q \in CpuValues : q >= cpu => p <= q
<1>1. \E p \in CpuValues : p >= cpu /\ \A q \in CpuValues : q >= cpu => p <= q
  <2>1. CASE cpu <= 256
    BY <2>1 DEF CpuValues
  <2>2. CASE cpu > 256 /\ cpu <= 512
    BY <2>2 DEF CpuValues
  <2>3. CASE cpu > 512 /\ cpu <= 1024
    BY <2>3 DEF CpuValues
  <2>4. CASE cpu > 1024 /\ cpu <= 2048
    BY <2>4 DEF CpuValues
  <2>5. CASE cpu > 2048 /\ cpu <= 4096
    BY <2>5 DEF CpuValues
  <2>6. CASE cpu > 4096 /\ cpu <= 8192
    BY <2>6 DEF CpuValues
  <2>7. CASE cpu > 8192 /\ cpu <= 16384
    BY <2>7 DEF CpuValues
  <2>8. CASE cpu > 16384 /\ cpu <= 32768
    BY <2>8 DEF CpuValues
  <2>9. CASE cpu > 32768
    BY <2>9 DEF CpuValues
  <2> QED BY <2>1, <2>2, <2>3, <2>4, <2>5, <2>6, <2>7, <2>8, <2>9
<1> DEFINE Good(p) == p >= cpu /\ \A q \in CpuValues : q >= cpu => p <= q
<1>2. PowerOf2From(cpu) = CHOOSE p \in CpuValues : Good(p)
  BY DEF PowerOf2From
<1>3. \E p \in CpuValues : Good(p)
  BY <1>1
<1> HIDE DEF Good
<1>4. PowerOf2From(cpu) \in CpuValues /\ Good(PowerOf2From(cpu))
  BY ONLY <1>2, <1>3
<1> QED BY <1>4 DEF Good

\* The memory is rounded up to the next size.
LEMMA MemoryRounded ==
  ASSUME NEW mem \in Nat
  PROVE  LET M == TaskMemory(mem)
         IN  /\ M \in Nat /\ M >= mem /\ M < mem + 1024 /\ M >= 512
             /\ M = 512 \/ \E k \in Nat : k >= 1 /\ M = k * 1024
<1>1. CASE mem <= 512
  BY <1>1 DEF TaskMemory
<1>2. CASE mem > 512
  <2> DEFINE k == (mem + 1023) \div 1024
  <2>1. TaskMemory(mem) = k * 1024
    BY <1>2 DEF TaskMemory
  <2>2. k \in Nat /\ k * 1024 <= mem + 1023 /\ mem + 1023 < k * 1024 + 1024
    OBVIOUS
  <2> HIDE DEF k
  <2>3. k >= 1
    BY <1>2, <2>2
  <2> QED BY <1>2, <2>1, <2>2, <2>3
<1> QED BY <1>1, <1>2

\* The cpu for a task is enough for its memory, and the least that is.
LEMMA CpuFits ==
  ASSUME NEW M \in Nat, M >= 512, M = 512 \/ \E k \in Nat : k >= 1 /\ M = k * 1024,
         NEW cpu \in Nat, cpu <= 65536
  PROVE  LET c == TaskCpu(M, cpu)
         IN  /\ c \in CpuValues /\ c >= cpu
             /\ M <= GB(30) =>
                  /\ M <= MostMemory(c)
                  /\ \A less \in CpuValues : less >= cpu /\ less < c => M > MostMemory(less)
             /\ Offered([memory |-> M, cpu |-> c])
                  <=> c <= 4096 /\ LeastMemory(c) <= M /\ M <= GB(30)
<1> DEFINE p == PowerOf2From(cpu)
           c == TaskCpu(M, cpu)
           least == IF M > 16384 THEN 4096 ELSE IF M > 8192 THEN 2048
                    ELSE IF M > 4096 THEN 1024 ELSE IF M > 2048 THEN 512 ELSE 256
<1>1. p \in CpuValues /\ p >= cpu /\ \A q \in CpuValues : q >= cpu => p <= q
  BY PowerFound
<1> HIDE DEF p
<1>2. c = IF p >= least THEN p ELSE least
  <2>1. p \in Nat /\ p >= 256
    BY <1>1 DEF CpuValues
  <2> QED BY <2>1 DEF TaskCpu, Larger, p
<1> HIDE DEF c
<1>3. least \in {256, 512, 1024, 2048, 4096} /\ least \in CpuValues
  BY DEF CpuValues
<1>4. M <= 30720 => M <= MostMemory(least)
  BY DEF MostMemory, GB
<1>5. \A less \in CpuValues : less < least => M > MostMemory(less)
  BY DEF CpuValues, MostMemory
<1> HIDE DEF least
<1>6. c \in CpuValues /\ c >= cpu /\ c >= least /\ c >= p /\ c \in {p, least}
  BY ONLY <1>1, <1>2, <1>3, cpu \in Nat DEF CpuValues
<1>7. \A a, b \in CpuValues : a <= b => MostMemory(a) <= MostMemory(b) /\ MostMemory(b) \in Nat
                                        /\ MostMemory(a) \in Nat
  BY ONLY TRUE DEF CpuValues, MostMemory, GB
<1>8. M <= 30720 => M <= MostMemory(c)
  <2>1. MostMemory(least) <= MostMemory(c) /\ MostMemory(c) \in Nat /\ MostMemory(least) \in Nat
    BY ONLY <1>3, <1>6, <1>7
  <2> QED BY <1>4, <2>1
<1>9. ASSUME NEW less \in CpuValues, less >= cpu, less < c
      PROVE  M > MostMemory(less)
  <2>1. p <= less
    BY <1>1, <1>9
  <2>2. less < least
    BY ONLY <1>1, <1>3, <1>6, <1>9, <2>1 DEF CpuValues
  <2> QED BY <1>5, <2>2
<1>10. ASSUME c <= 4096, M >= 2 * c, M <= 30720
       PROVE  Offered([memory |-> M, cpu |-> c])
  <2>2. c \in {256, 512, 1024, 2048, 4096}
    BY ONLY <1>6, <1>10 DEF CpuValues
  <2>3. M <= IF c = 4096 THEN 30720 ELSE 8 * c
    BY ONLY <1>8, <1>10, <2>2 DEF MostMemory, GB
  <2>4. CASE M = 512
    BY ONLY <1>10, <2>2, <2>4 DEF Offered, GB
  <2>5. ASSUME NEW k \in Nat, k >= 1, M = k * 1024
        PROVE  Offered([memory |-> M, cpu |-> c])
    <3>1. CASE c = 256
      BY ONLY <1>10, <2>3, <2>5, <3>1 DEF Offered, GB
    <3>2. CASE c = 512
      BY ONLY <1>10, <2>3, <2>5, <3>2 DEF Offered, GB
    <3>3. CASE c = 1024
      BY ONLY <1>10, <2>3, <2>5, <3>3 DEF Offered, GB
    <3>4. CASE c = 2048
      BY ONLY <1>10, <2>3, <2>5, <3>4 DEF Offered, GB
    <3>5. CASE c = 4096
      BY ONLY <1>10, <2>3, <2>5, <3>5 DEF Offered, GB
    <3> QED BY ONLY <2>2, <3>1, <3>2, <3>3, <3>4, <3>5
  <2> QED BY <2>4, <2>5
<1>11. GB(30) = 30720
  BY DEF GB
<1>12. ASSUME Offered([memory |-> M, cpu |-> c])
       PROVE  c <= 4096 /\ 2 * c <= M /\ M <= 30720
  BY ONLY <1>12 DEF Offered, GB
<1>13. Offered([memory |-> M, cpu |-> c]) <=> c <= 4096 /\ LeastMemory(c) <= M /\ M <= GB(30)
  <2>1. c \in Nat
    BY <1>6 DEF CpuValues
  <2> QED BY ONLY <1>10, <1>11, <1>12, <2>1, M \in Nat DEF LeastMemory
<1> QED BY <1>6, <1>8, <1>9, <1>11, <1>13 DEF c

LEMMA TaskStep ==
  ASSUME NEW defs \in TaskContainers, DefineTask(defs)
  PROVE  TaskSized' /\ defined'.size \in [memory : Nat, cpu : CpuValues]
<1> DEFINE mem  == TotalMemory(defs)
           cpu  == TotalCpu(defs)
           M    == TaskMemory(mem)
           c    == TaskCpu(M, cpu)
           size == [memory |-> M, cpu |-> c]
<1>1. defined'.defs = defs /\ defined'.size = size
  BY DEF DefineTask, TaskMemoryAndCpu
<1>2. mem \in Nat /\ cpu \in Nat /\ cpu <= 65536
  BY TotalsNat
<1> HIDE DEF mem, cpu
<1>3. /\ M \in Nat /\ M >= mem /\ M < mem + 1024 /\ M >= 512
      /\ M = 512 \/ \E k \in Nat : k >= 1 /\ M = k * 1024
  BY <1>2, MemoryRounded
<1> HIDE DEF M
<1>4. /\ c \in CpuValues /\ c >= cpu
      /\ M <= GB(30) =>
           /\ M <= MostMemory(c)
           /\ \A less \in CpuValues : less >= cpu /\ less < c => M > MostMemory(less)
      /\ Offered([memory |-> M, cpu |-> c])
           <=> c <= 4096 /\ LeastMemory(c) <= M /\ M <= GB(30)
  BY <1>2, <1>3, CpuFits
<1> HIDE DEF c
<1>5. size.memory = M /\ size.cpu = c /\ size \in [memory : Nat, cpu : CpuValues]
  BY <1>3, <1>4
<1> QED BY <1>1, <1>3, <1>4, <1>5 DEF TaskSized, mem, cpu

(***************************************************************************)
(* Any number of containers with any reservations get a Fargate task that  *)
(* is large enough for them, less than one GB larger, and with the least   *)
(* cpu that is enough; Fargate offers that size exactly when the cpu is no *)
(* more than 4096, the memory no more than 30 GB, and the memory, which    *)
(* is never raised for the cpu, at least twice the cpu                     *)
(* (aws/service.ts 540-596).                                               *)
(***************************************************************************)
THEOREM TaskSizedCorrect == Spec => []TaskSized
<1>1. Init => TaskSized
  BY DEF Init, None, TaskSized, Is
<1>2. TaskSized /\ [Next]_vars => TaskSized'
  <2> SUFFICES ASSUME TaskSized, [Next]_vars PROVE TaskSized'
    OBVIOUS
  <2>1. CASE defined' = defined
    BY <2>1 DEF TaskSized, Is
  <2>2. ASSUME defined'.kind # "task" PROVE TaskSized'
    BY <2>2 DEF TaskSized, Is
  <2> QED BY <2>1, <2>2, TaskStep, OneDefinition
<1> QED BY <1>1, <1>2, PTL DEF Spec

-----------------------------------------------------------------------------
\* The numbers of a time span are within the bounds of its two forms.
LEMMA SpanTyped ==
  ASSUME NEW rate \in Rates, ~IsRefused(AzureInterval(rate))
  PROVE  \/ AzureInterval(rate).span \in (0..23) \X (0..59) \X (0..59)
         \/ AzureInterval(rate).span \in Nat \X (0..23) \X (0..59)
<1> DEFINE minutes == Minutes(rate)
<1>1. minutes \in Nat
  BY MinutesNat
<1>2. AzureInterval(rate) =
        IF minutes < 1 THEN Refused
        ELSE IF minutes >= 34560
             THEN [span |-> <<minutes \div 1440, (minutes % 1440) \div 60, minutes % 60>>]
        ELSE IF minutes < 1440
             THEN [span |-> <<(minutes * 60) \div 3600, ((minutes * 60) % 3600) \div 60,
                              (minutes * 60) % 60>>]
        ELSE Refused
  BY DEF AzureInterval, ConvertMinutesToDD_HH_MM, ConvertSecondsToHH_MM_SS,
         minutesInOneHour, minutesInOneDay, minutesIn24Days
<1>3. ~(minutes < 1) /\ (minutes >= 34560 \/ minutes < 1440)
  BY <1>1, <1>2 DEF IsRefused, Refused
<1> HIDE DEF minutes
<1>4. CASE minutes >= 34560
  <2>1. /\ minutes \div 1440 \in Nat /\ (minutes % 1440) \in 0..1439 /\ minutes % 60 \in 0..59
    BY <1>1
  <2>2. \A m \in 0..1439 : m \div 60 \in 0..23
    OBVIOUS
  <2>3. AzureInterval(rate).span = <<minutes \div 1440, (minutes % 1440) \div 60, minutes % 60>>
    BY <1>2, <1>3, <1>4
  <2> QED BY <2>1, <2>2, <2>3
<1>5. CASE minutes < 1440
  <2>1. (minutes * 60) \div 3600 \in 0..23 /\ (minutes * 60) % 3600 \in 0..3599
        /\ (minutes * 60) % 60 \in 0..59
    BY <1>1, <1>5
  <2>2. \A s \in 0..3599 : s \div 60 \in 0..59
    OBVIOUS
  <2>3. AzureInterval(rate).span = <<(minutes * 60) \div 3600, ((minutes * 60) % 3600) \div 60,
                                     (minutes * 60) % 60>>
    <3>1. ~(minutes >= 34560)
      BY <1>1, <1>5
    <3> QED BY <1>2, <1>3, <1>5, <3>1
  <2> QED BY <2>1, <2>2, <2>3
<1> QED BY <1>3, <1>4, <1>5

\* What is declared as static is of that kind; the rest is part of ApiInv.
LEMMA ApiTyped == ApiInv => ApiTypeOK
<1> SUFFICES ASSUME ApiInv
             PROVE  ApiTypeOK
  OBVIOUS
<1> DEFINE S == [kind : {"static"}, path : RawPaths]
           s == declared["static"]
<1>1. s \in Seq(Declarations) /\ \A i \in DOMAIN s : s[i].kind = "static"
  BY DEF ApiInv, DeclaredOK, Kinds
<1>2. ASSUME NEW d \in Declarations, d.kind = "static" PROVE d \in S
  <2> DEFINE R == RawPaths
             T == Targets
  <2>1. /\ \A e \in [kind : {"proxy"}, path : R, target : T] : e.kind = "proxy"
        /\ \A e \in [kind : {"route"}, path : R, method : Methods] : e.kind = "route"
        /\ \A e \in [kind : {"domain"}, domain : DomainNames] : e.kind = "domain"
    <3> HIDE DEF R, T
    <3> QED OBVIOUS
  <2> QED BY <1>2, <2>1 DEF Declarations
<1> HIDE DEF S, s
<1>3. ASSUME NEW i \in DOMAIN s PROVE s[i] \in S
  <2>1. s[i] \in Declarations
    BY <1>1
  <2> QED BY <1>1, <1>2, <2>1
<1>4. s \in Seq(S)
  <2>1. Len(s) \in Nat /\ s \in [1..Len(s) -> S]
    <3>1. \A A : \A t \in Seq(A) : /\ Len(t) \in Nat /\ DOMAIN t = 1..Len(t)
                                   /\ t = [i \in DOMAIN t |-> t[i]]
      BY ONLY TRUE
    <3> QED BY ONLY <1>1, <1>3, <3>1
  <2> QED BY ONLY <2>1
<1>5. outcome = "none" <=> deployment = Absent
  BY DEF ApiInv, IsServed, NotServed
<1> QED BY <1>4, <1>5 DEF ApiInv, ApiTypeOK, S, s

(***************************************************************************)
(* Whatever is defined: the numbers of a time span and the size of a task  *)
(* stay within what a cloud has, static declarations are of static files,  *)
(* and an API has an outcome only when it has a deployment.                *)
(***************************************************************************)
THEOREM TypeCorrect == Spec => []TypeOK
<1> DEFINE Inv == ApiInv /\ TypeOK
<1>1. Init => Inv
  BY ApiInvInit, ApiTyped DEF Init, None, TypeOK, Is
<1>2. Inv /\ [Next]_vars => Inv'
  <2> SUFFICES ASSUME Inv, [Next]_vars PROVE Inv'
    OBVIOUS
  <2>1. ApiInv'
    BY ApiInvStep
  <2>2. ApiTypeOK'
    BY <2>1, ApiTyped, PTL
  <2>3. CASE defined' = defined
    BY <2>1, <2>2, <2>3 DEF TypeOK, Is
  <2>4. CASE defined' # defined
    <3>1. defined'.kind \in {"interval", "daily", "hourly", "task", "network", "name", "service"}
      BY <2>4, OneDefinition
    <3>2. CASE defined'.kind = "interval"
      <4>1. PICK rate \in Rates : DefineInterval(rate)
        BY <2>4, <3>2, OneDefinition
      <4>2. defined'.azure = AzureInterval(rate)
        BY <4>1 DEF DefineInterval
      <4> QED BY <2>1, <2>2, <3>1, <3>2, <4>2, SpanTyped DEF TypeOK, Is
    <3>3. CASE defined'.kind = "task"
      <4>1. PICK defs \in TaskContainers : DefineTask(defs)
        BY <2>4, <3>3, OneDefinition
      <4> QED BY <2>1, <2>2, <3>1, <3>3, <4>1, TaskStep DEF TypeOK, Is
    <3>4. CASE defined'.kind \notin {"interval", "task"}
      BY <2>1, <2>2, <3>1, <3>4 DEF TypeOK, Is
    <3> QED BY <3>2, <3>3, <3>4
  <2> QED BY <2>3, <2>4
<1>3. Inv => TypeOK
  OBVIOUS
<1> QED BY <1>1, <1>2, <1>3, PTL DEF Spec
=============================================================================
