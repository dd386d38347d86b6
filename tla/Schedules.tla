------------------------------ MODULE Schedules ------------------------------
(***************************************************************************)
(* The schedules of timers: what aws/timer.ts and azure/timer.ts make of   *)
(* the arguments of interval, daily and hourly (api/timer.ts), and how the *)
(* two clouds (external) read the result.                                  *)
(***************************************************************************)
EXTENDS Integers, Sequences, Values

minutesInOneHour == 60
minutesInOneDay  == minutesInOneHour * 24
minutesIn24Days  == 24 * minutesInOneDay

-----------------------------------------------------------------------------
\* An IntervalRate: numbers of minutes, hours and days, 0 when absent.
Minutes(rate) ==
  rate.minutes + rate.hours * minutesInOneHour + rate.days * minutesInOneDay

\* AWS: `rate(n minute)` or `rate(n minutes)`.
AwsInterval(rate) ==
  IF Minutes(rate) < 1 THEN Refused
  ELSE [value |-> Minutes(rate),
        unit  |-> IF Minutes(rate) = 1 THEN "minute" ELSE "minutes"]

\* Mutant of ConvertMinutesToDD_HH_MM: the rest of the days is not taken off.
ConvertMinutesKeepingDays(minutes) ==
  <<minutes \div minutesInOneDay,
    minutes \div minutesInOneHour,
    minutes % minutesInOneHour>>

ConvertMinutesToDD_HH_MM(minutes) ==
  <<minutes \div minutesInOneDay,
    (minutes % minutesInOneDay) \div minutesInOneHour,
    minutes % minutesInOneHour>>

\* Whole minutes leave no seconds.
ConvertSecondsToHH_MM_SS(seconds) ==
  <<seconds \div 3600, (seconds % 3600) \div 60, seconds % 60>>

\* Mutant of AzureInterval: the days are written as hours.
AzureIntervalInHours(rate) ==
  IF Minutes(rate) < 1 THEN Refused
  ELSE [span |-> ConvertSecondsToHH_MM_SS(Minutes(rate) * 60)]

\* Azure: a time span; those between one and 24 days cannot be written.
AzureInterval(rate) ==
  LET minutes == Minutes(rate)
  IN  IF minutes < 1 THEN Refused
      ELSE IF minutes >= minutesIn24Days
           THEN [span |-> ConvertMinutesToDD_HH_MM(minutes)]
      ELSE IF minutes < minutesInOneDay
           THEN [span |-> ConvertSecondsToHH_MM_SS(minutes * 60)]
      ELSE Refused

-----------------------------------------------------------------------------
\* A field of a cron expression that matches everything: `*`, or `?`.
Every == -1

\* The first argument of daily and hourly after the name: the handler itself,
\* a schedule, or nothing.
ScheduleOrHandler(hours, minutes) ==
  {[is |-> "function"], [is |-> "missing"]}
    \cup [is : {"schedule"}, hourUTC : hours, minuteUTC : minutes]

\* Mutant of Daily: the hour before the minute.
DailySwapped(arg) ==
  CASE arg.is = "missing"  -> Refused
    [] arg.is = "function" -> [cron |-> <<0, 0, Every, Every, Every, Every>>]
    [] arg.is = "schedule" -> [cron |-> <<arg.hourUTC, arg.minuteUTC,
                                          Every, Every, Every, Every>>]

\* AWS.
Daily(arg) ==
  CASE arg.is = "missing"  -> Refused
    [] arg.is = "function" -> [cron |-> <<0, 0, Every, Every, Every, Every>>]
    [] arg.is = "schedule" -> [cron |-> <<arg.minuteUTC, arg.hourUTC,
                                          Every, Every, Every, Every>>]

Hourly(arg) ==
  CASE arg.is = "missing"  -> Refused
    [] arg.is = "function" -> [cron |-> <<0, Every, Every, Every, Every, Every>>]
    [] arg.is = "schedule" -> [cron |-> <<arg.minuteUTC, Every,
                                          Every, Every, Every, Every>>]

\* Azure writes the same six fields.
AzureDaily(arg)  == Daily(arg)
AzureHourly(arg) == Hourly(arg)

-----------------------------------------------------------------------------
(* How the clouds read it. *)

Matches(field, all) == IF field = Every THEN all ELSE {field}

\* When an expression fires within a day.  AWS: minutes, hours, day of month,
\* month, day of week, year.  Azure (NCRONTAB): seconds, minutes, hours, ...
AwsFires(cron) == [second |-> {0}, minute |-> Matches(cron[1], 0..59),
                   hour   |-> Matches(cron[2], 0..23)]
AzureFires(cron) == [second |-> Matches(cron[1], 0..59), minute |-> Matches(cron[2], 0..59),
                     hour   |-> Matches(cron[3], 0..23)]

\* AWS refuses `rate(1 minutes)` and `rate(2 minute)`.
AwsPeriod(i) ==
  IF (i.value = 1) = (i.unit = "minute") THEN i.value * 60 ELSE 0

\* Azure takes the first number for days when it is no hour of a day.
AzurePeriod(i) ==
  IF i.span[1] >= 24
  THEN i.span[1] * 86400 + i.span[2] * 3600 + i.span[3] * 60
  ELSE i.span[1] * 3600 + i.span[2] * 60 + i.span[3]
=============================================================================
