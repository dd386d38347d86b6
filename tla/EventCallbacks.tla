--------------------------- MODULE EventCallbacks ---------------------------
(***************************************************************************)
(* The functions behind a subscription to a topic, a bucket or a timer.    *)
(*                                                                         *)
(* AWS (aws/topic.ts 53-71, aws/bucket.ts 95-132, aws/timer.ts 106-116):   *)
(* an invocation starts the user's handler for every record of the event   *)
(* and combines the promises with Promise.all: the first rejection calls   *)
(* the callback with the error, the last resolution calls it without one.  *)
(* Azure (azure/topic.ts 48-59, azure/bucket.ts 95-110, azure/timer.ts     *)
(* 176-186): an event is one record, and context.done is only called when  *)
(* its handler resolves.                                                   *)
(* The clouds (external) retry a failed event, may deliver an event twice  *)
(* and end an invocation that takes too long.                              *)
(***************************************************************************)
EXTENDS Naturals, FiniteSets

CONSTANTS Events, RecordsOf, MaxAttempts,
          AzureEvents,     \* the events whose source is on Azure
          Instances,       \* containers and hosts of the subscriptions' functions
          AzureInstances,  \* those of Azure
          None

ASSUME AttemptsAssumption == MaxAttempts \in Nat \ {0}
ASSUME NoneAssumption     == None \notin Events
ASSUME AzureAssumption    == /\ AzureEvents \subseteq Events
                             /\ AzureInstances \subseteq Instances
                             /\ \A e \in AzureEvents : \E x \in RecordsOf[e] : RecordsOf[e] = {x}

VARIABLES status, attempts, handled,   \* the source's view, as in EventDelivery
          event,    \* the event each instance is handling, or None
          promise,  \* promise[i][x]: state of the handler's promise for x
          answer    \* what the callback was called with

vars   == <<status, attempts, handled, event, promise, answer>>
source == <<status, attempts, handled>>

Records  == UNION {RecordsOf[e] : e \in Events}
Promises == {"unused", "pending", "resolved", "rejected"}

Init ==
  /\ status   = [e \in Events |-> "absent"]
  /\ attempts = [e \in Events |-> 0]
  /\ handled  = [e \in Events |-> {}]
  /\ event    = [i \in Instances |-> None]
  /\ promise  = [i \in Instances |-> [x \in Records |-> "unused"]]
  /\ answer   = [i \in Instances |-> "none"]

\* topic.publish, a put or delete in the bucket, a tick of the timer.
Publish(e) ==
  /\ status[e] = "absent"
  /\ status' = [status EXCEPT ![e] = "pending"]
  /\ UNCHANGED <<attempts, handled, event, promise, answer>>

\* Mutants of AllOf: the callback is given the promise's state; Promise.race;
\* no second argument to then.
AllOfRaw(p, xs, a) ==
  IF a # "none" THEN a
  ELSE IF \E x \in xs : p[x] = "rejected" THEN "rejected"
  ELSE IF \A x \in xs : p[x] = "resolved" THEN "success"
  ELSE "none"
AllOfRace(p, xs, a) ==
  IF a # "none" THEN a
  ELSE IF \E x \in xs : p[x] = "rejected" THEN "error"
  ELSE IF xs = {} \/ \E x \in xs : p[x] = "resolved" THEN "success"
  ELSE "none"
AllOfUncaught(p, xs, a) ==
  IF \A x \in xs : p[x] = "resolved" THEN "success" ELSE a

\* Promise.all(ps).then(() => callback(undefined), err => callback(err)) over
\* the promises p of the records xs, when the callback was called with a so far.
AllOf(p, xs, a) ==
  IF a # "none" THEN a
  ELSE IF \E x \in xs : p[x] = "rejected" THEN "error"
  ELSE IF \A x \in xs : p[x] = "resolved" THEN "success"
  ELSE "none"

\* Mutant of ThenDone: done is called on rejection too.
ThenDoneAlways(p, xs, a) == IF \A x \in xs : p[x] # "pending" THEN "success" ELSE a

\* handler(...).then(() => context.done()): a rejection is told to nobody.
ThenDone(p, xs, a) == IF \A x \in xs : p[x] = "resolved" THEN "success" ELSE a

Answered(e, p, a) ==
  IF e \in AzureEvents THEN ThenDone(p, RecordsOf[e], a) ELSE AllOf(p, RecordsOf[e], a)

\* The cloud delivers e, again if need be; the callback starts every handler.
Invoke(i, e) ==
  /\ event[i] = None
  /\ i \in AzureInstances <=> e \in AzureEvents
  /\ status[e] = "pending"
  /\ event' = [event EXCEPT ![i] = e]
  /\ promise' = [promise EXCEPT ![i] =
       [x \in Records |-> IF x \in RecordsOf[e] THEN "pending" ELSE "unused"]]
  /\ answer' = [answer EXCEPT ![i] = Answered(e, promise'[i], "none")]
  /\ UNCHANGED source

\* The user's handler for x is done: resolved, or rejected for any reason
\* (in a topic also by a synchronous throw or an unparsable message).
Settle(i, x, how) ==
  /\ event[i] # None
  /\ promise[i][x] = "pending"
  /\ promise' = [promise EXCEPT ![i][x] = how]
  /\ answer' = [answer EXCEPT ![i] = Answered(event[i], promise'[i], answer[i])]
  /\ handled' = IF how = "resolved"
                THEN [handled EXCEPT ![event[i]] = @ \cup {x}]
                ELSE handled
  /\ UNCHANGED <<status, attempts, event>>

-----------------------------------------------------------------------------
\* The cloud: a failed attempt of e, and the free instance afterwards.
Attempted(e) ==
  IF status[e] # "pending" THEN UNCHANGED <<status, attempts>>
  ELSE /\ attempts' = [attempts EXCEPT ![e] = @ + 1]
       /\ status' = IF attempts[e] + 1 = MaxAttempts
                    THEN [status EXCEPT ![e] = "dead"] ELSE status

Free(i) ==
  /\ event' = [event EXCEPT ![i] = None]
  /\ promise' = [promise EXCEPT ![i] = [x \in Records |-> "unused"]]
  /\ answer' = [answer EXCEPT ![i] = "none"]
  /\ UNCHANGED handled

\* callbackWaitsForEmptyEventLoop is left set: Lambda takes the answer when
\* no handler is pending any more.  An Azure event has one handler only.
LoopEmpty(i) == \A x \in Records : promise[i][x] # "pending"

Succeed(i) ==
  /\ event[i] # None
  /\ answer[i] = "success"
  /\ LoopEmpty(i)
  /\ status' = IF status[event[i]] = "pending"
               THEN [status EXCEPT ![event[i]] = "done"] ELSE status
  /\ UNCHANGED attempts
  /\ Free(i)

Fail(i) ==
  /\ event[i] # None
  /\ answer[i] = "error"
  /\ LoopEmpty(i)
  /\ Attempted(event[i])
  /\ Free(i)

\* The time limit, a crash, or a throw that leaves the callback (a bucket's or
\* a timer's handler that throws before it returns a promise, on Azure also a
\* message that does not parse).
Kill(i) ==
  /\ event[i] # None
  /\ Attempted(event[i])
  /\ Free(i)

\* Azure: the host's functionTimeout ends an invocation that will never call
\* context.done.
TimeOut(i) ==
  /\ i \in AzureInstances
  /\ answer[i] = "none"
  /\ LoopEmpty(i)
  /\ Kill(i)

Next ==
  \/ \E e \in Events : Publish(e)
  \/ \E i \in Instances, e \in Events : Invoke(i, e)
  \/ \E i \in Instances, x \in Records, how \in {"resolved", "rejected"} : Settle(i, x, how)
  \/ \E i \in Instances : Succeed(i)
  \/ \E i \in Instances : Fail(i)
  \/ \E i \in Instances : Kill(i)

\* The clouds keep delivering a pending event and take an answer they are given;
\* the promise of a handler settles.  Nothing obliges Lambda to kill anything;
\* Azure has to, for want of an answer.
Fairness ==
  /\ \A i \in Instances, e \in Events : WF_vars(Invoke(i, e))
  /\ \A i \in Instances, x \in Records :
       WF_vars(\E how \in {"resolved", "rejected"} : Settle(i, x, how))
  /\ \A i \in Instances : WF_vars(Succeed(i) \/ Fail(i))
  /\ \A i \in Instances : WF_vars(TimeOut(i))

Spec == Init /\ [][Next]_vars /\ Fairness

-----------------------------------------------------------------------------
TypeOK ==
  /\ status   \in [Events -> {"absent", "pending", "done", "dead"}]
  /\ attempts \in [Events -> Nat]
  /\ handled  \in [Events -> SUBSET Records]
  /\ event    \in [Instances -> Events \cup {None}]
  /\ promise  \in [Instances -> [Records -> Promises]]
  /\ answer   \in [Instances -> {"none", "success", "error"}]

(***************************************************************************)
(* A source is told an event is done only when the handler of every one of *)
(* its records has resolved: no record is lost because another one was     *)
(* fast, or failed (aws/topic.ts 57-59, aws/bucket.ts 111-114,             *)
(* azure/topic.ts 54).                                                     *)
(***************************************************************************)
DoneMeansHandled ==
  \A e \in Events : status[e] = "done" => handled[e] = RecordsOf[e]

(***************************************************************************)
(* An invocation one of whose handlers rejected always ends: on AWS        *)
(* without help of the time limit, because the callback is called          *)
(* (aws/topic.ts 57-59, aws/timer.ts 109-113), on Azure by it.  That it    *)
(* does not end as a success is DoneMeansHandled.                          *)
(***************************************************************************)
FailureIsReported ==
  \A i \in Instances, e \in Events :
    (event[i] = e /\ \E x \in Records : promise[i][x] = "rejected") ~> (event[i] = None)

(***************************************************************************)
(* The functions keep the promise made to subscribers (api/topic.ts 47,    *)
(* 62-76): the module's Spec refines the one of EventDelivery, its         *)
(* fairness included.                                                      *)
(***************************************************************************)
Promise  == INSTANCE EventDelivery
              WITH status <- status, attempts <- attempts, handled <- handled
Delivers == Promise!Spec
=============================================================================
