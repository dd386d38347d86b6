---------------------------- MODULE TaskRunsProofs ----------------------------
(***************************************************************************)
(* Proofs about TaskRuns for any number of runs, tasks, objects, variables *)
(* and changes of the objects.  The override of one run rests on two facts *)
(* about the others and the program: none of the runs touches another's    *)
(* list env, and until a run reads its object, the value it has is among   *)
(* those it was held to have.                                              *)
(***************************************************************************)
EXTENDS TaskRuns, TLAPS

\* A run that was started has a task.
TaskKnown == \A r \in Runs : pc[r] # "none" => task[r] \in Tasks

Typed == TypeOK /\ TaskKnown

LEMMA OneMore ==
  \A m \in Nat : \A n \in 0..m : n < m => n + 1 \in 0..m
OBVIOUS

LEMMA AddedType ==
  ASSUME NEW into \in Variables, NEW e \in Variables
  PROVE  Added(into, e) \in Variables
BY DEF Added, Variables

LEMMA AssignedType ==
  ASSUME NEW e \in Variables, NEW from \in Variables
  PROVE  Assigned(e, from) \in Variables
BY DEF Assigned, Variables

LEMMA NothingType == Nothing \in Variables
BY DEF Nothing, Variables

LEMMA ContainerType ==
  ASSUME Typed, NEW r \in Runs, pc[r] # "none"
  PROVE  Environment[task[r]] \in Variables
BY EnvironmentAssumption DEF Typed, TaskKnown, Variables

LEMMA SeenType ==
  ASSUME Typed, NEW r \in Runs, pc[r] # "none"
  PROVE  Seen(r) \in Variables
<1>1. Environment[task[r]] \in Variables /\ env[r] \in Variables
  BY ContainerType DEF Typed, TypeOK
<1> QED BY <1>1 DEF Seen, Variables

LEMMA InitTyped == Init => Typed
<1> SUFFICES ASSUME Init PROVE Typed
  OBVIOUS
<1> USE DEF Init
<1>1. secured \in BOOLEAN
  OBVIOUS
<1>2. /\ object \in [Objects -> Variables] /\ env \in [Runs -> Variables]
      /\ held \in [Runs -> SUBSET Variables] /\ changes \in 0..MaxChanges
  BY NothingType, MaxChangesAssumption
<1>3. launched \in [Runs -> SUBSET Variables]
  OBVIOUS
<1>4. TaskKnown
  BY DEF TaskKnown
<1> QED BY <1>1, <1>2, <1>3, <1>4 DEF Typed, TypeOK, Ended

LEMMA NextTyped == Typed /\ [Next]_vars => Typed'
<1> SUFFICES ASSUME Typed, [Next]_vars PROVE Typed'
  OBVIOUS
<1> USE DEF Typed, TypeOK, TaskKnown, setup, Ended
<1>1. ASSUME NEW o \in Objects, NEW k \in Keys, NEW v \in Values \cup {None, ""},
             SetVariable(o, k, v)
      PROVE  Typed'
  <2>1. [object[o] EXCEPT ![k] = v] \in Variables
    BY DEF Variables
  <2>2. object' \in [Objects -> Variables] /\ held' \in [Runs -> SUBSET Variables]
    BY <1>1, <2>1 DEF SetVariable
  <2>3. changes' \in 0..MaxChanges
    <3>1. changes \in 0..MaxChanges /\ changes < MaxChanges /\ changes' = changes + 1
      BY <1>1 DEF SetVariable
    <3> QED BY ONLY <3>1, MaxChangesAssumption, OneMore
  <2> QED BY <1>1, <2>2, <2>3 DEF SetVariable
<1>2. ASSUME NEW r \in Runs, NEW t \in Tasks, NEW o \in Objects \cup {None}, Run(r, t, o)
      PROVE  Typed'
  <2>1. (IF o = None THEN Nothing ELSE object[o]) \in Variables
    BY NothingType
  <2>2. held' \in [Runs -> SUBSET Variables]
    BY <1>2, <2>1 DEF Run
  <2>3. \A q \in Runs : pc'[q] # "none" => task'[q] \in Tasks
    BY <1>2 DEF Run
  <2> QED BY <1>2, <2>2, <2>3 DEF Run
<1>3. ASSUME NEW r \in Runs, AddContainerEnvironment(r) PROVE Typed'
  <2>1. Added(Nothing, Environment[task[r]]) \in Variables
    BY <1>3, ContainerType, NothingType, AddedType DEF AddContainerEnvironment
  <2> QED BY <1>3, <2>1 DEF AddContainerEnvironment
<1>4. ASSUME NEW r \in Runs, AddOptionsEnvironment(r) PROVE Typed'
  <2>1. options[r] # None => Added(env[r], object[options[r]]) \in Variables
    BY AddedType
  <2> QED BY <1>4, <2>1 DEF AddOptionsEnvironment
<1>5. ASSUME NEW r \in Runs, LogIn(r) PROVE Typed'
  <2>1. Environment[task[r]] \in Variables
    BY <1>5, ContainerType DEF LogIn
  <2>2. options[r] # None => Assigned(object[options[r]], Environment[task[r]]) \in Variables
    BY <2>1, AssignedType
  <2>3. env' \in [Runs -> Variables] /\ object' \in [Objects -> Variables]
    BY <1>5, <2>1, <2>2 DEF LogIn
  <2>4. TaskKnown'
    BY <1>5 DEF LogIn
  <2> QED BY <1>5, <2>3, <2>4 DEF LogIn
<1>6. ASSUME NEW r \in Runs, LogInFails(r) PROVE Typed'
  BY <1>6 DEF LogInFails, Reject
<1>7. ASSUME NEW r \in Runs, NEW how \in Answers, Answer(r, how) PROVE Typed'
  <2>1. Seen(r) \in Variables
    BY <1>7, SeenType DEF Answer
  <2>2. launched' = launched \/ launched' = [launched EXCEPT ![r] = launched[r] \cup {Seen(r)}]
    BY <1>7 DEF Answer, Start
  <2>3. launched[r] \cup {Seen(r)} \in SUBSET Variables
    BY <2>1
  <2>4. launched' \in [Runs -> SUBSET Variables]
    BY <2>2, <2>3
  <2> QED BY <1>7, <2>4 DEF Answer
<1>8. CASE UNCHANGED vars
  BY <1>8 DEF vars
<1> QED BY <1>1, <1>2, <1>3, <1>4, <1>5, <1>6, <1>7, <1>8 DEF Next

LEMMA TypedAlways == Spec => []Typed
BY InitTyped, NextTyped, PTL DEF Spec

(***************************************************************************)
(* Every variable of the runs keeps its type, on both clouds.              *)
(***************************************************************************)
THEOREM TypeCorrect == Spec => []TypeOK
<1>1. Typed => TypeOK
  BY DEF Typed
<1> QED BY <1>1, TypedAlways, PTL

-----------------------------------------------------------------------------
(* AWS *)

Call(r, e) == Added(Added(Nothing, Environment[task[r]]), e)

\* The value of the object a run was given.
Given(r) == IF options[r] = None THEN Nothing ELSE object[options[r]]

Overridden(r) ==
  \A seen \in launched[r] : \E e \in held[r] : \A k \in Keys :
    seen[k] = IF e[k] \in {None, ""} THEN Environment[task[r]][k] ELSE e[k]

\* What a run has collected so far, and the object it was given.
RunOnAws(r) ==
  /\ pc[r] # "logging in"
  /\ Unread(r) => Given(r) \in held[r]
  /\ pc[r] = "none" => launched[r] = {}
  /\ Pending(r) => launched[r] = {}
  /\ pc[r] = "adding" => env[r] = Added(Nothing, Environment[task[r]])
  /\ pc[r] = "calling" => secured /\ \E e \in held[r] : env[r] = Call(r, e)
  /\ Overridden(r)

OnAws == cloud = "aws" => \A r \in Runs : RunOnAws(r)

LEMMA CallOverrides ==
  ASSUME Typed, cloud = "aws", NEW r \in Runs, NEW e, env[r] = Call(r, e), NEW k \in Keys
  PROVE  Seen(r)[k] = IF e[k] \in {None, ""} THEN Environment[task[r]][k] ELSE e[k]
BY DEF Call, Seen, Added, Nothing

LEMMA AddedNothing ==
  ASSUME NEW e \in Variables
  PROVE  Added(e, Nothing) = e
BY DEF Added, Nothing, Variables

LEMMA StillOverridden ==
  ASSUME NEW q \in Runs, Overridden(q), task'[q] = task[q], launched'[q] = launched[q],
         held[q] \subseteq held'[q]
  PROVE  Overridden(q)'
<1> DEFINE S(t, seen, e) == \A k \in Keys :
             seen[k] = IF e[k] \in {None, ""} THEN Environment[t][k] ELSE e[k]
<1>1. Overridden(q) <=> \A seen \in launched[q] : \E e \in held[q] : S(task[q], seen, e)
  BY DEF Overridden
<1>2. Overridden(q)' <=> \A seen \in launched'[q] : \E e \in held'[q] : S(task'[q], seen, e)
  BY DEF Overridden
<1> HIDE DEF S
<1> QED BY <1>1, <1>2

\* A run that is not touched stays as it is, whatever is done to its object, if
\* the new value is held while it is unread.
LEMMA OtherRun ==
  ASSUME NEW q \in Runs, RunOnAws(q), secured' = secured,
         pc'[q] = pc[q], options'[q] = options[q], task'[q] = task[q],
         env'[q] = env[q], launched'[q] = launched[q], held[q] \subseteq held'[q],
         Unread(q) => Given(q)' \in held'[q]
  PROVE  RunOnAws(q)'
<1>1. Pending(q)' = Pending(q) /\ Unread(q)' = Unread(q)
  BY DEF Pending, Unread
<1>2. \A e : Call(q, e)' = Call(q, e)
  BY DEF Call
<1>3. Overridden(q)'
  BY StillOverridden DEF RunOnAws
<1>4. pc[q] = "calling" => \E e \in held'[q] : env'[q] = Call(q, e)'
  BY <1>2 DEF RunOnAws
<1> HIDE DEF Given
<1> QED BY <1>1, <1>3, <1>4 DEF RunOnAws

\* Nor does it change when nothing that is said of it does.
LEMMA SameRun ==
  ASSUME NEW q \in Runs, RunOnAws(q), secured' = secured, object' = object,
         pc'[q] = pc[q], options'[q] = options[q], task'[q] = task[q],
         env'[q] = env[q], launched'[q] = launched[q], held'[q] = held[q]
  PROVE  RunOnAws(q)'
<1>1. Given(q)' = Given(q)
  BY DEF Given
<1>2. Unread(q) => Given(q)' \in held'[q]
  BY <1>1 DEF RunOnAws
<1>3. held[q] \subseteq held'[q]
  OBVIOUS
<1> HIDE DEF Given
<1> QED BY <1>2, <1>3, OtherRun

LEMMA InitOnAws == Init => OnAws
BY DEF Init, OnAws, RunOnAws, Pending, Unread, Overridden

LEMMA NextOnAws == Typed /\ OnAws /\ [Next]_vars => OnAws'
<1> SUFFICES ASSUME Typed, OnAws, [Next]_vars, cloud' = "aws", NEW q \in Runs PROVE RunOnAws(q)'
  BY DEF OnAws
<1> USE DEF Typed, TypeOK, setup
<1>0. cloud = "aws" /\ secured' = secured
  BY DEF Next, SetVariable, Run, AddContainerEnvironment, AddOptionsEnvironment, LogIn, LogInFails, Reject, Answer, vars
<1>a. \A r \in Runs : RunOnAws(r)
  BY <1>0 DEF OnAws
<1>1. ASSUME NEW o \in Objects, NEW k \in Keys, NEW v \in Values \cup {None, ""},
             SetVariable(o, k, v)
      PROVE  RunOnAws(q)'
  <2>1. held[q] \subseteq held'[q] /\ options'[q] = options[q]
    BY <1>1 DEF SetVariable
  <2>2. ASSUME Unread(q) PROVE Given(q)' \in held'[q]
    <3>1. Given(q) \in held[q]
      BY <1>a, <2>2 DEF RunOnAws
    <3>2. CASE options[q] = o
      BY <1>1, <2>1, <2>2, <3>2, NoneAssumption DEF SetVariable, Given
    <3>3. CASE options[q] # o
      <4>1. options[q] = None \/ object'[options[q]] = object[options[q]]
        BY <1>1, <3>3 DEF SetVariable
      <4> QED BY <2>1, <3>1, <4>1 DEF Given
    <3> QED BY <3>2, <3>3
  <2>3. /\ pc'[q] = pc[q] /\ task'[q] = task[q] /\ env'[q] = env[q]
        /\ launched'[q] = launched[q]
    BY <1>1 DEF SetVariable
  <2> HIDE DEF Typed, TypeOK
  <2> QED BY <1>0, <1>a, <2>1, <2>2, <2>3, OtherRun
<1>2. ASSUME NEW r \in Runs, NEW t \in Tasks, NEW o \in Objects \cup {None}, Run(r, t, o)
      PROVE  RunOnAws(q)'
  <2>1. CASE q # r
    BY <1>0, <1>a, <1>2, <2>1, SameRun DEF Run
  <2>2. CASE q = r
    <3>1. pc'[q] = "importing" /\ options'[q] = o /\ launched'[q] = {} /\ object' = object
      BY <1>0, <1>a, <1>2, <2>2 DEF Run, RunOnAws
    <3>2. Given(q)' \in held'[q]
      BY <1>2, <2>2, <3>1 DEF Run, Given
    <3> HIDE DEF Typed, TypeOK
    <3> QED BY ONLY <3>1, <3>2 DEF RunOnAws, Overridden, Pending
  <2> QED BY <2>1, <2>2
<1>3. ASSUME NEW r \in Runs, AddContainerEnvironment(r) PROVE RunOnAws(q)'
  <2>1. CASE q # r
    BY <1>0, <1>a, <1>3, <2>1, SameRun DEF AddContainerEnvironment
  <2>2. CASE q = r
    <3>1. Pending(q) /\ pc'[q] = "adding" /\ env'[q] = Added(Nothing, Environment[task[q]])
      BY <1>3, <2>2 DEF AddContainerEnvironment, Pending, Ended
    <3>2. options' = options /\ launched' = launched /\ object' = object /\ held' = held /\ task' = task
      BY <1>3 DEF AddContainerEnvironment
    <3>3. Unread(q) /\ Given(q)' = Given(q)
      BY <1>3, <2>2, <3>2 DEF AddContainerEnvironment, Unread, Given
    <3>4. Overridden(q)'
      BY <1>a, <3>2, StillOverridden DEF RunOnAws
    <3> HIDE DEF Typed, TypeOK
    <3> QED BY <1>a, <3>1, <3>2, <3>3, <3>4 DEF RunOnAws
  <2> QED BY <2>1, <2>2
<1>4. ASSUME NEW r \in Runs, AddOptionsEnvironment(r) PROVE RunOnAws(q)'
  <2>1. CASE q # r
    BY <1>0, <1>a, <1>4, <2>1, SameRun DEF AddOptionsEnvironment
  <2>2. CASE q = r
    <3>1. Pending(q) /\ pc'[q] = (IF secured THEN "calling" ELSE "rejected")
      BY <1>4, <2>2 DEF AddOptionsEnvironment, Pending, Ended
    <3>2. options' = options /\ launched' = launched /\ object' = object /\ held' = held /\ task' = task
      BY <1>4 DEF AddOptionsEnvironment
    <3>3. env[q] = Added(Nothing, Environment[task[q]]) /\ env[q] \in Variables
      BY <1>a, <1>4, <2>2 DEF AddOptionsEnvironment, RunOnAws
    <3>4. env'[q] = Added(env[q], Given(q))
      BY <1>4, <2>2, <3>3, AddedNothing DEF AddOptionsEnvironment, Given
    <3>5. Unread(q) /\ Given(q) \in held[q] /\ launched[q] = {}
      BY <1>a, <1>4, <2>2, <3>1 DEF AddOptionsEnvironment, Unread, RunOnAws
    <3>6. env'[q] = Call(q, Given(q))'
      <4>1. Given(q)' = Given(q) /\ task'[q] = task[q]
        BY <3>2 DEF Given
      <4> QED BY <3>3, <3>4, <4>1 DEF Call
    <3>7. Given(q)' \in held'[q]
      BY <3>2, <3>5 DEF Given
    <3>8. launched'[q] = {} /\ pc'[q] \notin {"none", "importing", "adding", "logging in"}
      BY <3>1, <3>2, <3>5
    <3>9. Overridden(q)'
      BY <3>8 DEF Overridden
    <3>10. pc'[q] = "calling" => secured'
      BY <1>0, <3>1
    <3>11. \E e \in held'[q] : env'[q] = Call(q, e)'
      BY <3>6, <3>7
    <3> HIDE DEF Typed, TypeOK
    <3> QED BY <3>8, <3>9, <3>10, <3>11 DEF RunOnAws, Unread
  <2> QED BY <2>1, <2>2
<1>5. ASSUME NEW r \in Runs, LogIn(r) \/ LogInFails(r) PROVE RunOnAws(q)'
  BY <1>a, <1>5 DEF LogIn, LogInFails, RunOnAws
<1>6. ASSUME NEW r \in Runs, NEW how \in Answers, Answer(r, how) PROVE RunOnAws(q)'
  <2>1. CASE q # r
    <3>1. launched'[q] = launched[q]
      BY <1>6, <2>1 DEF Answer, Start
    <3>2. pc'[q] = pc[q]
      BY <1>6, <2>1 DEF Answer
    <3> QED BY <1>0, <1>a, <1>6, <3>1, <3>2, SameRun DEF Answer
  <2>2. CASE q = r
    <3>1. PICK e \in held[q] : env[q] = Call(q, e)
      BY <1>a, <1>6, <2>2 DEF Answer, RunOnAws
    <3>6. launched[q] = {}
      BY <1>a, <1>6, <2>2 DEF Answer, RunOnAws, Pending, Ended
    <3>2. pc'[q] \in Ended
      BY <1>6, <2>2 DEF Answer, Ended
    <3>3. \A seen \in launched'[q] : seen = Seen(q)
      BY <1>6, <2>2, <3>6 DEF Answer, Start
    <3>4. held' = held /\ task' = task
      BY <1>6 DEF Answer
    <3>5. Overridden(q)'
      <4>1. \A k \in Keys :
              Seen(q)[k] = IF e[k] \in {None, ""} THEN Environment[task[q]][k] ELSE e[k]
        BY <1>0, <3>1, CallOverrides
      <4> HIDE DEF Typed, TypeOK
      <4> QED BY ONLY <3>1, <3>3, <3>4, <4>1 DEF Overridden
    <3> HIDE DEF Typed, TypeOK
    <3> QED BY <3>2, <3>5 DEF RunOnAws, Pending, Unread, Ended
  <2> QED BY <2>1, <2>2
<1>7. CASE UNCHANGED vars
  BY <1>0, <1>a, <1>7, SameRun DEF vars
<1> QED BY <1>1, <1>2, <1>3, <1>4, <1>5, <1>6, <1>7 DEF Next

LEMMA OnAwsAlways == Spec => []OnAws
<1>1. Typed /\ OnAws /\ [Next]_vars => OnAws'
  BY NextOnAws
<1> QED BY <1>1, InitOnAws, TypedAlways, PTL DEF Spec

(***************************************************************************)
(* For any number of runs with any objects, awaited or not, changed at any *)
(* time or not, a container on AWS sees the variables of its own task,     *)
(* overridden by those that are not empty among the ones its own run's     *)
(* object held at one moment between the call of run and the read          *)
(* (aws/service.ts 919-921, 952-962).                                      *)
(***************************************************************************)
THEOREM RunOverridesCorrect == Spec => []RunOverridesOnAws
<1>1. OnAws => RunOverridesOnAws
  BY DEF OnAws, RunOnAws, Overridden, RunOverridesOnAws, Overrides
<1> QED BY <1>1, OnAwsAlways, PTL

-----------------------------------------------------------------------------
LEMMA NextLaunched == Typed /\ OnAws /\ ResolvedIsLaunched /\ [Next]_vars => ResolvedIsLaunched'
<1> SUFFICES ASSUME Typed, OnAws, ResolvedIsLaunched, [Next]_vars PROVE ResolvedIsLaunched'
  OBVIOUS
<1> USE DEF Typed, TypeOK, setup, ResolvedIsLaunched
<1>1. ASSUME NEW o \in Objects, NEW k \in Keys, NEW v \in Values \cup {None, ""},
             SetVariable(o, k, v)
      PROVE  ResolvedIsLaunched'
  BY <1>1 DEF SetVariable
<1>2. ASSUME NEW r \in Runs, NEW t \in Tasks, NEW o \in Objects \cup {None}, Run(r, t, o)
      PROVE  ResolvedIsLaunched'
  BY <1>2 DEF Run
<1>3. ASSUME NEW r \in Runs, AddContainerEnvironment(r) PROVE ResolvedIsLaunched'
  BY <1>3 DEF AddContainerEnvironment
<1>4. ASSUME NEW r \in Runs, AddOptionsEnvironment(r) PROVE ResolvedIsLaunched'
  BY <1>4 DEF AddOptionsEnvironment
<1>5. ASSUME NEW r \in Runs, LogIn(r) PROVE ResolvedIsLaunched'
  BY <1>5 DEF LogIn
<1>6. ASSUME NEW r \in Runs, LogInFails(r) PROVE ResolvedIsLaunched'
  BY <1>6 DEF LogInFails, Reject
<1>7. ASSUME NEW r \in Runs, NEW how \in Answers, Answer(r, how) PROVE ResolvedIsLaunched'
  <2>1. cloud = "aws" => secured
    BY <1>7 DEF Answer, OnAws, RunOnAws
  <2>2. \A q \in Runs : pc'[q] = "resolved" => launched'[q] # {}
    <3> TAKE q \in Runs
    <3>1. CASE q # r
      BY <1>7, <3>1 DEF Answer, Start
    <3>2. CASE q = r
      BY <1>7, <3>2 DEF Answer, Start
    <3> QED BY <3>1, <3>2
  <2> QED BY <1>7, <2>1, <2>2 DEF Answer
<1>8. CASE UNCHANGED vars
  BY <1>8 DEF vars
<1> QED BY <1>1, <1>2, <1>3, <1>4, <1>5, <1>6, <1>7, <1>8 DEF Next

(***************************************************************************)
(* A run that resolves has started a container, and a cluster without a    *)
(* security group never starts any (aws/service.ts 932, 946-948).          *)
(***************************************************************************)
THEOREM ResolvedIsLaunchedCorrect == Spec => []ResolvedIsLaunched
<1>1. Init => ResolvedIsLaunched
  BY DEF Init, ResolvedIsLaunched
<1>2. Typed /\ OnAws /\ ResolvedIsLaunched /\ [Next]_vars => ResolvedIsLaunched'
  BY NextLaunched
<1> QED BY <1>1, <1>2, TypedAlways, OnAwsAlways, PTL DEF Spec
=============================================================================
