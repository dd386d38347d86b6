------------------------------- MODULE TaskRuns -------------------------------
(***************************************************************************)
(* Running tasks: Task.run of aws/service.ts 905-963 and azure/service.ts  *)
(* 281-374.  A program starts runs of several tasks, with or without the   *)
(* environment variables of an object of its own, awaits them or not, uses *)
(* the object again for the next run, and may change it at any time: a run *)
(* reads its options only after the first await.  Between the awaits of    *)
(* one run the program and the other runs go on.  A run is told what       *)
(* became of its call of the cloud (external), which may fail, and whose   *)
(* answer may be lost.                                                     *)
(***************************************************************************)
EXTENDS Naturals

CONSTANTS Runs, Tasks,
          Objects,      \* the program's objects of environment variables
          Keys,         \* names of variables
          Values,
          Environment,  \* the environment of each task's container
          MaxChanges,   \* bound: how often the program changes an object
          None

ASSUME EnvironmentAssumption == Environment \in [Tasks -> [Keys -> Values \cup {None, ""}]]
ASSUME MaxChangesAssumption == MaxChanges \in Nat
ASSUME NoneAssumption == None \notin Values \cup Objects \cup Tasks

VARIABLES cloud,     \* "aws" or "azure", for the whole program
          secured,   \* the ECS cluster has a security group
          object,    \* the value of each object
          changes,   \* history: how often the program changed one
          pc,        \* how far each run is
          task,      \* the task of each run
          options,   \* options.environment of each run, or None
          env,       \* the variables its call overrides
          launched,  \* history: the environments its containers started with
          held       \* history: the values the program had its object hold
                     \* from the call of the run until the run read it

setup == <<cloud, secured>>
vars  == <<setup, object, changes, pc, task, options, env, launched, held>>

Variables == [Keys -> Values \cup {None, ""}]
Nothing   == [k \in Keys |-> None]
Ended     == {"resolved", "rejected"}
Pending(r) == pc[r] \notin Ended \cup {"none"}
Unread(r)  == pc[r] \in {"importing", "adding", "logging in"}

Init ==
  /\ cloud \in {"aws", "azure"}
  /\ secured \in IF cloud = "aws" THEN BOOLEAN ELSE {TRUE}
  /\ object \in [Objects -> {Nothing}]
  /\ changes = 0
  /\ pc = [r \in Runs |-> "none"]
  /\ task = [r \in Runs |-> None]
  /\ options = [r \in Runs |-> None]
  /\ env = [r \in Runs |-> Nothing]
  /\ launched = [r \in Runs |-> {}]
  /\ held = [r \in Runs |-> {}]

-----------------------------------------------------------------------------
\* The program changes a variable of its object, whichever runs were given it.
SetVariable(o, k, v) ==
  LET changed == [object[o] EXCEPT ![k] = v]
  IN  /\ changes < MaxChanges
      /\ changes' = changes + 1
      /\ object' = [object EXCEPT ![o] = changed]
      /\ held' = [r \in Runs |-> IF options[r] = o /\ Unread(r) THEN held[r] \cup {changed}
                                 ELSE held[r]]
      /\ UNCHANGED <<setup, pc, task, options, env, launched>>

\* task.run(options).
Run(r, t, o) ==
  /\ pc[r] = "none"
  /\ pc' = [pc EXCEPT ![r] = IF cloud = "aws" THEN "importing" ELSE "logging in"]
  /\ task' = [task EXCEPT ![r] = t]
  /\ options' = [options EXCEPT ![r] = o]
  /\ held' = [held EXCEPT ![r] = {IF o = None THEN Nothing ELSE object[o]}]
  /\ UNCHANGED <<setup, object, changes, env, launched>>

Reject(r) ==
  /\ pc' = [pc EXCEPT ![r] = "rejected"]
  /\ UNCHANGED <<setup, object, changes, task, options, env, launched, held>>

-----------------------------------------------------------------------------
(* AWS *)

\* addEnvironmentVariables: an empty value is skipped; a later entry of the
\* list env wins over an earlier one.
Added(into, e) == [k \in Keys |-> IF e[k] \in {None, ""} THEN into[k] ELSE e[k]]

\* Mutant of AddContainerEnvironment: one list for all the runs of a task,
\* emptied by each.
AddContainerEnvironmentShared(r) ==
  /\ pc[r] = "importing"
  /\ pc' = [pc EXCEPT ![r] = "adding"]
  /\ env' = [q \in Runs |-> IF q = r \/ (task[q] = task[r] /\ Pending(q))
                            THEN Added(env[r], Environment[task[r]]) ELSE env[q]]
  /\ UNCHANGED <<setup, object, changes, task, options, launched, held>>

\* The client is imported: containerEnv comes first.
AddContainerEnvironment(r) ==
  /\ pc[r] = "importing"
  /\ pc' = [pc EXCEPT ![r] = "adding"]
  /\ env' = [env EXCEPT ![r] = Added(Nothing, Environment[task[r]])]
  /\ UNCHANGED <<setup, object, changes, task, options, launched, held>>

\* Mutant of AddOptionsEnvironment: what it throws is not the promise's.
AddOptionsEnvironmentUnlinked(r) ==
  /\ pc[r] = "adding"
  /\ pc' = [pc EXCEPT ![r] = IF secured THEN "calling" ELSE @]
  /\ env' = [env EXCEPT ![r] = IF options[r] = None THEN @ ELSE Added(env[r], object[options[r]])]
  /\ UNCHANGED <<setup, object, changes, task, options, launched, held>>

\* Then the options, and then runTask is called with a security group there
\* may be none of.
AddOptionsEnvironment(r) ==
  /\ pc[r] = "adding"
  /\ pc' = [pc EXCEPT ![r] = IF secured THEN "calling" ELSE "rejected"]
  /\ env' = [env EXCEPT ![r] = IF options[r] = None THEN @ ELSE Added(env[r], object[options[r]])]
  /\ UNCHANGED <<setup, object, changes, task, options, launched, held>>

-----------------------------------------------------------------------------
(* Azure *)

\* Object.assign(options.environment, envMap).
Assigned(e, from) == [k \in Keys |-> IF from[k] = None THEN e[k] ELSE from[k]]

\* Mutant of LogIn: the call holds the caller's object, not its variables.
LogInByReference(r) ==
  /\ pc[r] = "logging in"
  /\ pc' = [pc EXCEPT ![r] = "calling"]
  /\ env' = [env EXCEPT ![r] = IF options[r] = None THEN Environment[task[r]] ELSE options[r]]
  /\ UNCHANGED <<setup, object, changes, task, options, launched, held>>

\* The login is answered: the container's variables are assigned to the
\* caller's object, and the call is made with the result.
LogIn(r) ==
  /\ pc[r] = "logging in"
  /\ pc' = [pc EXCEPT ![r] = "calling"]
  /\ LET o == options[r]
         c == Environment[task[r]]
     IN  IF o = None
         THEN env' = [env EXCEPT ![r] = c] /\ UNCHANGED object
         ELSE /\ env' = [env EXCEPT ![r] = Assigned(object[o], c)]
              /\ object' = [object EXCEPT ![o] = Assigned(object[o], c)]
  /\ UNCHANGED <<setup, changes, task, options, launched, held>>

LogInFails(r) == pc[r] = "logging in" /\ Reject(r)

-----------------------------------------------------------------------------
(* The cloud (external): what a started container sees, and the answer. *)

\* ECS overrides the task definition's variables, a container group has its own.
Seen(r) ==
  [k \in Keys |-> IF cloud = "aws" /\ env[r][k] = None THEN Environment[task[r]][k] ELSE env[r][k]]

Start(r) == launched' = [launched EXCEPT ![r] = @ \cup {Seen(r)}]

\* Mutant of Answer: the failures of the result are not looked at.
AnswerUnchecked(r, how) ==
  /\ pc[r] = "calling"
  /\ pc' = [pc EXCEPT ![r] = IF how \in {"started", "failures"} THEN "resolved" ELSE "rejected"]
  /\ IF how \in {"started", "lost"} THEN Start(r) ELSE UNCHANGED launched
  /\ UNCHANGED <<setup, object, changes, task, options, env, held>>

\* The container was started; ECS reports failures; the call failed; it failed
\* although the container was started.
Answer(r, how) ==
  /\ pc[r] = "calling"
  /\ pc' = [pc EXCEPT ![r] = IF how = "started" THEN "resolved" ELSE "rejected"]
  /\ IF how \in {"started", "lost"} THEN Start(r) ELSE UNCHANGED launched
  /\ UNCHANGED <<setup, object, changes, task, options, env, held>>

Answers == IF cloud = "aws" THEN {"started", "failures", "error", "lost"}
           ELSE {"started", "error", "lost"}

Next ==
  \/ \E o \in Objects, k \in Keys, v \in Values \cup {None, ""} : SetVariable(o, k, v)
  \/ \E r \in Runs, t \in Tasks, o \in Objects \cup {None} : Run(r, t, o)
  \/ \E r \in Runs : AddContainerEnvironment(r)
  \/ \E r \in Runs : AddOptionsEnvironment(r)
  \/ \E r \in Runs : LogIn(r)
  \/ \E r \in Runs : LogInFails(r)
  \/ \E r \in Runs, how \in Answers : Answer(r, how)

\* The event loop runs what is due, and the clouds answer.
Fairness ==
  \A r \in Runs : /\ WF_vars(AddContainerEnvironment(r))
                  /\ WF_vars(AddOptionsEnvironment(r))
                  /\ WF_vars(LogIn(r) \/ LogInFails(r))
                  /\ WF_vars(\E how \in Answers : Answer(r, how))

Spec == Init /\ [][Next]_vars /\ Fairness

-----------------------------------------------------------------------------
TypeOK ==
  /\ cloud \in {"aws", "azure"} /\ secured \in BOOLEAN
  /\ object \in [Objects -> Variables] /\ changes \in 0..MaxChanges
  /\ pc \in [Runs -> Ended \cup {"none", "importing", "adding", "logging in", "calling"}]
  /\ task \in [Runs -> Tasks \cup {None}]
  /\ options \in [Runs -> Objects \cup {None}]
  /\ env \in [Runs -> Variables]
  /\ launched \in [Runs -> SUBSET Variables]
  /\ held \in [Runs -> SUBSET Variables]

\* A container sees the variables of its own task, overridden by all those that
\* its own run's object held at one moment from the call of run until the run
\* read it, and no others.  The values in nothing override nothing.
Overrides(nothing) ==
  \A r \in Runs : \A seen \in launched[r] : \E e \in held[r] : \A k \in Keys :
    seen[k] = IF e[k] \in nothing THEN Environment[task[r]][k] ELSE e[k]

(***************************************************************************)
(* "Optional environment variables to override those set in the container  *)
(* definition" (api/service.ts 337), on AWS: whatever other runs are under *)
(* way or were before with the same object, and whatever the program does  *)
(* to the object after it was read.  What it does between the call and the *)
(* read, the container may see.  A variable asked to be empty overrides    *)
(* nothing, which the documentation does not say (aws/service.ts 919-921,  *)
(* 952-962).                                                               *)
(***************************************************************************)
RunOverridesOnAws == cloud = "aws" => Overrides({None, ""})

(***************************************************************************)
(* The same promise on Azure, where an empty variable is one like any      *)
(* other (azure/service.ts 319-328).                                       *)
(***************************************************************************)
RunOverridesOnAzure == cloud = "azure" => Overrides({None})

(***************************************************************************)
(* A run that resolves has started a container; one that could not even be *)
(* asked for, its cluster having no security group, never does either      *)
(* (aws/service.ts 932, 946-948).                                          *)
(***************************************************************************)
ResolvedIsLaunched ==
  \A r \in Runs : /\ pc[r] = "resolved" => launched[r] # {}
                  /\ cloud = "aws" /\ ~secured => launched[r] = {} /\ pc[r] # "resolved"

(***************************************************************************)
(* Every run ends, whatever the others do.                                 *)
(***************************************************************************)
RunsEnd == \A r \in Runs : Pending(r) ~> pc[r] \in Ended
=============================================================================
