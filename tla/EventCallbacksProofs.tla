------------------------ MODULE EventCallbacksProofs ------------------------
(***************************************************************************)
(* Theorems about EventCallbacks, for any events, batch sizes, number of   *)
(* attempts, and number of instances on either cloud.                      *)
(***************************************************************************)
EXTENDS EventCallbacks, TLAPS

(***************************************************************************)
(* The type invariant holds in every reachable state.                      *)
(***************************************************************************)
THEOREM TypeCorrect == Spec => []TypeOK
<1>1. Init => TypeOK
  BY AttemptsAssumption, SMT DEF Init, TypeOK, Promises
<1>2. TypeOK /\ [Next]_vars => TypeOK'
  <2> SUFFICES ASSUME TypeOK, [Next]_vars PROVE TypeOK'
    OBVIOUS
  <2> USE DEF TypeOK
  <2>0. \A e \in Events : RecordsOf[e] \subseteq Records
    BY DEF Records
  <2>1. ASSUME NEW e \in Events, Publish(e) PROVE TypeOK'
    BY <2>1 DEF Publish
  <2>2. ASSUME NEW i \in Instances, NEW e \in Events, Invoke(i, e) PROVE TypeOK'
    BY <2>2 DEF Invoke, Answered, ThenDone, AllOf, source, Promises
  <2>3. ASSUME NEW i \in Instances, NEW x \in Records, NEW how \in {"resolved", "rejected"},
               Settle(i, x, how)
        PROVE  TypeOK'
    BY <2>3 DEF Settle, Answered, ThenDone, AllOf, Promises
  <2>4. ASSUME NEW e \in Events, Attempted(e)
        PROVE  /\ attempts' \in [Events -> Nat]
               /\ status' \in [Events -> {"absent", "pending", "done", "dead"}]
    BY <2>4, SMT DEF Attempted
  <2>5. ASSUME NEW i \in Instances, Free(i)
        PROVE  /\ event' \in [Instances -> Events \cup {None}]
               /\ promise' \in [Instances -> [Records -> Promises]]
               /\ answer' \in [Instances -> {"none", "success", "error"}]
               /\ handled' \in [Events -> SUBSET Records]
    BY <2>5 DEF Free, Promises
  <2>6. ASSUME NEW i \in Instances, Succeed(i) PROVE TypeOK'
    BY <2>5, <2>6 DEF Succeed
  <2>7. ASSUME NEW i \in Instances, event[i] \in Events, Attempted(event[i]), Free(i)
        PROVE  TypeOK'
    BY <2>4, <2>5, <2>7
  <2>8. ASSUME NEW i \in Instances, Fail(i) PROVE TypeOK'
    BY <2>7, <2>8 DEF Fail
  <2>9. ASSUME NEW i \in Instances, Kill(i) PROVE TypeOK'
    BY <2>7, <2>9 DEF Kill
  <2>10. QED
    BY <2>1, <2>2, <2>3, <2>6, <2>8, <2>9 DEF Next, vars
<1>3. QED
  BY <1>1, <1>2, PTL DEF Spec

-----------------------------------------------------------------------------
\* What an instance knows of the event it handles.  The last part says what
\* an answer is worth: success is only said when every promise resolved.
InstanceInv(i) ==
  event[i] # None =>
    /\ \A x \in Records : promise[i][x] # "unused" => x \in RecordsOf[event[i]]
    /\ \A x \in Records : promise[i][x] = "resolved" => x \in handled[event[i]]
    /\ answer[i] = "success" => \A x \in RecordsOf[event[i]] : promise[i][x] = "resolved"
    /\ status[event[i]] # "absent"

HandledInv == \A e \in Events : handled[e] \subseteq RecordsOf[e]

IInv == HandledInv /\ DoneMeansHandled /\ \A i \in Instances : InstanceInv(i)

(***************************************************************************)
(* A step of one invocation's handlers keeps the invariant.                *)
(***************************************************************************)
LEMMA SettleStep ==
  ASSUME TypeOK, IInv, NEW i \in Instances, NEW x \in Records,
         NEW how \in {"resolved", "rejected"}, Settle(i, x, how)
  PROVE  IInv'
<1> DEFINE e == event[i]
<1>1. /\ e \in Events /\ event[i] # None
      /\ x \in RecordsOf[e]
      /\ handled'[e] = IF how = "resolved" THEN handled[e] \cup {x} ELSE handled[e]
      /\ \A f \in Events : f # e => handled'[f] = handled[f]
      /\ status' = status /\ event' = event
  BY DEF TypeOK, IInv, InstanceInv, Settle
<1>2. \A f \in Events : handled[f] \subseteq handled'[f] /\ handled'[f] \subseteq RecordsOf[f]
  BY <1>1 DEF IInv, HandledInv
<1>3. HandledInv' /\ DoneMeansHandled'
  BY <1>1, <1>2 DEF IInv, HandledInv, DoneMeansHandled
<1>4. ASSUME NEW j \in Instances PROVE InstanceInv(j)'
  <2>1. CASE j # i
    <3>1. promise'[j] = promise[j] /\ answer'[j] = answer[j] /\ event'[j] = event[j]
      BY <2>1, <1>1 DEF Settle, TypeOK
    <3>2. QED
      BY <1>1, <1>2, <3>1 DEF IInv, InstanceInv, TypeOK
  <2>2. CASE j = i
    <3>1. /\ promise'[i] = [promise[i] EXCEPT ![x] = how]
          /\ promise[i] \in [Records -> Promises]
          /\ promise[i][x] = "pending"
      BY <1>1 DEF Settle, TypeOK
    <3>7. answer'[i] = Answered(e, promise'[i], answer[i])
      BY <1>1 DEF Settle, TypeOK
    <3>2. \A y \in Records : promise'[i][y] # "unused" => y \in RecordsOf[e]
      BY <1>1, <3>1 DEF IInv, InstanceInv, TypeOK
    <3>3. \A y \in Records : promise'[i][y] = "resolved" => y \in handled'[e]
      BY <1>1, <1>2, <3>1 DEF IInv, InstanceInv, TypeOK
    <3>4. answer[i] # "success"
      BY <1>1, <3>1 DEF IInv, InstanceInv, TypeOK
    <3>5. answer'[i] = "success" => \A y \in RecordsOf[e] : promise'[i][y] = "resolved"
      BY <3>7, <3>4 DEF Answered, AllOf, ThenDone
    <3>6. QED
      BY <1>1, <2>2, <3>2, <3>3, <3>5 DEF IInv, InstanceInv, TypeOK
  <2>3. QED
    BY <2>1, <2>2
<1>5. QED
  BY <1>3, <1>4 DEF IInv

(***************************************************************************)
(* The end of an invocation: the source was told the event is done only if *)
(* every record of it was handled.                                         *)
(***************************************************************************)
LEMMA EndStep ==
  ASSUME TypeOK, IInv, NEW i \in Instances, event[i] # None, Free(i),
         \/ answer[i] = "success" /\ status' = [status EXCEPT ![event[i]] = "done"]
         \/ UNCHANGED status
         \/ status' = [status EXCEPT ![event[i]] = "dead"]
  PROVE  IInv'
<1>1. event[i] \in Events /\ handled' = handled
  BY DEF TypeOK, Free
<1>2. answer[i] = "success" => RecordsOf[event[i]] \subseteq handled[event[i]]
  BY <1>1 DEF IInv, InstanceInv, Records
<1>3. HandledInv' /\ DoneMeansHandled'
  BY <1>1, <1>2 DEF IInv, HandledInv, DoneMeansHandled, TypeOK
<1>4. ASSUME NEW j \in Instances, event'[j] # None
      PROVE  /\ j # i
             /\ promise'[j] = promise[j] /\ answer'[j] = answer[j] /\ event'[j] = event[j]
             /\ status'[event[j]] # "absent"
  <2>1. j # i /\ promise'[j] = promise[j] /\ answer'[j] = answer[j] /\ event'[j] = event[j]
    BY <1>4 DEF Free, TypeOK
  <2>2. status[event[j]] # "absent" /\ event[j] \in Events
    BY <1>4, <2>1 DEF IInv, InstanceInv, TypeOK
  <2>3. QED
    BY <2>1, <2>2 DEF TypeOK
<1>5. \A j \in Instances : InstanceInv(j)'
  BY <1>1, <1>4 DEF IInv, InstanceInv
<1>6. QED
  BY <1>3, <1>5 DEF IInv

(***************************************************************************)
(* Every step keeps the invariant.                                         *)
(***************************************************************************)
LEMMA InvStep == TypeOK /\ IInv /\ [Next]_vars => IInv'
<1> SUFFICES ASSUME TypeOK, IInv, [Next]_vars PROVE IInv'
  OBVIOUS
<1>1. ASSUME NEW e \in Events, Publish(e) PROVE IInv'
  <2>1. HandledInv' /\ DoneMeansHandled'
    BY <1>1 DEF Publish, IInv, HandledInv, DoneMeansHandled, TypeOK
  <2>2. \A i \in Instances : InstanceInv(i)'
    BY <1>1 DEF Publish, IInv, InstanceInv, TypeOK
  <2>3. QED
    BY <2>1, <2>2 DEF IInv
<1>2. ASSUME NEW i \in Instances, NEW e \in Events, Invoke(i, e) PROVE IInv'
  <2>1. HandledInv' /\ DoneMeansHandled'
    BY <1>2 DEF Invoke, source, IInv, HandledInv, DoneMeansHandled
  <2>2. ASSUME NEW j \in Instances, j # i PROVE InstanceInv(j)'
    BY <1>2, <2>2 DEF Invoke, source, IInv, InstanceInv, TypeOK
  <2>3. InstanceInv(i)'
    <3>1. /\ event'[i] = e /\ status'[e] = "pending"
          /\ promise'[i] = [x \in Records |->
                              IF x \in RecordsOf[e] THEN "pending" ELSE "unused"]
          /\ answer'[i] = Answered(e, promise'[i], "none")
      BY <1>2 DEF Invoke, source, TypeOK
    <3>2. answer'[i] = "success" => \A x \in RecordsOf[e] : promise'[i][x] = "resolved"
      BY <3>1 DEF Answered, AllOf, ThenDone
    <3>3. QED
      BY <3>1, <3>2 DEF InstanceInv
  <2>4. QED
    BY <2>1, <2>2, <2>3 DEF IInv
<1>3. ASSUME NEW i \in Instances, NEW x \in Records, NEW how \in {"resolved", "rejected"},
             Settle(i, x, how)
      PROVE  IInv'
  BY <1>3, SettleStep
<1>4. ASSUME NEW i \in Instances, Succeed(i) PROVE IInv'
  BY <1>4, EndStep DEF Succeed
<1>5. ASSUME NEW i \in Instances, Fail(i) PROVE IInv'
  BY <1>5, EndStep DEF Fail, Attempted
<1>6. ASSUME NEW i \in Instances, Kill(i) PROVE IInv'
  BY <1>6, EndStep DEF Kill, Attempted
<1>7. CASE UNCHANGED vars
  BY <1>7 DEF vars, IInv, HandledInv, DoneMeansHandled, InstanceInv
<1>8. QED
  BY <1>1, <1>2, <1>3, <1>4, <1>5, <1>6, <1>7 DEF Next

(***************************************************************************)
(* No record of an event is lost: whatever the batch sizes, duplicates,    *)
(* retries and kills, the source is told an event is done only after the   *)
(* handler of each of its records resolved.                                *)
(***************************************************************************)
THEOREM NoRecordLost == Spec => []DoneMeansHandled
<1>1. Init => IInv
  BY DEF Init, IInv, HandledInv, DoneMeansHandled, InstanceInv
<1>2. IInv => DoneMeansHandled
  BY DEF IInv
<1>3. QED
  BY <1>1, <1>2, InvStep, TypeCorrect, PTL DEF Spec

-----------------------------------------------------------------------------
(***************************************************************************)
(* A failed attempt is the promise's Fail, or happens after the event was  *)
(* settled by another delivery of it.                                      *)
(***************************************************************************)
LEMMA AttemptImplements ==
  ASSUME NEW e \in Events, Attempted(e), UNCHANGED handled
  PROVE  Promise!Fail(e) \/ UNCHANGED Promise!dvars
BY DEF Attempted, Promise!Fail, Promise!dvars

(***************************************************************************)
(* The functions of both clouds implement the promise of EventDelivery:    *)
(* each step is one of its steps or changes nothing a subscriber sees.     *)
(***************************************************************************)
THEOREM ImplementsDelivery == Spec => Promise!SafeSpec
<1>1. Init => Promise!Init
  BY DEF Init, Promise!Init
<1>2. TypeOK /\ IInv /\ [Next]_vars => [Promise!Next]_Promise!dvars
  <2> SUFFICES ASSUME TypeOK, IInv, [Next]_vars
               PROVE  Promise!Next \/ UNCHANGED Promise!dvars
    OBVIOUS
  <2>1. ASSUME NEW e \in Events, Publish(e) PROVE Promise!Next
    BY <2>1 DEF Publish, Promise!Next, Promise!Publish
  <2>2. ASSUME NEW i \in Instances, NEW e \in Events, Invoke(i, e)
        PROVE  UNCHANGED Promise!dvars
    BY <2>2 DEF Invoke, source, Promise!dvars
  <2>3. ASSUME NEW i \in Instances, NEW x \in Records, NEW how \in {"resolved", "rejected"},
               Settle(i, x, how)
        PROVE  Promise!Next \/ UNCHANGED Promise!dvars
    <3>1. event[i] \in Events /\ x \in RecordsOf[event[i]] /\ status[event[i]] # "absent"
      BY <2>3 DEF Settle, TypeOK, IInv, InstanceInv
    <3>2. CASE how = "resolved"
      BY <2>3, <3>1, <3>2 DEF Settle, Promise!Next, Promise!Handle
    <3>3. CASE how # "resolved"
      BY <2>3, <3>3 DEF Settle, Promise!dvars
    <3>4. QED
      BY <3>2, <3>3
  <2>4. ASSUME NEW i \in Instances, Succeed(i)
        PROVE  Promise!Next \/ UNCHANGED Promise!dvars
    <3>1. event[i] \in Events /\ handled' = handled
      BY <2>4 DEF Succeed, Free, TypeOK
    <3>2. RecordsOf[event[i]] = handled[event[i]]
      BY <2>4, <3>1 DEF Succeed, IInv, InstanceInv, HandledInv, Records
    <3>3. QED
      BY <2>4, <3>1, <3>2 DEF Succeed, Promise!Next, Promise!Complete, Promise!dvars
  <2>5. ASSUME NEW i \in Instances, Fail(i) \/ Kill(i)
        PROVE  Promise!Next \/ UNCHANGED Promise!dvars
    <3>1. event[i] \in Events /\ Attempted(event[i]) /\ UNCHANGED handled
      BY <2>5 DEF Fail, Kill, Free, TypeOK
    <3>2. QED
      BY <3>1, AttemptImplements DEF Promise!Next
  <2>6. CASE UNCHANGED vars
    BY <2>6 DEF vars, Promise!dvars
  <2>7. QED
    BY <2>1, <2>2, <2>3, <2>4, <2>5, <2>6 DEF Next
<1>3. Init => IInv
  BY DEF Init, IInv, HandledInv, DoneMeansHandled, InstanceInv
<1>4. QED
  BY <1>1, <1>2, <1>3, InvStep, TypeCorrect, PTL DEF Spec, Promise!SafeSpec
=============================================================================
