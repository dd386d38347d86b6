---------------------------- MODULE EventDelivery ----------------------------
(***************************************************************************)
(* What a subscription promises (api/topic.ts 47, 62-76; the handlers of   *)
(* a bucket and a timer are driven the same way): every event reaches the  *)
(* subscription's handlers, a failed attempt is retried some number of     *)
(* times, and an event whose every attempt failed goes to the global error *)
(* handler.  Nothing is said of how often a handler runs for a record.     *)
(***************************************************************************)
EXTENDS Naturals

CONSTANTS Events,       \* the events of the subscription's source
          RecordsOf,    \* RecordsOf[e]: the records one event carries
          MaxAttempts   \* attempts before the error handler gets an event

VARIABLES status,    \* where each event is
          attempts,  \* failed attempts of each event
          handled    \* records a handler has handled successfully

dvars == <<status, attempts, handled>>

Init ==
  /\ status   = [e \in Events |-> "absent"]
  /\ attempts = [e \in Events |-> 0]
  /\ handled  = [e \in Events |-> {}]

Publish(e) ==
  /\ status[e] = "absent"
  /\ status' = [status EXCEPT ![e] = "pending"]
  /\ UNCHANGED <<attempts, handled>>

\* A handler resolves; it may do so again, and after its event is settled.
Handle(e, x) ==
  /\ status[e] # "absent"
  /\ handled' = [handled EXCEPT ![e] = @ \cup {x}]
  /\ UNCHANGED <<status, attempts>>

\* An event is done only when every record of it was handled.
Complete(e) ==
  /\ status[e] = "pending"
  /\ handled[e] = RecordsOf[e]
  /\ status' = [status EXCEPT ![e] = "done"]
  /\ UNCHANGED <<attempts, handled>>

\* A failed attempt: one more retry, or the global error handler.
Fail(e) ==
  /\ status[e] = "pending"
  /\ attempts' = [attempts EXCEPT ![e] = @ + 1]
  /\ status' = IF attempts[e] + 1 = MaxAttempts
               THEN [status EXCEPT ![e] = "dead"]
               ELSE status
  /\ UNCHANGED handled

Next ==
  \/ \E e \in Events : Publish(e) \/ Complete(e) \/ Fail(e)
  \/ \E e \in Events : \E x \in RecordsOf[e] : Handle(e, x)

SafeSpec == Init /\ [][Next]_dvars

\* An event that was published is handled or reported, and not kept forever:
\* every step of the fairness brings it nearer to its last attempt.
Spec == SafeSpec /\ \A e \in Events : WF_dvars(Complete(e) \/ Fail(e))
=============================================================================
