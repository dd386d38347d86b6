------------------------------ MODULE AwsTable ------------------------------
(***************************************************************************)
(* cloud.Table on DynamoDB: aws/table.ts 72-147.  A scan fetches a page,   *)
(* awaits the callback and goes on behind the page's last key, while other *)
(* clients insert, update and delete.  DynamoDB is external: a page is a   *)
(* run of the documents behind ExclusiveStartKey in the order of the hash  *)
(* keys (here, of the numbers), of any length.  A page may be empty and    *)
(* still carry a LastEvaluatedKey, the place where DynamoDB stopped, and   *)
(* so may one that happens to end at the table's end.                      *)
(***************************************************************************)
EXTENDS Naturals, FiniteSets

CONSTANTS K,        \* the keys are 1..K
          Scanners,
          None      \* no LastEvaluatedKey

ASSUME KAssumption    == K \in Nat
ASSUME NoneAssumption == None \notin Nat

VARIABLES table, status, seen, must, again,   \* as in TableScan
          pc,      \* where the loop of a scan is
          start,   \* params.ExclusiveStartKey, 0 when it is not set
          last     \* result.LastEvaluatedKey of the page in the callback

vars == <<table, status, seen, must, again, pc, start, last>>
loop == <<pc, start, last>>
Keys == 1..K

Promise == INSTANCE TableScan
             WITH table <- table, status <- status, seen <- seen, must <- must, again <- again

-----------------------------------------------------------------------------
Init ==
  /\ Promise!Init
  /\ pc = [s \in Scanners |-> "idle"]
  /\ start = [s \in Scanners |-> 0]
  /\ last = [s \in Scanners |-> None]

\* insert(item), or update(query, updates), which creates a missing document.
Put(k) ==
  /\ table' = table \cup {k}
  /\ UNCHANGED <<status, seen, must, again, loop>>

\* delete(query): succeeds whether or not there is a document.
Delete(k) ==
  /\ table' = table \ {k}
  /\ must' = [s \in Scanners |-> must[s] \ {k}]
  /\ UNCHANGED <<status, seen, again, loop>>

\* scan(callback) up to its first db.scan.
Start(s) ==
  /\ pc[s] = "idle"
  /\ pc' = [pc EXCEPT ![s] = "fetch"]
  /\ status' = [status EXCEPT ![s] = "scanning"]
  /\ must' = [must EXCEPT ![s] = table]
  /\ UNCHANGED <<table, seen, again, start, last>>

\* DynamoDB's answer: the documents in (from, to], and where to go on.
Answer(from, to) == {k \in table : from < k /\ k <= to}
Lasts(from, to) ==
  (IF from < to THEN {to} ELSE {}) \cup
  (IF Answer(from, to) = Answer(from, K) THEN {None} ELSE {})

\* await db.scan(params), and the call of callback(result.Items).
Fetch(s, to, lek) ==
  /\ pc[s] = "fetch"
  /\ lek \in Lasts(start[s], to)
  /\ seen' = [seen EXCEPT ![s] = @ \cup Answer(start[s], to)]
  /\ again' = [again EXCEPT ![s] = @ \cup (seen[s] \cap Answer(start[s], to))]
  /\ last' = [last EXCEPT ![s] = lek]
  /\ pc' = [pc EXCEPT ![s] = "callback"]
  /\ UNCHANGED <<table, status, must, start>>

\* Mutants of Stops: a missing LastEvaluatedKey is not looked at; one page.
StopsOnRefusal(s, acceptMore) == ~acceptMore
StopsAtOnce(s, acceptMore)    == TRUE

\* The loop's test, behind the await of the callback.
Stops(s, acceptMore) == ~acceptMore \/ last[s] = None

\* Mutant of Settle: ExclusiveStartKey is not set.
SettleInPlace(s, acceptMore) ==
  /\ pc[s] = "callback"
  /\ IF Stops(s, acceptMore)
     THEN /\ pc' = [pc EXCEPT ![s] = "end"]
          /\ status' = [status EXCEPT ![s] = IF acceptMore THEN "done" ELSE "refused"]
     ELSE /\ pc' = [pc EXCEPT ![s] = "fetch"]
          /\ UNCHANGED status
  /\ UNCHANGED <<table, seen, must, again, start, last>>

Settle(s, acceptMore) ==
  /\ pc[s] = "callback"
  /\ IF Stops(s, acceptMore)
     THEN /\ pc' = [pc EXCEPT ![s] = "end"]
          /\ status' = [status EXCEPT ![s] = IF acceptMore THEN "done" ELSE "refused"]
          /\ UNCHANGED start
     ELSE /\ pc' = [pc EXCEPT ![s] = "fetch"]
          /\ start' = [start EXCEPT ![s] = last[s]]
          /\ UNCHANGED status
  /\ UNCHANGED <<table, seen, must, again, last>>

\* db.scan or the callback rejects: so does the promise of the scan.
Fail(s) ==
  /\ pc[s] \in {"fetch", "callback"}
  /\ pc' = [pc EXCEPT ![s] = "end"]
  /\ status' = [status EXCEPT ![s] = "failed"]
  /\ UNCHANGED <<table, seen, must, again, start, last>>

Next ==
  \/ \E k \in Keys : Put(k)
  \/ \E k \in Keys : Delete(k)
  \/ \E s \in Scanners : Start(s)
  \/ \E s \in Scanners, to \in 0..K, lek \in Keys \cup {None} : Fetch(s, to, lek)
  \/ \E s \in Scanners, acceptMore \in BOOLEAN : Settle(s, acceptMore)
  \/ \E s \in Scanners : Fail(s)

\* DynamoDB answers, and the callback's promise settles.
Fairness ==
  \A s \in Scanners :
    /\ WF_vars(\E to \in 0..K, lek \in Keys \cup {None} : Fetch(s, to, lek))
    /\ WF_vars(\E acceptMore \in BOOLEAN : Settle(s, acceptMore))

Spec == Init /\ [][Next]_vars /\ Fairness

-----------------------------------------------------------------------------
TypeOK ==
  /\ table \subseteq Keys
  /\ status \in [Scanners -> {"idle", "scanning"} \cup Promise!Ends]
  /\ seen \in [Scanners -> SUBSET Keys]
  /\ must \in [Scanners -> SUBSET Keys]
  /\ again \in [Scanners -> SUBSET Keys]
  /\ pc \in [Scanners -> {"idle", "fetch", "callback", "end"}]
  /\ start \in [Scanners -> 0..K]
  /\ last \in [Scanners -> Keys \cup {None}]

(***************************************************************************)
(* A scan that runs to its end has returned every document that was in the *)
(* table all the time it ran, whatever is written between its pages.       *)
(***************************************************************************)
ScanComplete ==
  \A s \in Scanners : status[s] = "done" => must[s] \subseteq seen[s]

(***************************************************************************)
(* The loop implements the promise of scan (api/table.ts 87-96): besides   *)
(* ScanComplete, no page holds a document of an earlier one, though it may *)
(* have been deleted and inserted again, and none follows a refusal.       *)
(***************************************************************************)
Scans == Promise!Spec

(***************************************************************************)
(* A scan ends although documents are written all the time it runs: every  *)
(* page starts behind the one before it.                                   *)
(***************************************************************************)
ScanEnds == \A s \in Scanners : (status[s] = "scanning") ~> (status[s] \in Promise!Ends)
=============================================================================
