----------------------------- MODULE AzureTable -----------------------------
(***************************************************************************)
(* cloud.Table on Azure table storage: azure/table.ts 93-206.  The scans   *)
(* of one process run while clients anywhere write.  Table storage is      *)
(* external: a page is a run of entities in key order from the key in the  *)
(* continuation token on, that key included, and the token names the key   *)
(* the next page starts at, whether or not there is an entity.             *)
(***************************************************************************)
EXTENDS Naturals, FiniteSets

CONSTANTS K,        \* the keys are 1..K
          Scanners

ASSUME KAssumption == K \in Nat

VARIABLES table, status, seen, must, again,   \* as in TableScan
          pc,       \* where the loop of a scan is
          token,    \* continuationToken, 0 for null: of the start and the end
          alive     \* the process that runs the scans

vars == <<table, status, seen, must, again, pc, token, alive>>
Keys == 1..K

Promise == INSTANCE TableScan
             WITH table <- table, status <- status, seen <- seen, must <- must, again <- again

-----------------------------------------------------------------------------
Init ==
  /\ Promise!Init
  /\ pc = [s \in Scanners |-> "idle"]
  /\ token = [s \in Scanners |-> 0]
  /\ alive = TRUE

\* insert(obj), or update(query, updates): insertOrReplace, insertOrMerge.
Put(k) ==
  /\ table' = table \cup {k}
  /\ UNCHANGED <<status, seen, must, again, pc, token, alive>>

\* delete(query); without an entity the promise is rejected.
Delete(k) ==
  /\ table' = table \ {k}
  /\ must' = [s \in Scanners |-> must[s] \ {k}]
  /\ UNCHANGED <<status, seen, again, pc, token, alive>>

\* scan(callback) up to its first query.
Start(s) ==
  /\ alive
  /\ pc[s] = "idle"
  /\ pc' = [pc EXCEPT ![s] = "fetch"]
  /\ status' = [status EXCEPT ![s] = "scanning"]
  /\ must' = [must EXCEPT ![s] = table]
  /\ UNCHANGED <<table, seen, again, token, alive>>

\* queryEntities: the entities from the token on, before the one named next.
Entries(from, next) == {k \in table : from <= k /\ (next = 0 \/ k < next)}
Tokens(from)        == {0} \cup {next \in Keys : from < next}

\* Mutant of Fetch: the token is taken for the last key of the page.
FetchBehind(s, next) ==
  /\ alive
  /\ pc[s] = "fetch"
  /\ next \in Tokens(token[s])
  /\ pc' = [pc EXCEPT ![s] = "callback"]
  /\ token' = [token EXCEPT ![s] = next + 1]
  /\ UNCHANGED <<table, status, seen, must, again, alive>>

\* The query's callback and, behind the await, the call of callback(entries).
Fetch(s, next) ==
  /\ alive
  /\ pc[s] = "fetch"
  /\ next \in Tokens(token[s])
  /\ pc' = [pc EXCEPT ![s] = "callback"]
  /\ token' = [token EXCEPT ![s] = next]
  /\ seen' = [seen EXCEPT ![s] = @ \cup Entries(token[s], next)]
  /\ again' = [again EXCEPT ![s] = @ \cup (seen[s] \cap Entries(token[s], next))]
  /\ UNCHANGED <<table, status, must, alive>>

\* The query's callback with an error and no result: reject(err), after which
\* reading result.continuationToken throws where nothing catches it.
FetchError(s) ==
  /\ alive
  /\ pc[s] = "fetch"
  /\ alive' = FALSE
  /\ UNCHANGED <<table, status, seen, must, again, pc, token>>

\* Mutants of Ends: while (!continuationToken); while (true).
EndsAfterPage(s, cont) == ~cont \/ token[s] # 0
EndsOnRefusal(s, cont) == ~cont

\* if (!cont) break; ... while (continuationToken)
Ends(s, cont) == ~cont \/ token[s] = 0

\* The callback's promise resolves.
Settle(s, cont) ==
  /\ alive
  /\ pc[s] = "callback"
  /\ IF Ends(s, cont)
     THEN /\ pc' = [pc EXCEPT ![s] = "end"]
          /\ status' = [status EXCEPT ![s] = IF cont THEN "done" ELSE "refused"]
     ELSE /\ pc' = [pc EXCEPT ![s] = "fetch"]
          /\ UNCHANGED status
  /\ UNCHANGED <<table, seen, must, again, token, alive>>

\* The callback throws or rejects.
CallbackError(s) ==
  /\ alive
  /\ pc[s] = "callback"
  /\ pc' = [pc EXCEPT ![s] = "end"]
  /\ status' = [status EXCEPT ![s] = "failed"]
  /\ UNCHANGED <<table, seen, must, again, token, alive>>

Next ==
  \/ \E k \in Keys : Put(k)
  \/ \E k \in Keys : Delete(k)
  \/ \E s \in Scanners : Start(s)
  \/ \E s \in Scanners, next \in 0..K : Fetch(s, next)
  \/ \E s \in Scanners : FetchError(s)
  \/ \E s \in Scanners, cont \in BOOLEAN : Settle(s, cont)
  \/ \E s \in Scanners : CallbackError(s)

\* Table storage answers, and the callback's promise settles.
Fairness ==
  \A s \in Scanners :
    /\ WF_vars(FetchError(s) \/ \E next \in 0..K : Fetch(s, next))
    /\ WF_vars(CallbackError(s) \/ \E cont \in BOOLEAN : Settle(s, cont))

Spec == Init /\ [][Next]_vars /\ Fairness

-----------------------------------------------------------------------------
TypeOK ==
  /\ table \subseteq Keys
  /\ status \in [Scanners -> {"idle", "scanning"} \cup Promise!Ends]
  /\ seen \in [Scanners -> SUBSET Keys]
  /\ must \in [Scanners -> SUBSET Keys]
  /\ again \in [Scanners -> SUBSET Keys]
  /\ pc \in [Scanners -> {"idle", "fetch", "callback", "end"}]
  /\ token \in [Scanners -> 0..K]
  /\ alive \in BOOLEAN

(***************************************************************************)
(* A scan that runs to its end has returned every document that was in the *)
(* table all the time: one null stands for the start and for the end       *)
(* (azure/table.ts 179-198), and neither is taken for the other.           *)
(***************************************************************************)
ScanComplete ==
  \A s \in Scanners : status[s] = "done" => must[s] \subseteq seen[s]

(***************************************************************************)
(* The loop implements the promise of scan (api/table.ts 87-96), as the    *)
(* one on AWS does: no document twice, no page after a refusal.            *)
(***************************************************************************)
Scans == Promise!Spec

(***************************************************************************)
(* A scan ends although documents are written all the time it runs, unless *)
(* the process does.                                                       *)
(***************************************************************************)
ScanEnds ==
  \A s \in Scanners :
    (status[s] = "scanning") ~> (status[s] \in Promise!Ends \/ ~alive)
=============================================================================
