------------------------------ MODULE TableScan ------------------------------
(***************************************************************************)
(* What scan promises (api/table.ts 87-96): it gets all documents from the *)
(* table, page by page, and fetches no page after the callback refused     *)
(* one.  Other clients write meanwhile, so a document counts only if it    *)
(* was there during the whole scan.                                        *)
(***************************************************************************)
EXTENDS FiniteSets

CONSTANTS Keys,     \* the primary keys documents may have
          Scanners  \* the scans running at once

VARIABLES table,    \* the keys that have a document
          status,   \* what became of each scan
          seen,     \* the keys of the documents each scan was given
          must,     \* the keys that were there since the scan began
          again     \* the keys each scan was given more than once: none

tvars == <<table, status, seen, must, again>>

Init ==
  /\ table = {}
  /\ status = [s \in Scanners |-> "idle"]
  /\ seen = [s \in Scanners |-> {}]
  /\ must = [s \in Scanners |-> {}]
  /\ again = [s \in Scanners |-> {}]

Put(k) ==
  /\ table' = table \cup {k}
  /\ UNCHANGED <<status, seen, must, again>>

Delete(k) ==
  /\ table' = table \ {k}
  /\ must' = [s \in Scanners |-> must[s] \ {k}]
  /\ UNCHANGED <<status, seen, again>>

Start(s) ==
  /\ status[s] = "idle"
  /\ status' = [status EXCEPT ![s] = "scanning"]
  /\ must' = [must EXCEPT ![s] = table]
  /\ UNCHANGED <<table, seen, again>>

\* A page of documents, none of which this scan was given before.
Page(s, page) ==
  /\ status[s] = "scanning"
  /\ page \subseteq table \ seen[s]
  /\ seen' = [seen EXCEPT ![s] = @ \cup page]
  /\ UNCHANGED <<table, status, must, again>>

\* A scan that is not refused and does not fail has got everything.
End(s, how) ==
  /\ status[s] = "scanning"
  /\ how = "done" => must[s] \subseteq seen[s]
  /\ status' = [status EXCEPT ![s] = how]
  /\ UNCHANGED <<table, seen, must, again>>

Ends == {"done", "refused", "failed"}

Next ==
  \/ \E k \in Keys : Put(k) \/ Delete(k)
  \/ \E s \in Scanners : \/ Start(s)
                         \/ \E page \in SUBSET Keys : Page(s, page)
                         \/ \E how \in Ends : End(s, how)

Spec == Init /\ [][Next]_tvars
=============================================================================
