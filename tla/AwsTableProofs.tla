--------------------------- MODULE AwsTableProofs ---------------------------
(***************************************************************************)
(* Proofs about AwsTable for tables of any size.  The invariant says how   *)
(* far a scan has come: up to ExclusiveStartKey while it fetches, up to    *)
(* LastEvaluatedKey while the callback runs, it has seen every document    *)
(* that was there all the time, and none behind.                           *)
(***************************************************************************)
EXTENDS AwsTable, TLAPS

\* The scan has come as far as key k.
CameTo(s, k) ==
  /\ \A x \in must[s] : x <= k => x \in seen[s]
  /\ \A x \in seen[s] : x <= k

Progress(s) ==
  /\ pc[s] \in {"fetch", "callback"} <=> status[s] = "scanning"
  /\ pc[s] = "idle" => status[s] = "idle" /\ seen[s] = {} /\ start[s] = 0
  /\ status[s] = "scanning" => must[s] \subseteq table
  /\ pc[s] = "fetch" => CameTo(s, start[s])
  /\ pc[s] = "callback" /\ last[s] # None => CameTo(s, last[s])
  /\ pc[s] = "callback" /\ last[s] = None => must[s] \subseteq seen[s]
  /\ status[s] = "done" => must[s] \subseteq seen[s]

Inv == TypeOK /\ \A s \in Scanners : Progress(s)

LEMMA InitInv == Init => Inv
BY KAssumption DEF Init, Inv, TypeOK, Progress, CameTo, Promise!Init, Promise!Ends

\* What DynamoDB answers takes a scan on as far as the answer says.
LEMMA FetchStep ==
  ASSUME Inv, NEW s \in Scanners, NEW to \in 0..K, NEW lek \in Keys \cup {None},
         Fetch(s, to, lek)
  PROVE  Inv'
<1> DEFINE page == Answer(start[s], to)
<1>1. /\ pc[s] = "fetch" /\ CameTo(s, start[s]) /\ must[s] \subseteq table
      /\ start[s] \in 0..K /\ page \subseteq Keys
  BY DEF Fetch, Inv, Progress, TypeOK, Answer
<1>2. TypeOK'
  BY <1>1 DEF Fetch, Inv, TypeOK
<1>3. seen'[s] = seen[s] \cup page /\ last'[s] = lek /\ pc'[s] = "callback"
  BY DEF Fetch, Inv, TypeOK
<1>4. ASSUME lek # None
      PROVE  CameTo(s, lek)'
  <2>1. lek = to /\ to \in Keys /\ start[s] < to
    BY <1>1, <1>4, KAssumption DEF Fetch, Lasts, Keys
  <2>2. ASSUME NEW x \in must[s], x <= to PROVE x \in seen[s] \cup page
    <3>1. x \in table /\ x \in Keys
      BY <1>1 DEF Inv, TypeOK
    <3>2. CASE x <= start[s]
      BY <1>1, <3>2 DEF CameTo
    <3>3. CASE ~(x <= start[s])
      BY <1>1, <2>1, <2>2, <3>1, <3>3 DEF Answer, Keys
    <3> QED BY <3>2, <3>3
  <2>3. ASSUME NEW x \in seen[s] \cup page PROVE x <= to
    <3>1. x \in Nat
      BY <1>1, <2>3 DEF Inv, TypeOK, Keys
    <3> QED BY <1>1, <2>1, <2>3, <3>1, KAssumption DEF CameTo, Answer, Keys
  <2> QED BY <1>3, <2>1, <2>2, <2>3 DEF CameTo, Fetch
<1>5. ASSUME lek = None
      PROVE  must[s] \subseteq seen'[s]
  <2>1. page = Answer(start[s], K)
    BY <1>5, NoneAssumption, KAssumption DEF Fetch, Lasts, Keys
  <2>2. ASSUME NEW x \in must[s] PROVE x \in seen[s] \cup page
    <3>1. x \in table /\ x \in Keys /\ x <= K
      BY <1>1, KAssumption DEF Inv, TypeOK, Keys
    <3>2. CASE x <= start[s]
      BY <1>1, <3>2 DEF CameTo
    <3>3. CASE ~(x <= start[s])
      BY <1>1, <2>1, <3>1, <3>3 DEF Answer, Keys
    <3> QED BY <3>2, <3>3
  <2> QED BY <1>3, <2>2
<1>6. Progress(s)'
  BY <1>1, <1>3, <1>4, <1>5 DEF Progress, Fetch, Inv, TypeOK
<1>7. ASSUME NEW r \in Scanners \ {s} PROVE Progress(r)'
  BY <1>7 DEF Fetch, Inv, TypeOK, Progress, CameTo
<1> QED BY <1>2, <1>6, <1>7 DEF Inv

LEMMA SettleStep ==
  ASSUME Inv, NEW s \in Scanners, NEW acceptMore \in BOOLEAN, Settle(s, acceptMore)
  PROVE  Inv'
<1>1. TypeOK'
  <2>1. last[s] # None => last[s] \in 0..K
    BY DEF Inv, TypeOK, Keys
  <2> QED BY <2>1 DEF Settle, Stops, Inv, TypeOK, Promise!Ends
<1>2. Progress(s)'
  BY DEF Settle, Stops, Inv, TypeOK, Progress, CameTo
<1>3. ASSUME NEW r \in Scanners \ {s} PROVE Progress(r)'
  BY <1>3 DEF Settle, Inv, TypeOK, Progress, CameTo
<1> QED BY <1>1, <1>2, <1>3 DEF Inv

LEMMA NextInv == Inv /\ [Next]_vars => Inv'
<1> SUFFICES ASSUME Inv, [Next]_vars PROVE Inv'
  OBVIOUS
<1> USE DEF vars, loop
<1>1. ASSUME NEW k \in Keys, Put(k) PROVE Inv'
  BY <1>1 DEF Put, Inv, TypeOK, Progress, CameTo
<1>2. ASSUME NEW k \in Keys, Delete(k) PROVE Inv'
  <2>1. TypeOK'
    BY <1>2 DEF Delete, Inv, TypeOK
  <2>2. ASSUME NEW s \in Scanners PROVE Progress(s)'
    BY <1>2 DEF Delete, Inv, TypeOK, Progress, CameTo
  <2> QED BY <2>1, <2>2 DEF Inv
<1>3. ASSUME NEW s \in Scanners, Start(s) PROVE Inv'
  <2>1. TypeOK'
    BY <1>3 DEF Start, Inv, TypeOK
  <2>2. CameTo(s, start[s])'
    BY <1>3 DEF Start, Inv, TypeOK, Progress, CameTo, Keys
  <2>3. Progress(s)'
    BY <1>3, <2>2 DEF Start, Inv, TypeOK, Progress
  <2>4. ASSUME NEW r \in Scanners \ {s} PROVE Progress(r)'
    BY <1>3, <2>4 DEF Start, Inv, TypeOK, Progress, CameTo
  <2> QED BY <2>1, <2>3, <2>4 DEF Inv
<1>4. ASSUME NEW s \in Scanners, NEW to \in 0..K, NEW lek \in Keys \cup {None},
             Fetch(s, to, lek)
      PROVE  Inv'
  BY <1>4, FetchStep
<1>5. ASSUME NEW s \in Scanners, NEW acceptMore \in BOOLEAN, Settle(s, acceptMore)
      PROVE  Inv'
  BY <1>5, SettleStep
<1>6. ASSUME NEW s \in Scanners, Fail(s) PROVE Inv'
  <2>1. TypeOK'
    BY <1>6 DEF Fail, Inv, TypeOK, Promise!Ends
  <2>2. ASSUME NEW r \in Scanners PROVE Progress(r)'
    BY <1>6 DEF Fail, Inv, TypeOK, Progress, CameTo
  <2> QED BY <2>1, <2>2 DEF Inv
<1>7. ASSUME UNCHANGED vars PROVE Inv'
  BY <1>7 DEF Inv, TypeOK, Progress, CameTo
<1> QED BY <1>1, <1>2, <1>3, <1>4, <1>5, <1>6, <1>7 DEF Next

LEMMA InvAlways == Spec => []Inv
BY InitInv, NextInv, PTL DEF Spec

(***************************************************************************)
(* Every variable keeps its type; in particular ExclusiveStartKey is never *)
(* set from a missing LastEvaluatedKey (aws/table.ts 108-113).             *)
(***************************************************************************)
THEOREM TypeCorrect == Spec => []TypeOK
<1>1. Inv => TypeOK
  BY DEF Inv
<1> QED BY <1>1, InvAlways, PTL

(***************************************************************************)
(* A scan that ends by itself has returned every document that was there   *)
(* all the time, for tables and pages of any size (aws/table.ts 89-119).   *)
(***************************************************************************)
THEOREM ScanCompleteCorrect == Spec => []ScanComplete
<1>1. Inv => ScanComplete
  BY DEF Inv, Progress, ScanComplete
<1> QED BY <1>1, InvAlways, PTL

-----------------------------------------------------------------------------
LEMMA StepImplements ==
  ASSUME Inv, [Next]_vars
  PROVE  [Promise!Next]_(Promise!tvars)
<1> USE DEF vars, loop, Promise!tvars
<1>1. ASSUME NEW k \in Keys, Put(k) PROVE Promise!Next
  BY <1>1 DEF Put, Promise!Next, Promise!Put
<1>2. ASSUME NEW k \in Keys, Delete(k) PROVE Promise!Next
  BY <1>2 DEF Delete, Promise!Next, Promise!Delete
<1>3. ASSUME NEW s \in Scanners, Start(s) PROVE Promise!Next
  BY <1>3 DEF Start, Promise!Next, Promise!Start, Inv, Progress
<1>4. ASSUME NEW s \in Scanners, NEW to \in 0..K, NEW lek \in Keys \cup {None},
             Fetch(s, to, lek)
      PROVE  Promise!Next
  <2> DEFINE page == Answer(start[s], to)
  <2>1. page \subseteq Keys /\ page \subseteq table
    BY DEF Answer, Inv, TypeOK
  <2>2. ASSUME NEW x \in seen[s], x \in page PROVE FALSE
    <3>1. x <= start[s] /\ start[s] < x
      BY <1>4, <2>2 DEF Fetch, Inv, Progress, CameTo, Answer
    <3>2. x \in Nat /\ start[s] \in Nat
      BY <2>1, <2>2 DEF Keys, Inv, TypeOK
    <3> QED BY <3>1, <3>2
  <2>3. again' = again
    <3>1. again[s] \cup (seen[s] \cap page) = again[s]
      BY <2>2
    <3> QED BY <1>4, <3>1 DEF Fetch, Inv, TypeOK
  <2>4. Promise!Page(s, page)
    BY <1>4, <2>1, <2>2, <2>3 DEF Fetch, Promise!Page, Inv, Progress
  <2> QED BY <2>1, <2>4 DEF Promise!Next
<1>5. ASSUME NEW s \in Scanners, NEW acceptMore \in BOOLEAN, Settle(s, acceptMore)
      PROVE  [Promise!Next]_(Promise!tvars)
  <2>1. CASE Stops(s, acceptMore)
    <3> DEFINE how == IF acceptMore THEN "done" ELSE "refused"
    <3>1. how \in Promise!Ends
      BY DEF Promise!Ends
    <3>2. Promise!End(s, how)
      BY <1>5, <2>1 DEF Settle, Stops, Promise!End, Inv, Progress
    <3> QED BY <3>1, <3>2 DEF Promise!Next
  <2>2. CASE ~Stops(s, acceptMore)
    BY <1>5, <2>2 DEF Settle
  <2> QED BY <2>1, <2>2
<1>6. ASSUME NEW s \in Scanners, Fail(s) PROVE Promise!Next
  <2>1. "failed" \in Promise!Ends /\ Promise!End(s, "failed")
    BY <1>6 DEF Fail, Promise!Ends, Promise!End, Inv, Progress
  <2> QED BY <2>1 DEF Promise!Next
<1>7. CASE UNCHANGED vars
  BY <1>7
<1> QED BY <1>1, <1>2, <1>3, <1>4, <1>5, <1>6, <1>7 DEF Next

(***************************************************************************)
(* The loop of aws/table.ts 89-119 implements the promise of scan: no      *)
(* document twice, no page after a refusal, everything at a regular end.   *)
(***************************************************************************)
THEOREM ImplementsScan == Spec => Scans
<1>1. Init => Promise!Init
  BY DEF Init
<1> QED BY <1>1, InvAlways, StepImplements, PTL DEF Spec, Scans, Promise!Spec
=============================================================================
