-------------------------- MODULE AzureTableProofs --------------------------
(***************************************************************************)
(* Proofs about AzureTable for any number of keys and scans.  One null     *)
(* token means the start before the first page and the end behind the      *)
(* last: the invariant says which, and otherwise that the scan has seen    *)
(* everything it must in front of the token, and nothing from there on.    *)
(***************************************************************************)
EXTENDS AzureTable, TLAPS

\* The scan has come as far as its token.
CameTo(s) ==
  /\ \A x \in must[s] : x < token[s] => x \in seen[s]
  /\ \A x \in seen[s] : x < token[s]

Progress(s) ==
  /\ pc[s] \in {"fetch", "callback"} <=> status[s] = "scanning"
  /\ pc[s] = "idle" => status[s] = "idle" /\ seen[s] = {} /\ token[s] = 0
  /\ status[s] = "scanning" => must[s] \subseteq table
  /\ pc[s] = "fetch" /\ token[s] = 0 => seen[s] = {}
  /\ status[s] = "scanning" /\ token[s] # 0 => CameTo(s)
  /\ pc[s] = "callback" /\ token[s] = 0 => must[s] \subseteq seen[s]
  /\ status[s] = "done" => must[s] \subseteq seen[s]

Inv == TypeOK /\ \A s \in Scanners : Progress(s)

LEMMA InitInv == Init => Inv
BY KAssumption DEF Init, Inv, TypeOK, Progress, CameTo, Promise!Init, Promise!Ends

\* What a page adds to the documents seen lies behind all of them.
LEMMA PageIsNew ==
  ASSUME Inv, NEW s \in Scanners, NEW next \in 0..K, Fetch(s, next)
  PROVE  seen[s] \cap Entries(token[s], next) = {}
<1>1. pc[s] = "fetch" /\ status[s] = "scanning"
  BY DEF Fetch, Inv, Progress
<1>2. CASE token[s] = 0
  BY <1>1, <1>2 DEF Inv, Progress
<1>3. ASSUME token[s] # 0, NEW x \in seen[s], x \in Entries(token[s], next) PROVE FALSE
  <2>1. x < token[s] /\ token[s] <= x
    BY <1>1, <1>3 DEF Inv, Progress, CameTo, Entries
  <2>2. x \in Nat /\ token[s] \in Nat
    BY <1>3 DEF Inv, TypeOK, Keys
  <2> QED BY <2>1, <2>2
<1> QED BY <1>2, <1>3

\* A page takes the scan on to its token, or to the end.
LEMMA FetchStep ==
  ASSUME Inv, NEW s \in Scanners, NEW next \in 0..K, Fetch(s, next)
  PROVE  Inv'
<1> DEFINE page == Entries(token[s], next)
<1>1. /\ pc[s] = "fetch" /\ status[s] = "scanning" /\ must[s] \subseteq table
      /\ token[s] \in 0..K /\ page \subseteq Keys
      /\ must[s] \subseteq Keys /\ seen[s] \subseteq Keys
  BY DEF Fetch, Inv, Progress, TypeOK, Entries
<1>2. TypeOK'
  BY <1>1 DEF Fetch, Inv, TypeOK
<1>3. /\ seen'[s] = seen[s] \cup page /\ token'[s] = next /\ pc'[s] = "callback"
      /\ must' = must /\ table' = table /\ status' = status
  BY DEF Fetch, Inv, TypeOK
<1>4. ASSUME NEW x \in must[s], next = 0 \/ x < next
      PROVE  x \in seen[s] \cup page
  <2>1. x \in table /\ x \in Nat
    BY <1>1 DEF Keys
  <2>2. CASE token[s] <= x
    BY <1>4, <2>1, <2>2 DEF Entries
  <2>3. CASE ~(token[s] <= x)
    <3>1. token[s] # 0 /\ x < token[s]
      BY <1>1, <2>1, <2>3
    <3> QED BY <1>1, <3>1 DEF Inv, Progress, CameTo
  <2> QED BY <2>2, <2>3
<1>5. ASSUME next # 0, NEW x \in seen[s] \cup page
      PROVE  x < next
  <2>1. token[s] < next
    BY <1>5 DEF Fetch, Tokens
  <2>2. CASE x \in page
    BY <1>5, <2>2 DEF Entries
  <2>3. CASE x \in seen[s]
    <3>1. token[s] # 0 /\ x < token[s] /\ x \in Nat
      BY <1>1, <2>3 DEF Inv, Progress, CameTo, Keys
    <3> QED BY <1>1, <2>1, <3>1
  <2> QED BY <2>2, <2>3
<1>6. Progress(s)'
  <2>1. next # 0 => CameTo(s)'
    BY <1>3, <1>4, <1>5 DEF CameTo
  <2>2. next = 0 => must'[s] \subseteq seen'[s]
    BY <1>3, <1>4
  <2> QED BY <1>1, <1>3, <2>1, <2>2 DEF Progress
<1>7. ASSUME NEW r \in Scanners \ {s} PROVE Progress(r)'
  BY <1>7 DEF Fetch, Inv, TypeOK, Progress, CameTo
<1> QED BY <1>2, <1>6, <1>7 DEF Inv

LEMMA NextInv == Inv /\ [Next]_vars => Inv'
<1> SUFFICES ASSUME Inv, [Next]_vars PROVE Inv'
  OBVIOUS
<1> USE DEF vars
<1>1. ASSUME NEW k \in Keys, Put(k) PROVE Inv'
  BY <1>1 DEF Put, Inv, TypeOK, Progress, CameTo
<1>2. ASSUME NEW k \in Keys, Delete(k) PROVE Inv'
  <2>1. TypeOK'
    BY <1>2 DEF Delete, Inv, TypeOK
  <2>2. ASSUME NEW s \in Scanners PROVE Progress(s)'
    BY <1>2 DEF Delete, Inv, TypeOK, Progress, CameTo
  <2> QED BY <2>1, <2>2 DEF Inv
<1>3. ASSUME NEW s \in Scanners, Start(s) PROVE Inv'
  <2>1. TypeOK'
    BY <1>3 DEF Start, Inv, TypeOK
  <2>2. Progress(s)'
    BY <1>3 DEF Start, Inv, TypeOK, Progress
  <2>3. ASSUME NEW r \in Scanners \ {s} PROVE Progress(r)'
    BY <1>3, <2>3 DEF Start, Inv, TypeOK, Progress, CameTo
  <2> QED BY <2>1, <2>2, <2>3 DEF Inv
<1>4. ASSUME NEW s \in Scanners, NEW next \in 0..K, Fetch(s, next) PROVE Inv'
  BY <1>4, FetchStep
<1>5. ASSUME NEW s \in Scanners, FetchError(s) PROVE Inv'
  BY <1>5 DEF FetchError, Inv, TypeOK, Progress, CameTo
<1>6. ASSUME NEW s \in Scanners, NEW cont \in BOOLEAN, Settle(s, cont) PROVE Inv'
  <2>1. TypeOK'
    BY <1>6 DEF Settle, Inv, TypeOK, Promise!Ends
  <2>2. Progress(s)'
    BY <1>6 DEF Settle, Ends, Inv, TypeOK, Progress, CameTo
  <2>3. ASSUME NEW r \in Scanners \ {s} PROVE Progress(r)'
    BY <1>6, <2>3 DEF Settle, Inv, TypeOK, Progress, CameTo
  <2> QED BY <2>1, <2>2, <2>3 DEF Inv
<1>7. ASSUME NEW s \in Scanners, CallbackError(s) PROVE Inv'
  <2>1. TypeOK'
    BY <1>7 DEF CallbackError, Inv, TypeOK, Promise!Ends
  <2>2. ASSUME NEW r \in Scanners PROVE Progress(r)'
    BY <1>7 DEF CallbackError, Inv, TypeOK, Progress, CameTo
  <2> QED BY <2>1, <2>2 DEF Inv
<1>8. ASSUME UNCHANGED vars PROVE Inv'
  BY <1>8 DEF Inv, TypeOK, Progress, CameTo
<1> QED BY <1>1, <1>2, <1>3, <1>4, <1>5, <1>6, <1>7, <1>8 DEF Next

LEMMA InvAlways == Spec => []Inv
BY InitInv, NextInv, PTL DEF Spec

(***************************************************************************)
(* Every variable keeps its type.                                          *)
(***************************************************************************)
THEOREM TypeCorrect == Spec => []TypeOK
<1>1. Inv => TypeOK
  BY DEF Inv
<1> QED BY <1>1, InvAlways, PTL

(***************************************************************************)
(* A scan that ends by itself has returned every document that was there   *)
(* all the time, for tables and pages of any size.                         *)
(***************************************************************************)
THEOREM ScanCompleteCorrect == Spec => []ScanComplete
<1>1. Inv => ScanComplete
  BY DEF Inv, Progress, ScanComplete
<1> QED BY <1>1, InvAlways, PTL

-----------------------------------------------------------------------------
LEMMA StepImplements ==
  ASSUME Inv, [Next]_vars
  PROVE  [Promise!Next]_(Promise!tvars)
<1> USE DEF vars, Promise!tvars
<1>1. ASSUME NEW k \in Keys, Put(k) PROVE Promise!Next
  BY <1>1 DEF Put, Promise!Next, Promise!Put
<1>2. ASSUME NEW k \in Keys, Delete(k) PROVE Promise!Next
  BY <1>2 DEF Delete, Promise!Next, Promise!Delete
<1>3. ASSUME NEW s \in Scanners, Start(s) PROVE Promise!Next
  BY <1>3 DEF Start, Promise!Next, Promise!Start, Inv, Progress
<1>4. ASSUME NEW s \in Scanners, NEW next \in 0..K, Fetch(s, next) PROVE Promise!Next
  <2> DEFINE page == Entries(token[s], next)
  <2>1. page \subseteq Keys /\ page \subseteq table
    BY DEF Entries, Inv, TypeOK
  <2>2. seen[s] \cap page = {}
    BY <1>4, PageIsNew
  <2>3. again' = again
    BY <1>4, <2>2 DEF Fetch, Inv, TypeOK
  <2>4. Promise!Page(s, page)
    BY <1>4, <2>1, <2>2, <2>3 DEF Fetch, Promise!Page, Inv, Progress
  <2> QED BY <2>1, <2>4 DEF Promise!Next
<1>5. ASSUME NEW s \in Scanners, NEW cont \in BOOLEAN, Settle(s, cont)
      PROVE  [Promise!Next]_(Promise!tvars)
  <2>1. CASE Ends(s, cont)
    <3> DEFINE how == IF cont THEN "done" ELSE "refused"
    <3>1. how \in Promise!Ends
      BY DEF Promise!Ends
    <3>2. Promise!End(s, how)
      BY <1>5, <2>1 DEF Settle, Ends, Promise!End, Inv, Progress
    <3> QED BY <3>1, <3>2 DEF Promise!Next
  <2>2. CASE ~Ends(s, cont)
    BY <1>5, <2>2 DEF Settle
  <2> QED BY <2>1, <2>2
<1>6. ASSUME NEW s \in Scanners, CallbackError(s) PROVE Promise!Next
  <2>1. "failed" \in Promise!Ends /\ Promise!End(s, "failed")
    BY <1>6 DEF CallbackError, Promise!Ends, Promise!End, Inv, Progress
  <2> QED BY <2>1 DEF Promise!Next
<1>7. ASSUME NEW s \in Scanners, FetchError(s) PROVE UNCHANGED Promise!tvars
  BY <1>7 DEF FetchError
<1>8. CASE UNCHANGED vars
  BY <1>8
<1> QED BY <1>1, <1>2, <1>3, <1>4, <1>5, <1>6, <1>7, <1>8 DEF Next

(***************************************************************************)
(* The loop of azure/table.ts 165-206 implements the promise of scan: no   *)
(* document twice, no page after a refusal, everything at a regular end.   *)
(***************************************************************************)
THEOREM ImplementsScan == Spec => Scans
<1>1. Init => Promise!Init
  BY DEF Init
<1> QED BY <1>1, InvAlways, StepImplements, PTL DEF Spec, Scans, Promise!Spec
=============================================================================
