-------------------------- MODULE ApiRequestProofs --------------------------
(***************************************************************************)
(* Theorems about ApiRequest, for every route length, every number of      *)
(* requests and containers and every bound.                                *)
(***************************************************************************)
EXTENDS ApiRequest, FiniteSetTheorems, SequenceTheorems, WellFoundedInduction, TLAPS

(***************************************************************************)
(* Every method of res leaves a response: status code, headers and body    *)
(* keep their types whatever is called on them (aws/api.ts 390-455).       *)
(***************************************************************************)
LEMMA EffectType ==
  ASSUME NEW res \in Response, NEW h \in Handlers, NEW m \in Method
  PROVE  Effect(res, h, m) \in Response
<1>1. \A s \in Response, code \in StatusCode : Status(s, code) \in Response
  BY SMT DEF Status, Response
<1>2. \A s \in Response, n \in HeaderName : SetHeader(s, n) \in Response
  BY SMT DEF SetHeader, Response
<1>3. \A s \in Response : Write(s, h) \in Response
  <2> SUFFICES ASSUME NEW s \in Response PROVE Write(s, h) \in Response
    OBVIOUS
  <2>1. Append(s.body, h) \in Seq(Handlers)
    BY SMT DEF Response
  <2>2. s \in [statusCode : StatusCode, headers : SUBSET HeaderName, body : Seq(Handlers)]
    BY DEF Response
  <2>3. [s EXCEPT !.body = Append(s.body, h)]
          \in [statusCode : StatusCode, headers : SUBSET HeaderName, body : Seq(Handlers)]
    BY <2>1, <2>2
  <2>4. QED
    BY <2>3 DEF Write, Response
<1>4. 302 \in StatusCode /\ 404 \in StatusCode
  BY DEF StatusCode
<1>5. {"content-type", "Location", "x-custom"} = HeaderName
  BY DEF HeaderName
<1>6. QED
  BY <1>1, <1>2, <1>3, <1>4, <1>5 DEF Effect, Method

(***************************************************************************)
(* The type invariant holds in every reachable state.                      *)
(***************************************************************************)
THEOREM TypeCorrect == Spec => []TypeOK
<1>1. Init => TypeOK
  <2>1. FreshResponse \in Response
    BY SMT DEF FreshResponse, Response, StatusCode
  <2>2. QED
    BY <2>1, SMT DEF Init, TypeOK
<1>2. TypeOK /\ [Next]_vars => TypeOK'
  <2> SUFFICES ASSUME TypeOK, [Next]_vars PROVE TypeOK'
    OBVIOUS
  <2> USE DEF TypeOK
  <2>1. ASSUME NEW r \in Requests, NEW c \in Containers, Invoke(r, c) PROVE TypeOK'
    <3>1. FreshResponse \in Response
      BY DEF FreshResponse, Response, StatusCode
    <3>2. active' \in [Requests -> SUBSET Handlers]
      BY <2>1, NAssumption, SMT DEF Invoke, StartNext, Handlers
    <3>3. QED
      BY <2>1, <3>1, <3>2, SMT DEF Invoke, StartNext
  <2>2. ASSUME NEW r \in Requests, NEW h \in Handlers, CallNext(r, h) PROVE TypeOK'
    <3>1. active' \in [Requests -> SUBSET Handlers]
      BY <2>2, NAssumption, SMT DEF CallNext, StartNext, Handlers
    <3>2. calls' \in [Requests -> [Handlers -> Nat]]
      BY <2>2, SMT DEF CallNext
    <3>3. QED
      BY <2>2, <3>1, <3>2, SMT DEF CallNext, StartNext, lambdaVars
  <2>3. ASSUME NEW r \in Requests, NEW h \in Handlers, NEW m \in Method, CallRes(r, h, m)
        PROVE TypeOK'
    <3>1. Effect(response[r], h, m) \in Response
      BY <2>3, EffectType
    <3>2. response' \in [Requests -> Response]
      BY <2>3, <3>1, SMT DEF CallRes
    <3>3. result' \in [Requests -> Response \cup {None}]
      BY <2>3, <3>1 DEF CallRes, Callback, Snapshot
    <3>4. log' \in [Requests -> Seq(Method \X Handlers)]
      BY <2>3, SMT DEF CallRes
    <3>5. QED
      BY <2>3, <3>2, <3>3, <3>4 DEF CallRes
  <2>4. ASSUME NEW r \in Requests, NEW h \in Handlers, Finish(r, h) PROVE TypeOK'
    BY <2>4, SMT DEF Finish, lambdaVars
  <2>5. ASSUME NEW c \in Containers, Return(c) PROVE TypeOK'
    BY <2>5, SMT DEF Return, closureVars
  <2>6. ASSUME NEW c \in Containers, Drain(c) PROVE TypeOK'
    BY <2>6, SMT DEF Drain, closureVars
  <2>7. ASSUME NEW c \in Containers, Kill(c) PROVE TypeOK'
    BY <2>7, SMT DEF Kill
  <2>8. CASE UNCHANGED vars
    BY <2>8 DEF vars
  <2>9. QED
    BY <2>1, <2>2, <2>3, <2>4, <2>5, <2>6, <2>7, <2>8 DEF Next
<1>3. QED
  BY <1>1, <1>2, PTL DEF Spec

-----------------------------------------------------------------------------
\* What DelegationOrder needs to be inductive: only a started handler can
\* call next, and an invocation starts from the first handler.
ChainInv ==
  \A r \in Requests :
    /\ home[r] = None => cursor[r] = 0
    /\ \A h \in active[r] : Started(r, h)
    /\ ChainOrder(r)

(***************************************************************************)
(* A call of next by a started handler keeps ChainOrder: were the caller   *)
(* not the last handler started, it would have called next twice.          *)
(***************************************************************************)
LEMMA NextKeepsOrder ==
  ASSUME TypeOK, ChainInv, NEW r \in Requests, NEW h \in Handlers, CallNext(r, h)
  PROVE  ChainOrder(r)'
<1>1. /\ cursor'[r] = cursor[r] + 1
      /\ cursor[r] \in Nat
      /\ h <= cursor[r]
      /\ calls'[r] = [calls[r] EXCEPT ![h] = @ + 1]
      /\ calls[r] \in [Handlers -> Nat]
  BY SMT DEF TypeOK, ChainInv, CallNext, StartNext, Acts, Started
<1> SUFFICES ASSUME \A g \in Handlers : calls'[r][g] <= 1,
                    NEW g \in Handlers, NEW k \in Handlers, g < k, k <= cursor'[r]
             PROVE  calls'[r][g] = 1
  BY DEF ChainOrder, Started
<1>2. calls[r][h] = 0 /\ \A f \in Handlers : calls[r][f] <= 1
  <2>1. calls'[r][h] <= 1 /\ calls'[r][h] = calls[r][h] + 1 /\ calls[r][h] \in Nat
    BY <1>1
  <2>2. calls[r][h] = 0
    BY <2>1, SMT
  <2>3. ASSUME NEW f \in Handlers PROVE calls[r][f] <= 1
    <3>1. calls'[r][f] <= 1 /\ (f # h => calls'[r][f] = calls[r][f])
      BY <1>1
    <3>2. QED
      BY <3>1, <2>2, SMT
  <2>4. QED
    BY <2>2, <2>3
<1>3. \A f, j \in Handlers : f < j /\ j <= cursor[r] => calls[r][f] = 1
  BY <1>2 DEF ChainInv, ChainOrder, Started
<1>4. CASE g = h
  BY <1>1, <1>2, <1>4, SMT
<1>5. CASE g # h
  <2>1. calls'[r][g] = calls[r][g]
    BY <1>1, <1>5
  <2>2. CASE k <= cursor[r]
    BY <1>3, <2>1, <2>2
  <2>3. CASE k = cursor[r] + 1
    <3>1. cursor[r] \in Handlers /\ cursor[r] <= cursor[r]
      BY <1>1, <2>3, NAssumption, SMT DEF Handlers
    <3>2. CASE g < cursor[r]
      BY <1>3, <2>1, <3>1, <3>2
    <3>3. CASE g = cursor[r]
      <4>1. h < cursor[r]
        BY <1>1, <1>5, <3>3, SMT DEF Handlers
      <4>2. QED
        BY <1>2, <1>3, <3>1, <4>1, SMT
    <3>4. QED
      BY <1>1, <2>3, <3>2, <3>3, SMT DEF Handlers
  <2>4. QED
    BY <1>1, <2>2, <2>3, SMT DEF Handlers
<1>6. QED
  BY <1>4, <1>5

(***************************************************************************)
(* Every step keeps the chain invariant.                                   *)
(***************************************************************************)
LEMMA ChainStep == TypeOK /\ ChainInv /\ [Next]_vars => ChainInv'
<1> SUFFICES ASSUME TypeOK, ChainInv, [Next]_vars PROVE ChainInv'
  OBVIOUS
<1>1. ASSUME NEW r \in Requests, NEW c \in Containers, Invoke(r, c) PROVE ChainInv'
  <2> SUFFICES ASSUME NEW q \in Requests
               PROVE  /\ home'[q] = None => cursor'[q] = 0
                      /\ \A h \in active'[q] : h <= cursor'[q]
                      /\ ChainOrder(q)'
    BY DEF ChainInv, Started
  <2>1. CASE q # r
    BY <1>1, <2>1 DEF Invoke, StartNext, TypeOK, ChainInv, ChainOrder, Started
  <2>2. CASE q = r
    <3>1. cursor[r] = 0 /\ cursor'[r] = 1 /\ home'[r] = c /\ c # None
      BY <1>1, NoneAssumption, SMT DEF Invoke, StartNext, TypeOK, ChainInv
    <3>2. active[r] \subseteq Handlers /\ \A h \in active[r] : h <= 0
      BY <3>1 DEF TypeOK, ChainInv, Started
    <3>3. \A h \in active'[r] : h <= 1
      BY <1>1, <3>1, <3>2, SMT DEF Invoke, StartNext, TypeOK, Handlers
    <3>4. ChainOrder(r)'
      BY <3>1, SMT DEF ChainOrder, Started, Handlers
    <3>5. QED
      BY <2>2, <3>1, <3>3, <3>4
  <2>3. QED
    BY <2>1, <2>2
<1>2. ASSUME NEW r \in Requests, NEW g \in Handlers, CallNext(r, g) PROVE ChainInv'
  <2> SUFFICES ASSUME NEW q \in Requests
               PROVE  /\ home'[q] = None => cursor'[q] = 0
                      /\ \A h \in active'[q] : h <= cursor'[q]
                      /\ ChainOrder(q)'
    BY DEF ChainInv, Started
  <2>1. CASE q # r
    BY <1>2, <2>1 DEF CallNext, StartNext, TypeOK, ChainInv, ChainOrder, Started, lambdaVars
  <2>2. CASE q = r
    <3>1. home'[r] # None
      BY <1>2 DEF CallNext, Acts, lambdaVars
    <3>2. \A h \in active'[r] : h <= cursor'[r]
      <4>1. cursor[r] \in Nat /\ cursor'[r] = cursor[r] + 1
        BY <1>2 DEF CallNext, StartNext, TypeOK
      <4>2. ASSUME NEW h \in active[r] PROVE h <= cursor'[r]
        BY <4>1, SMT DEF TypeOK, ChainInv, Started, Handlers
      <4>3. active'[r] \subseteq active[r] \cup {cursor'[r]}
        BY <1>2, <4>1 DEF CallNext, StartNext, TypeOK
      <4>4. QED
        BY <4>1, <4>2, <4>3, SMT
    <3>3. ChainOrder(r)'
      BY <1>2, NextKeepsOrder
    <3>4. QED
      BY <2>2, <3>1, <3>2, <3>3
  <2>3. QED
    BY <2>1, <2>2
<1>3. ASSUME NEW r \in Requests, NEW h \in Handlers, NEW m \in Method, CallRes(r, h, m)
      PROVE ChainInv'
  BY <1>3 DEF CallRes, ChainInv, ChainOrder, Started
<1>4. ASSUME NEW r \in Requests, NEW h \in Handlers, Finish(r, h) PROVE ChainInv'
  BY <1>4 DEF Finish, lambdaVars, TypeOK, ChainInv, ChainOrder, Started
<1>5. ASSUME NEW c \in Containers, Return(c) PROVE ChainInv'
  BY <1>5 DEF Return, closureVars, ChainInv, ChainOrder, Started
<1>6. ASSUME NEW c \in Containers, Drain(c) PROVE ChainInv'
  BY <1>6 DEF Drain, closureVars, ChainInv, ChainOrder, Started
<1>7. ASSUME NEW c \in Containers, Kill(c) PROVE ChainInv'
  BY <1>7 DEF Kill, TypeOK, ChainInv, ChainOrder, Started
<1>8. CASE UNCHANGED vars
  BY <1>8 DEF vars, ChainInv, ChainOrder, Started
<1>9. QED
  BY <1>1, <1>2, <1>3, <1>4, <1>5, <1>6, <1>7, <1>8 DEF Next

(***************************************************************************)
(* Handlers guard the handlers after them: for every route length, and     *)
(* however requests share containers, a handler is entered only after all  *)
(* earlier ones passed control on, unless one of them did so twice.        *)
(***************************************************************************)
THEOREM DelegationOrderCorrect == Spec => []DelegationOrder
<1>1. Init => ChainInv
  BY NAssumption, SMT DEF Init, ChainInv, ChainOrder, Started, Handlers
<1>2. ChainInv => DelegationOrder
  BY DEF ChainInv, DelegationOrder
<1>3. QED
  BY <1>1, <1>2, ChainStep, TypeCorrect, PTL DEF Spec
-----------------------------------------------------------------------------
Call == Method \X Handlers
Wrote == {"write", "endData", "json"}

\* A set of natural numbers that is not empty has a least element.
LEMMA MinOfNat ==
  ASSUME NEW S \in SUBSET Nat, S # {}
  PROVE  Min(S) \in S /\ \A y \in S : Min(S) <= y
<1>1. PICK x \in S : \A y \in S : ~(<<y, x>> \in OpToRel(<, Nat))
  BY NatLessThanWellFounded, WFMin
<1>2. \A y \in S : ~(y < x)
  BY <1>1, Zenon DEF OpToRel
<1>3. \A y \in S : x <= y
  BY <1>2
<1> QED BY <1>3 DEF Min

\* One of natural numbers up to n has a greatest.
LEMMA MaxUpTo ==
  ASSUME NEW n \in Nat, NEW S \in SUBSET (1..n), S # {}
  PROVE  Max(S) \in S /\ \A y \in S : Max(S) >= y
<1> DEFINE D == {d \in 0..n : n - d \in S}
<1>1. D \in SUBSET Nat /\ D # {}
  <2>1. PICK x \in S : TRUE
    OBVIOUS
  <2>2. n - x \in 0..n /\ n - (n - x) = x
    OBVIOUS
  <2>3. n - x \in D
    BY <2>2
  <2>4. \A d \in D : d \in Nat
    OBVIOUS
  <2> HIDE DEF D
  <2> QED BY <2>3, <2>4
<1>2. Min(D) \in D /\ \A d \in D : Min(D) <= d
  BY <1>1, MinOfNat
<1>3. n - Min(D) \in S
  BY <1>2
<1>4. ASSUME NEW y \in S PROVE n - Min(D) >= y
  <2>1. n - y \in 0..n /\ n - (n - y) = y
    OBVIOUS
  <2>2. n - y \in D
    BY <2>1
  <2>3. Min(D) <= n - y /\ Min(D) \in 0..n
    BY <1>2, <2>2
  <2> QED BY <2>3
<1> QED BY <1>3, <1>4 DEF Max

(***************************************************************************)
(* One more call of a method of res: where the calls of given methods      *)
(* stand in the log afterwards.                                            *)
(***************************************************************************)
LEMMA CallsOfAppend ==
  ASSUME NEW l \in Seq(Call), NEW e \in Call, NEW methods
  PROVE  /\ CallsOf(l, methods) \subseteq 1..Len(l)
         /\ CallsOf(Append(l, e), methods)
              = IF e[1] \in methods THEN CallsOf(l, methods) \cup {Len(l) + 1}
                ELSE CallsOf(l, methods)
<1>1. /\ Len(Append(l, e)) = Len(l) + 1 /\ Len(l) \in Nat
      /\ \A i \in 1..Len(l) : Append(l, e)[i] = l[i]
      /\ Append(l, e)[Len(l) + 1] = e
  BY AppendProperties
<1>2. 1..(Len(l) + 1) = (1..Len(l)) \cup {Len(l) + 1} /\ Len(l) + 1 \notin 1..Len(l)
  BY <1>1
<1> QED BY <1>1, <1>2 DEF CallsOf

\* The first reply stays the first one.
LEMMA FirstReplyAppend ==
  ASSUME NEW l \in Seq(Call), NEW e \in Call
  PROVE  /\ FirstReply(l) # 0 => /\ FirstReply(Append(l, e)) = FirstReply(l)
                                 /\ FirstReply(l) \in 1..Len(l)
         /\ FirstReply(l) = 0 =>
              FirstReply(Append(l, e)) = IF e[1] \in Replying THEN Len(l) + 1 ELSE 0
<1> DEFINE S == CallsOf(l, Replying)
           T == CallsOf(Append(l, e), Replying)
<1>1. S \subseteq 1..Len(l) /\ T = IF e[1] \in Replying THEN S \cup {Len(l) + 1} ELSE S
  BY CallsOfAppend
<1>2. Len(l) \in Nat
  OBVIOUS
<1>3. FirstReply(l) = IF S = {} THEN 0 ELSE Min(S)
  BY DEF FirstReply
<1>4. FirstReply(Append(l, e)) = IF T = {} THEN 0 ELSE Min(T)
  BY DEF FirstReply
<1> HIDE DEF S, T
<1>5. CASE S = {}
  <2>1. Min({Len(l) + 1}) = Len(l) + 1
    BY <1>2, MinOfNat
  <2> QED BY <1>1, <1>3, <1>4, <1>5, <2>1
<1>6. CASE S # {}
  <2>1. Min(S) \in S /\ \A y \in S : Min(S) <= y
    BY <1>1, <1>2, <1>6, MinOfNat
  <2>2. T # {} /\ T \in SUBSET Nat
    <3>1. 1..Len(l) \subseteq Nat /\ Len(l) + 1 \in Nat
      BY <1>2
    <3> QED BY <1>1, <1>6, <3>1
  <2>3. Min(T) \in T /\ \A y \in T : Min(T) <= y
    BY <2>2, MinOfNat
  <2>4. Min(S) \in T /\ Min(S) \in 1..Len(l) /\ Min(T) \in Nat
    BY <1>1, <2>1, <2>2, <2>3
  <2>5. Min(T) <= Min(S) /\ Min(T) # Len(l) + 1
    BY <1>2, <2>3, <2>4
  <2>6. Min(T) \in S
    BY <1>1, <2>3, <2>5
  <2>7. Min(T) = Min(S)
    BY <2>1, <2>4, <2>5, <2>6
  <2> QED BY <1>1, <1>3, <1>4, <1>6, <2>2, <2>4, <2>7
<1> QED BY <1>5, <1>6

\* What a call does to the status, the headers and the body promised for l.
LEMMA StatusOfAppend ==
  ASSUME NEW l \in Seq(Call), NEW e \in Call
  PROVE  StatusOf(Append(l, e)) = CASE e[1] = "status"   -> 404
                                    [] e[1] = "redirect" -> 302
                                    [] OTHER             -> StatusOf(l)
<1> DEFINE S == CallsOf(l, {"status", "redirect"})
           T == CallsOf(Append(l, e), {"status", "redirect"})
<1>1. /\ S \subseteq 1..Len(l)
      /\ T = IF e[1] \in {"status", "redirect"} THEN S \cup {Len(l) + 1} ELSE S
  BY CallsOfAppend
<1>2. /\ Len(l) \in Nat
      /\ \A i \in 1..Len(l) : Append(l, e)[i] = l[i]
      /\ Append(l, e)[Len(l) + 1] = e
  BY AppendProperties
<1>3. StatusOf(l) = IF S = {} THEN 200 ELSE IF l[Max(S)][1] = "status" THEN 404 ELSE 302
  BY DEF StatusOf
<1>4. StatusOf(Append(l, e))
        = IF T = {} THEN 200 ELSE IF Append(l, e)[Max(T)][1] = "status" THEN 404 ELSE 302
  BY DEF StatusOf
<1> HIDE DEF S, T
<1>5. CASE e[1] \in {"status", "redirect"}
  <2>1. Len(l) + 1 \in T /\ \A y \in T : Len(l) + 1 >= y
    BY <1>1, <1>2, <1>5
  <2>2. \A x \in T : (\A y \in T : x >= y) => x = Len(l) + 1
    BY <1>1, <1>2, <1>5
  <2>3. Max(T) = Len(l) + 1
    BY <2>1, <2>2 DEF Max
  <2> QED BY <1>2, <1>4, <1>5, <2>1, <2>3
<1>6. CASE e[1] \notin {"status", "redirect"}
  <2>1. CASE S = {}
    BY <1>1, <1>3, <1>4, <1>6, <2>1
  <2>2. CASE S # {}
    <3>1. Max(S) \in 1..Len(l)
      BY <1>1, <1>2, <2>2, MaxUpTo
    <3> QED BY <1>1, <1>2, <1>3, <1>4, <1>6, <2>2, <3>1
  <2> QED BY <2>1, <2>2
<1> QED BY <1>5, <1>6
LEMMA HeadersOfAppend ==
  ASSUME NEW l \in Seq(Call), NEW e \in Call
  PROVE  HeadersOf(Append(l, e)) = CASE e[1] = "setHeader" -> HeadersOf(l) \cup {"x-custom"}
                                     [] e[1] = "json"      -> HeadersOf(l) \cup {"content-type"}
                                     [] e[1] = "redirect"  -> HeadersOf(l) \cup {"Location"}
                                     [] OTHER              -> HeadersOf(l)
<1> DEFINE Sets(c, n) == <<c[1], n>> \in {<<"setHeader", "x-custom">>, <<"json", "content-type">>,
                                          <<"redirect", "Location">>}
<1>1. /\ Len(Append(l, e)) = Len(l) + 1 /\ Len(l) \in Nat
      /\ \A i \in 1..Len(l) : Append(l, e)[i] = l[i]
      /\ Append(l, e)[Len(l) + 1] = e
  BY AppendProperties
<1>2. 1..(Len(l) + 1) = (1..Len(l)) \cup {Len(l) + 1}
  BY <1>1
<1>3. ASSUME NEW n \in HeaderName
      PROVE  n \in HeadersOf(Append(l, e)) <=> n \in HeadersOf(l) \/ Sets(e, n)
  <2>1. n \in HeadersOf(l) <=> \E i \in 1..Len(l) : Sets(l[i], n)
    BY DEF HeadersOf
  <2>2. n \in HeadersOf(Append(l, e))
          <=> \E i \in 1..Len(Append(l, e)) : Sets(Append(l, e)[i], n)
    BY DEF HeadersOf
  <2> HIDE DEF Sets
  <2> QED BY <1>1, <1>2, <2>1, <2>2
<1>4. HeadersOf(l) \subseteq HeaderName /\ HeadersOf(Append(l, e)) \subseteq HeaderName
  BY DEF HeadersOf
<1>5. /\ \A n \in HeaderName : Sets(e, n) <=> \/ e[1] = "setHeader" /\ n = "x-custom"
                                              \/ e[1] = "json" /\ n = "content-type"
                                              \/ e[1] = "redirect" /\ n = "Location"
      /\ {"x-custom", "content-type", "Location"} \subseteq HeaderName
  BY DEF HeaderName
<1> HIDE DEF Sets
<1> QED BY <1>3, <1>4, <1>5

(***************************************************************************)
(* A call that writes puts its chunk at the end of the body, and any other *)
(* call leaves the order of the chunks alone.                              *)
(***************************************************************************)
LEMMA IsBodyOfAppend ==
  ASSUME NEW l \in Seq(Call), NEW e \in Call, NEW body \in Seq(Handlers), IsBodyOf(body, l)
  PROVE  IsBodyOf(IF e[1] \in Wrote THEN Append(body, e[2]) ELSE body, Append(l, e))
<1> DEFINE S == CallsOf(l, Wrote)
           T == CallsOf(Append(l, e), Wrote)
           Upto(U, i) == {j \in U : j <= i}
           after == IF e[1] \in Wrote THEN Append(body, e[2]) ELSE body
<1>1. S \subseteq 1..Len(l) /\ T = IF e[1] \in Wrote THEN S \cup {Len(l) + 1} ELSE S
  BY CallsOfAppend
<1>2. /\ Len(l) \in Nat
      /\ \A i \in 1..Len(l) : Append(l, e)[i] = l[i]
      /\ Append(l, e)[Len(l) + 1] = e
  BY AppendProperties
<1>3. Len(body) = Cardinality(S) /\ \A i \in S : body[Cardinality(Upto(S, i))] = l[i][2]
  BY DEF IsBodyOf, Wrote
<1>4. ASSUME Len(after) = Cardinality(T),
             \A i \in T : after[Cardinality(Upto(T, i))] = Append(l, e)[i][2]
      PROVE  IsBodyOf(after, Append(l, e))
  BY <1>4 DEF IsBodyOf, Wrote
<1>5. IsFiniteSet(S)
  <2>1. IsFiniteSet(1..Len(l))
    BY <1>2, FS_Interval
  <2> HIDE DEF S
  <2> QED BY <1>1, <2>1, FS_Subset
<1>6. CASE e[1] \notin Wrote
  <2>1. T = S /\ after = body
    BY <1>1, <1>6
  <2>2. \A i \in S : Append(l, e)[i] = l[i]
    BY <1>1, <1>2
  <2> HIDE DEF S, T, after
  <2> QED BY <1>3, <1>4, <2>1, <2>2 DEF after
<1>7. CASE e[1] \in Wrote
  <2>1. T = S \cup {Len(l) + 1} /\ Len(l) + 1 \notin S
    BY <1>1, <1>2, <1>7
  <2>2. Cardinality(T) = Cardinality(S) + 1 /\ Cardinality(S) \in Nat
    <3> HIDE DEF S, T
    <3> QED BY <1>5, <2>1, FS_AddElement, FS_CardinalityType
  <2>3. e[2] \in Handlers
    BY DEF Call
  <2>4. /\ Len(after) = Len(body) + 1 /\ after[Len(body) + 1] = e[2]
        /\ \A k \in 1..Len(body) : after[k] = body[k]
    BY <1>7, <2>3, AppendProperties
  <2>5. ASSUME NEW i \in T
        PROVE  after[Cardinality(Upto(T, i))] = Append(l, e)[i][2]
    <3>1. CASE i = Len(l) + 1
      <4>1. Upto(T, i) = T
        BY <1>1, <1>2, <2>1, <3>1
      <4> HIDE DEF S, T, after, Upto
      <4> QED BY <1>2, <1>3, <2>2, <2>4, <3>1, <4>1
    <3>2. CASE i # Len(l) + 1
      <4>1. i \in S /\ Append(l, e)[i] = l[i] /\ i \in Nat /\ i < Len(l) + 1
        BY <1>1, <1>2, <2>1, <3>2
      <4>2. Upto(T, i) = Upto(S, i)
        BY <1>1, <1>2, <2>1, <4>1
      <4>3. Upto(S, i) \subseteq S /\ i \in Upto(S, i)
        BY <4>1
      <4> HIDE DEF S, T, after, Upto
      <4>4. /\ IsFiniteSet(Upto(S, i)) /\ Cardinality(Upto(S, i)) <= Cardinality(S)
            /\ Cardinality(Upto(S, i)) \in Nat /\ Cardinality(Upto(S, i)) # 0
        BY <1>5, <4>3, FS_Subset, FS_CardinalityType, FS_EmptySet
      <4>5. Cardinality(Upto(S, i)) \in 1..Len(body)
        BY <1>3, <2>2, <4>4
      <4> QED BY <1>3, <2>4, <4>1, <4>2, <4>5
    <3> QED BY <3>1, <3>2
  <2>6. Len(after) = Cardinality(T)
    <3> HIDE DEF S, T, after
    <3> QED BY <1>3, <2>2, <2>4
  <2> HIDE DEF S, T, after, Upto
  <2> QED BY <1>4, <2>5, <2>6 DEF Upto, after
<1> QED BY <1>6, <1>7
(***************************************************************************)
(* The response object stays what the documentation promises for the calls *)
(* made so far, whichever method is called next (aws/api.ts 390-455).      *)
(***************************************************************************)
LEMMA EffectPromised ==
  ASSUME NEW res \in Response, NEW l \in Seq(Call), NEW h \in Handlers, NEW m \in Method,
         Promised(res, l)
  PROVE  Promised(Effect(res, h, m), Append(l, <<m, h>>))
<1> DEFINE e == <<m, h>>
           next == Effect(res, h, m)
<1>1. e \in Call /\ e[1] = m /\ e[2] = h
  BY DEF Call
<1>2. /\ res.statusCode = StatusOf(l) /\ res.headers = HeadersOf(l) /\ IsBodyOf(res.body, l)
      /\ res.body \in Seq(Handlers)
  BY DEF Promised, Response
<1>3. /\ next.statusCode = CASE m = "status"   -> 404
                             [] m = "redirect" -> 302
                             [] OTHER          -> res.statusCode
      /\ next.headers = CASE m = "setHeader" -> res.headers \cup {"x-custom"}
                          [] m = "json"      -> res.headers \cup {"content-type"}
                          [] m = "redirect"  -> res.headers \cup {"Location"}
                          [] OTHER           -> res.headers
      /\ next.body = IF m \in Wrote THEN Append(res.body, h) ELSE res.body
  <2>1. res \in [statusCode : StatusCode, headers : SUBSET HeaderName, body : Seq(Handlers)]
    BY DEF Response
  <2> QED BY <2>1 DEF Effect, Status, SetHeader, Write, Method, Wrote
<1> HIDE DEF next, e
<1>4. next.statusCode = StatusOf(Append(l, e))
  BY <1>1, <1>2, <1>3, StatusOfAppend
<1>5. next.headers = HeadersOf(Append(l, e))
  BY <1>1, <1>2, <1>3, HeadersOfAppend
<1>6. IsBodyOf(next.body, Append(l, e))
  BY <1>1, <1>2, <1>3, IsBodyOfAppend
<1> QED BY <1>4, <1>5, <1>6 DEF Promised, next, e

-----------------------------------------------------------------------------
(***************************************************************************)
(* What ReplyIsOwn needs to be inductive: the response object of a request *)
(* is the one promised for its log, Lambda was given the one promised for  *)
(* the log up to its first reply, and nothing yet only when no handler has *)
(* replied while the container was serving the request.                    *)
(***************************************************************************)
ReplyInv ==
  /\ \A c \in Containers : serving[c] # None => home[serving[c]] = c
  /\ \A r \in Requests :
       /\ home[r] = None => log[r] = <<>> /\ result[r] = None
       /\ Promised(response[r], log[r])
       /\ result[r] # None =>
            /\ FirstReply(log[r]) # 0
            /\ Promised(result[r], SubSeq(log[r], 1, FirstReply(log[r])))
       /\ home[r] # None /\ serving[home[r]] = r /\ result[r] = None => FirstReply(log[r]) = 0
       /\ outcome[r] = "reply" => result[r] # None

\* Nothing was called: the response a request starts from, and no reply.
LEMMA FreshPromised == Promised(FreshResponse, <<>>) /\ FirstReply(<<>>) = 0
<1>1. Len(<<>>) = 0 /\ \A methods : CallsOf(<<>>, methods) = {}
  BY DEF CallsOf
<1>2. Cardinality({}) = 0
  BY FS_EmptySet
<1>3. HeadersOf(<<>>) = {}
  BY <1>1 DEF HeadersOf
<1>4. IsBodyOf(<<>>, <<>>)
  BY <1>1, <1>2 DEF IsBodyOf
<1> QED BY <1>1, <1>3, <1>4 DEF Promised, FreshResponse, StatusOf, FirstReply

\* A log is the log up to its last call, also when it has grown by one.
LEMMA Prefixes ==
  ASSUME NEW l \in Seq(Call), NEW e \in Call
  PROVE  /\ SubSeq(Append(l, e), 1, Len(l) + 1) = Append(l, e)
         /\ \A n \in 1..Len(l) : SubSeq(Append(l, e), 1, n) = SubSeq(l, 1, n)
<1>1. /\ Append(l, e) \in Seq(Call) /\ Len(Append(l, e)) = Len(l) + 1
      /\ <<e>> \in Seq(Call) /\ Append(l, e) = l \o <<e>>
  BY AppendProperties, AppendIsConcat
<1>2. SubSeq(Append(l, e), 1, Len(l) + 1) = Append(l, e)
  BY <1>1, SubSeqFull
<1>3. ASSUME NEW n \in 1..Len(l)
      PROVE  SubSeq(Append(l, e), 1, n) = SubSeq(l, 1, n)
  <2>1. 1 \in 1..Len(l)
    BY <1>1
  <2> QED BY <1>1, <2>1, SubSeqOfConcat1
<1> QED BY <1>2, <1>3

(***************************************************************************)
(* A call of a method of res keeps the invariant: the first reply while    *)
(* the container serves the request is the one Lambda takes, and a later   *)
(* one neither replaces it nor changes what was promised up to the first.  *)
(***************************************************************************)
LEMMA CallResKeepsReply ==
  ASSUME TypeOK, ReplyInv, NEW r \in Requests, NEW h \in Handlers, NEW m \in Method,
         CallRes(r, h, m)
  PROVE  ReplyInv'
<1> DEFINE e == <<m, h>>
           l == log[r]
           next == Effect(response[r], h, m)
<1>1. /\ l \in Seq(Call) /\ e \in Call /\ e[1] = m
      /\ response[r] \in Response /\ next \in Response
  BY EffectType DEF TypeOK, Call
<1>2. /\ log' = [log EXCEPT ![r] = Append(l, e)]
      /\ response' = [response EXCEPT ![r] = next]
      /\ home[r] # None /\ home' = home /\ serving' = serving /\ outcome' = outcome
  BY DEF CallRes, Acts
<1>3. result' = IF m \in Replying /\ result[r] = None /\ serving[home[r]] = r
                THEN [result EXCEPT ![r] = next] ELSE result
  BY DEF CallRes, Callback, Snapshot
<1>4. Promised(next, Append(l, e))
  BY <1>1, EffectPromised DEF ReplyInv
<1>5. next # None
  BY <1>1, NoResultAssumption
<1> HIDE DEF e, l, next
<1>6. /\ log'[r] = Append(l, e) /\ response'[r] = next
      /\ \A q \in Requests : q # r => log'[q] = log[q] /\ response'[q] = response[q]
                                        /\ result'[q] = result[q]
      /\ log[r] = l
      /\ result'[r] = IF m \in Replying /\ result[r] = None /\ serving[home[r]] = r
                      THEN next ELSE result[r]
  BY <1>2, <1>3 DEF TypeOK, l
<1>7. /\ FirstReply(l) # 0 => /\ FirstReply(Append(l, e)) = FirstReply(l)
                              /\ FirstReply(l) \in 1..Len(l)
      /\ FirstReply(l) = 0 =>
           FirstReply(Append(l, e)) = IF m \in Replying THEN Len(l) + 1 ELSE 0
  BY <1>1, FirstReplyAppend
<1>8. ASSUME result'[r] # None
      PROVE  /\ FirstReply(log'[r]) # 0
             /\ Promised(result'[r], SubSeq(log'[r], 1, FirstReply(log'[r])))
  <2>1. CASE result[r] # None
    <3>1. result'[r] = result[r]
      BY <1>6, <2>1
    <3>2. FirstReply(l) # 0 /\ Promised(result[r], SubSeq(l, 1, FirstReply(l)))
      BY <1>6, <2>1 DEF ReplyInv
    <3>3. SubSeq(Append(l, e), 1, FirstReply(l)) = SubSeq(l, 1, FirstReply(l))
      BY <1>1, <1>7, <3>2, Prefixes
    <3> QED BY <1>6, <1>7, <3>1, <3>2, <3>3
  <2>2. CASE result[r] = None
    <3>1. m \in Replying /\ serving[home[r]] = r /\ result'[r] = next
      BY <1>6, <1>8, <2>2
    <3>2. FirstReply(l) = 0
      BY <1>2, <1>6, <2>2, <3>1 DEF ReplyInv
    <3>3. FirstReply(Append(l, e)) = Len(l) + 1 /\ Len(l) + 1 # 0
      BY <1>1, <1>7, <3>1, <3>2
    <3>4. SubSeq(Append(l, e), 1, Len(l) + 1) = Append(l, e)
      BY <1>1, Prefixes
    <3> QED BY <1>4, <1>6, <3>1, <3>3, <3>4
  <2> QED BY <2>1, <2>2
<1>9. ASSUME serving[home[r]] = r, result'[r] = None
      PROVE  FirstReply(log'[r]) = 0
  <2>1. result[r] = None /\ m \notin Replying
    BY <1>5, <1>6, <1>9
  <2>2. FirstReply(l) = 0
    BY <1>2, <1>6, <1>9, <2>1 DEF ReplyInv
  <2> QED BY <1>6, <1>7, <2>1, <2>2
<1>10. outcome'[r] = "reply" => result'[r] # None
  BY <1>2, <1>5, <1>6 DEF ReplyInv
<1>11. Promised(response'[r], log'[r])
  BY <1>4, <1>6
<1>12. ASSUME NEW q \in Requests
       PROVE  /\ home'[q] = None => log'[q] = <<>> /\ result'[q] = None
              /\ Promised(response'[q], log'[q])
              /\ result'[q] # None =>
                   /\ FirstReply(log'[q]) # 0
                   /\ Promised(result'[q], SubSeq(log'[q], 1, FirstReply(log'[q])))
              /\ home'[q] # None /\ serving'[home'[q]] = q /\ result'[q] = None
                   => FirstReply(log'[q]) = 0
              /\ outcome'[q] = "reply" => result'[q] # None
  <2>1. CASE q = r
    BY <1>2, <1>8, <1>9, <1>10, <1>11, <2>1
  <2>2. CASE q # r
    BY <1>2, <1>6, <2>2 DEF ReplyInv
  <2> QED BY <2>1, <2>2
<1> QED BY <1>2, <1>12 DEF ReplyInv
\* The closures and the results are left alone, and no request is answered
\* that has no result: the invariant only depends on them.
LEMMA RestKeepsReply ==
  ASSUME TypeOK, ReplyInv,
         UNCHANGED <<response, log, result, home>>,
         \A c \in Containers : serving'[c] \in {serving[c], None},
         \A r \in Requests : outcome'[r] = outcome[r] \/ outcome'[r] # "reply"
                               \/ result[r] # None
  PROVE  ReplyInv'
<1>1. \A c \in Containers : serving'[c] # None => serving'[c] = serving[c]
  OBVIOUS
<1>2. \A c \in Containers : serving'[c] # None => home[serving'[c]] = c
  BY <1>1 DEF ReplyInv
<1>3. ASSUME NEW q \in Requests, home[q] # None, serving'[home[q]] = q
      PROVE  serving[home[q]] = q
  <2>1. home[q] \in Containers /\ q # None
    BY <1>3, NoneAssumption DEF TypeOK
  <2> QED BY <1>1, <1>3, <2>1
<1> QED BY <1>2, <1>3 DEF ReplyInv

(***************************************************************************)
(* Every step keeps the invariant about replies.                           *)
(***************************************************************************)
LEMMA ReplyStep == TypeOK /\ ReplyInv /\ [Next]_vars => ReplyInv'
<1> SUFFICES ASSUME TypeOK, ReplyInv, [Next]_vars PROVE ReplyInv'
  OBVIOUS
<1>1. ASSUME NEW r \in Requests, NEW c \in Containers, Invoke(r, c) PROVE ReplyInv'
  <2>1. /\ home[r] = None /\ serving[c] = None /\ c # None
        /\ home' = [home EXCEPT ![r] = c] /\ serving' = [serving EXCEPT ![c] = r]
        /\ response' = [response EXCEPT ![r] = FreshResponse]
        /\ log' = log /\ result' = result /\ outcome' = outcome
    BY <1>1, NoneAssumption DEF Invoke
  <2>2. log[r] = <<>> /\ result[r] = None
    BY <2>1 DEF ReplyInv
  <2>3. ASSUME NEW d \in Containers, serving'[d] # None PROVE home'[serving'[d]] = d
    <3>1. CASE d = c
      BY <2>1, <3>1 DEF TypeOK
    <3>2. CASE d # c
      <4>1. serving'[d] = serving[d] /\ serving[d] \in Requests /\ home[serving[d]] = d
        BY <2>1, <2>3, <3>2 DEF TypeOK, ReplyInv
      <4>2. d # None
        BY NoneAssumption
      <4>3. serving[d] # r
        BY <2>1, <4>1, <4>2
      <4> QED BY <2>1, <4>1, <4>3 DEF TypeOK
    <3> QED BY <3>1, <3>2
  <2>4. ASSUME NEW q \in Requests
        PROVE  /\ home'[q] = None => log'[q] = <<>> /\ result'[q] = None
               /\ Promised(response'[q], log'[q])
               /\ result'[q] # None =>
                    /\ FirstReply(log'[q]) # 0
                    /\ Promised(result'[q], SubSeq(log'[q], 1, FirstReply(log'[q])))
               /\ home'[q] # None /\ serving'[home'[q]] = q /\ result'[q] = None
                    => FirstReply(log'[q]) = 0
               /\ outcome'[q] = "reply" => result'[q] # None
    <3>1. CASE q = r
      <4>1. home'[r] = c /\ response'[r] = FreshResponse
        BY <2>1 DEF TypeOK
      <4>2. outcome[r] # "reply"
        BY <2>2 DEF ReplyInv
      <4> QED BY <2>1, <2>2, <3>1, <4>1, <4>2, FreshPromised
    <3>2. CASE q # r
      <4>1. home'[q] = home[q] /\ response'[q] = response[q]
        BY <2>1, <3>2 DEF TypeOK
      <4>2. ASSUME home[q] # None, serving'[home[q]] = q PROVE serving[home[q]] = q
        BY <2>1, <3>2, <4>2 DEF TypeOK
      <4> QED BY <2>1, <4>1, <4>2 DEF ReplyInv
    <3> QED BY <3>1, <3>2
  <2> QED BY <2>3, <2>4 DEF ReplyInv
<1>2. ASSUME NEW r \in Requests, NEW h \in Handlers, CallNext(r, h) PROVE ReplyInv'
  BY <1>2, RestKeepsReply DEF CallNext, lambdaVars
<1>3. ASSUME NEW r \in Requests, NEW h \in Handlers, NEW m \in Method, CallRes(r, h, m)
      PROVE ReplyInv'
  BY <1>3, CallResKeepsReply
<1>4. ASSUME NEW r \in Requests, NEW h \in Handlers, Finish(r, h) PROVE ReplyInv'
  BY <1>4, RestKeepsReply DEF Finish, lambdaVars
<1>5. ASSUME NEW c \in Containers, Return(c) PROVE ReplyInv'
  <2>1. \A d \in Containers : serving'[d] \in {serving[d], None}
    BY <1>5 DEF Return, TypeOK
  <2>2. \A r \in Requests : outcome'[r] = outcome[r] \/ result[r] # None
    BY <1>5 DEF Return, TypeOK
  <2> QED BY <1>5, <2>1, <2>2, RestKeepsReply DEF Return, closureVars
<1>6. ASSUME NEW c \in Containers, Drain(c) PROVE ReplyInv'
  <2>1. \A d \in Containers : serving'[d] \in {serving[d], None}
    BY <1>6 DEF Drain, TypeOK
  <2>2. \A r \in Requests : outcome'[r] = outcome[r] \/ outcome'[r] # "reply"
    BY <1>6 DEF Drain, TypeOK
  <2> QED BY <1>6, <2>1, <2>2, RestKeepsReply DEF Drain, closureVars
<1>7. ASSUME NEW c \in Containers, Kill(c) PROVE ReplyInv'
  <2>1. \A d \in Containers : serving'[d] \in {serving[d], None}
    BY <1>7 DEF Kill, TypeOK
  <2>2. \A r \in Requests : outcome'[r] = outcome[r] \/ outcome'[r] # "reply"
    BY <1>7 DEF Kill, TypeOK
  <2> QED BY <1>7, <2>1, <2>2, RestKeepsReply DEF Kill
<1>8. CASE UNCHANGED vars
  BY <1>8, RestKeepsReply DEF vars
<1>9. QED
  BY <1>1, <1>2, <1>3, <1>4, <1>5, <1>6, <1>7, <1>8 DEF Next

(***************************************************************************)
(* For every route, every number of requests and containers and every      *)
(* order of the handlers' calls: what a client gets is what its own        *)
(* handlers had put into the response by the first reply, whatever is      *)
(* called afterwards, in this container or another (aws/api.ts 342-346,    *)
(* 390-455).                                                               *)
(***************************************************************************)
THEOREM ReplyIsOwnCorrect == Spec => []ReplyIsOwn
<1>1. Init => ReplyInv
  BY FreshPromised DEF Init, ReplyInv
<1>2. ReplyInv => ReplyIsOwn
  BY DEF ReplyInv, ReplyIsOwn
<1>3. QED
  BY <1>1, <1>2, ReplyStep, TypeCorrect, PTL DEF Spec
=============================================================================
