----------------------------- MODULE ApiRequest -----------------------------
(***************************************************************************)
(* The run-time half of aws/api.ts: the Lambda callback convertHandlers    *)
(* builds for one route, with the Request/Response pair of                 *)
(* apiGatewayToRequestResponse, while Lambda containers serve requests.    *)
(*                                                                         *)
(* A route has N handlers.  A handler is user code, so a started handler   *)
(* may call any method of `res`, or `next`, any number of times, in any    *)
(* order and after any await.  callbackWaitsForEmptyEventLoop is cleared,  *)
(* so the container is frozen as soon as the callback was called and the   *)
(* handlers still pending resume while a LATER request is being served.    *)
(***************************************************************************)
EXTENDS Naturals, Sequences, FiniteSets, FiniteSetsExt

CONSTANTS Requests,    \* the requests API Gateway routes to this function
          Containers,  \* the Lambda containers (node processes) running it
          N,           \* the number of handlers of the route
          MaxNext,     \* bound: calls of next() per request
          MaxOps,      \* bound: calls of methods of res, all requests together
          None         \* "not yet": no container, no request, no result

ASSUME NAssumption     == N \in Nat
ASSUME BoundAssumption == MaxNext \in Nat \ {0} /\ MaxOps \in Nat
ASSUME NoneAssumption  == None \notin Requests \cup Containers

VARIABLES cursor,    \* `i` of the closure: how often next() was called
          active,    \* handlers called and not yet done
          calls,     \* history: how often each handler called next
          response,  \* the mutable `response` object of the closure
          log,       \* history: the calls of res methods, in order
          waits,     \* ctx.callbackWaitsForEmptyEventLoop
          result,    \* what the first call of cb was given
          outcome,   \* what API Gateway got: a reply, nothing or an error
          serving,   \* the request a container is thawed for, or None
          home       \* the container a request was sent to, or None

closureVars == <<cursor, active, calls, response, log, waits>>
lambdaVars  == <<result, outcome, serving, home>>
vars        == <<cursor, active, calls, response, log, waits,
                 result, outcome, serving, home>>

Handlers   == 1..N
StatusCode == {200, 302, 404}
HeaderName == {"content-type", "Location", "x-custom"}
\* A chunk of the body is named by the handler that wrote it.
Response   == [statusCode : StatusCode, headers : SUBSET HeaderName, body : Seq(Handlers)]
ASSUME NoResultAssumption == None \notin Response
Method     == {"status", "setHeader", "write", "end", "endData", "json", "redirect"}
Replying   == {"end", "endData", "json", "redirect"}

-----------------------------------------------------------------------------
\* The object literal apiGatewayToRequestResponse starts from.
FreshResponse == [statusCode |-> 200, headers |-> {}, body |-> <<>>]

Status(res, code)    == [res EXCEPT !.statusCode = code]
SetHeader(res, name) == [res EXCEPT !.headers = @ \cup {name}]
Write(res, h)        == [res EXCEPT !.body = Append(@, h)]

\* A step of r's handler h: started, pending, and in a thawed container.
Acts(r, h) ==
  /\ h \in active[r]
  /\ home[r] # None
  /\ serving[home[r]] # None

\* Mutants of StartNext: handlers[++i]; one `i` for all the requests.
StartNextPreIncrement(r) ==
  /\ cursor' = [cursor EXCEPT ![r] = @ + 1]
  /\ active' = [active EXCEPT ![r] = @ \cup {cursor[r] + 2}]
StartNextShared(r) ==
  /\ cursor' = [q \in Requests |-> cursor[q] + 1]
  /\ active' = IF cursor[r] < N
               THEN [active EXCEPT ![r] = @ \cup {cursor[r] + 1}]
               ELSE active

\* next(): the handler at the cursor, when there is one, is called.
StartNext(r) ==
  /\ cursor' = [cursor EXCEPT ![r] = @ + 1]
  /\ active' = IF cursor[r] < N
               THEN [active EXCEPT ![r] = @ \cup {cursor[r] + 1}]
               ELSE active

\* Lambda takes the first result of the invocation it is serving; a later
\* call of cb, and one from an invocation that is over, is ignored.
Callback(r, res) ==
  result' = IF result[r] = None /\ serving[home[r]] = r
            THEN [result EXCEPT ![r] = res]
            ELSE result

-----------------------------------------------------------------------------
Init ==
  /\ cursor   = [r \in Requests |-> 0]
  /\ active   = [r \in Requests |-> {}]
  /\ calls    = [r \in Requests |-> [h \in Handlers |-> 0]]
  /\ response = [r \in Requests |-> FreshResponse]
  /\ log      = [r \in Requests |-> <<>>]
  /\ waits    = [r \in Requests |-> TRUE]
  /\ result   = [r \in Requests |-> None]
  /\ outcome  = [r \in Requests |-> "none"]
  /\ serving  = [c \in Containers |-> None]
  /\ home     = [r \in Requests |-> None]

\* Mutant of Invoke: callbackWaitsForEmptyEventLoop keeps its default.
InvokeWaiting(r, c) ==
  /\ home[r] = None
  /\ serving[c] = None
  /\ home' = [home EXCEPT ![r] = c]
  /\ serving' = [serving EXCEPT ![c] = r]
  /\ response' = [response EXCEPT ![r] = FreshResponse]
  /\ StartNext(r)
  /\ UNCHANGED <<waits, calls, log, result, outcome>>

\* The callback runs to its end: a fresh pair, then next().
Invoke(r, c) ==
  /\ home[r] = None
  /\ serving[c] = None
  /\ home' = [home EXCEPT ![r] = c]
  /\ serving' = [serving EXCEPT ![c] = r]
  /\ waits' = [waits EXCEPT ![r] = FALSE]
  /\ response' = [response EXCEPT ![r] = FreshResponse]
  /\ StartNext(r)
  /\ UNCHANGED <<calls, log, result, outcome>>

CallNext(r, h) ==
  /\ Acts(r, h)
  /\ cursor[r] < MaxNext
  /\ StartNext(r)
  /\ calls' = [calls EXCEPT ![r][h] = @ + 1]
  /\ UNCHANGED <<response, log, waits, lambdaVars>>

\* What a call by handler h leaves in the response object.
Effect(res, h, m) ==
  CASE m = "status"              -> Status(res, 404)
    [] m = "setHeader"           -> SetHeader(res, "x-custom")
    [] m \in {"write","endData"} -> Write(res, h)
    [] m = "end"                 -> res
    [] m = "json"                -> Write(SetHeader(res, "content-type"), h)
    [] m = "redirect"            -> SetHeader(Status(res, 302), "Location")

\* Mutant of Snapshot: json sets its header after it called end.
SnapshotLateHeader(res, h, m) == IF m = "json" THEN Write(res, h) ELSE Effect(res, h, m)

\* What cb is given by a call that replies: json and redirect set their
\* headers first, end writes its data first.
Snapshot(res, h, m) == Effect(res, h, m)

\* The calls of methods of res so far, for the bound on them.
OpsMade == MapThenSumSet(LAMBDA q : Len(log[q]), Requests)

CallRes(r, h, m) ==
  /\ Acts(r, h)
  /\ OpsMade < MaxOps
  /\ response' = [response EXCEPT ![r] = Effect(@, h, m)]
  /\ log' = [log EXCEPT ![r] = Append(@, <<m, h>>)]
  /\ IF m \in Replying
     THEN Callback(r, Snapshot(response[r], h, m))
     ELSE UNCHANGED result
  /\ UNCHANGED <<cursor, active, calls, waits, outcome, serving, home>>

\* The handler has returned and its pending work, if any, is over.
Finish(r, h) ==
  /\ Acts(r, h)
  /\ active' = [active EXCEPT ![r] = @ \ {h}]
  /\ UNCHANGED <<cursor, calls, response, log, waits, lambdaVars>>

-----------------------------------------------------------------------------
\* The Lambda runtime.
LoopEmpty(c) == \A r \in Requests : home[r] = c => active[r] = {}

\* The result goes to API Gateway and the container is frozen.
Return(c) ==
  /\ serving[c] # None
  /\ result[serving[c]] # None
  /\ waits[serving[c]] => LoopEmpty(c)
  /\ outcome' = [outcome EXCEPT ![serving[c]] = "reply"]
  /\ serving' = [serving EXCEPT ![c] = None]
  /\ UNCHANGED <<closureVars, result, home>>

\* No handler is left and cb was never called: API Gateway gets nothing.
Drain(c) ==
  /\ serving[c] # None
  /\ result[serving[c]] = None
  /\ LoopEmpty(c)
  /\ outcome' = [outcome EXCEPT ![serving[c]] = "empty"]
  /\ serving' = [serving EXCEPT ![c] = None]
  /\ UNCHANGED <<closureVars, result, home>>

\* A timeout or an exception no handler caught ends the process.
Kill(c) ==
  /\ serving[c] # None
  /\ outcome' = [outcome EXCEPT ![serving[c]] = "error"]
  /\ serving' = [serving EXCEPT ![c] = None]
  /\ active' = [r \in Requests |-> IF home[r] = c THEN {} ELSE active[r]]
  /\ UNCHANGED <<cursor, calls, response, log, waits, result, home>>

Next ==
  \/ \E r \in Requests, c \in Containers : Invoke(r, c)
  \/ \E r \in Requests, h \in Handlers : CallNext(r, h)
  \/ \E r \in Requests, h \in Handlers, m \in Method : CallRes(r, h, m)
  \/ \E r \in Requests, h \in Handlers : Finish(r, h)
  \/ \E c \in Containers : Return(c)
  \/ \E c \in Containers : Drain(c)
  \/ \E c \in Containers : Kill(c)

\* Lambda returns a result it was given; user code owes nothing.
Fairness == \A c \in Containers : WF_vars(Return(c))

Spec == Init /\ [][Next]_vars /\ Fairness

-----------------------------------------------------------------------------
TypeOK ==
  /\ cursor   \in [Requests -> Nat]
  /\ active   \in [Requests -> SUBSET Handlers]
  /\ calls    \in [Requests -> [Handlers -> Nat]]
  /\ response \in [Requests -> Response]
  /\ log      \in [Requests -> Seq(Method \X Handlers)]
  /\ waits    \in [Requests -> BOOLEAN]
  /\ result   \in [Requests -> Response \cup {None}]
  /\ outcome  \in [Requests -> {"none", "reply", "empty", "error"}]
  /\ serving  \in [Containers -> Requests \cup {None}]
  /\ home     \in [Requests -> Containers \cup {None}]

\* Started(r, h): handler h of request r was called.
Started(r, h) == h <= cursor[r]

\* As long as no handler of r called next twice, a handler is started only
\* after every handler before it has called next.
ChainOrder(r) ==
  (\A h \in Handlers : calls[r][h] <= 1) =>
    \A h, k \in Handlers : h < k /\ Started(r, k) => calls[r][h] = 1

(***************************************************************************)
(* As long as no handler of a request calls next() twice, a handler is     *)
(* entered only after EVERY handler before it on the route has passed      *)
(* control on: a check done by an early handler guards all the later ones, *)
(* whatever other requests the container serves meanwhile (api/api.ts      *)
(* 111-118, aws/api.ts 318-325).                                           *)
(***************************************************************************)
DelegationOrder == \A r \in Requests : ChainOrder(r)

\* Where in l the calls of these methods stand.
CallsOf(l, methods) == {i \in 1..Len(l) : l[i][1] \in methods}

\* Position of the first call in l that replies, or 0.
FirstReply(l) ==
  LET replies == CallsOf(l, Replying) IN IF replies = {} THEN 0 ELSE Min(replies)

\* The response the documentation of Response promises for the calls in l:
\* the last status, every header, and the chunks in the order of the calls.
StatusOf(l) ==
  LET sets == CallsOf(l, {"status", "redirect"})
  IN  IF sets = {} THEN 200 ELSE IF l[Max(sets)][1] = "status" THEN 404 ELSE 302
HeadersOf(l) ==
  {n \in HeaderName : \E i \in 1..Len(l) :
     <<l[i][1], n>> \in {<<"setHeader", "x-custom">>, <<"json", "content-type">>,
                         <<"redirect", "Location">>}}
IsBodyOf(body, l) ==
  LET chunks == CallsOf(l, {"write", "endData", "json"})
  IN  /\ Len(body) = Cardinality(chunks)
      /\ \A i \in chunks : body[Cardinality({j \in chunks : j <= i})] = l[i][2]
Promised(res, l) ==
  res.statusCode = StatusOf(l) /\ res.headers = HeadersOf(l) /\ IsBodyOf(res.body, l)

(***************************************************************************)
(* The client gets what the request's own handlers had put into the        *)
(* response when one of them first replied, and nothing of what they did   *)
(* later or of another request (aws/api.ts 342-346, 390-455).              *)
(***************************************************************************)
ReplyIsOwn ==
  \A r \in Requests : outcome[r] = "reply" =>
    /\ FirstReply(log[r]) # 0
    /\ Promised(result[r], SubSeq(log[r], 1, FirstReply(log[r])))

(***************************************************************************)
(* A reply handed to Lambda reaches the client although a handler never    *)
(* finishes, because aws/api.ts 315 clears callbackWaitsForEmptyEventLoop. *)
(***************************************************************************)
RepliedIsAnswered ==
  \A r \in Requests : (result[r] # None) ~> (outcome[r] # "none")
=============================================================================
