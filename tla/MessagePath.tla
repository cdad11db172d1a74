----------------------------- MODULE MessagePath -----------------------------
(***************************************************************************)
(* Messages from service to service: the headers that a client sends, the  *)
(* request context that a server restores from them around the handler,    *)
(* what the handler sends on, and the error that comes back.               *)
(*                                                                         *)
(* A task is one asynchronous context: a root (an HTTP request, a job) or  *)
(* the processing of one message.  Tasks of all services run side by side, *)
(* and each keeps its store of AsyncLocalStorage through its awaits.       *)
(***************************************************************************)
EXTENDS Naturals, Sequences, RpcErrors

CONSTANTS
  Services,
  Gateway,        \* the service of the roots
  Calls,          \* the services that call one another, as pairs
  requestContext, \* per service, the option of its ClientNats and its ServerNats
  filter,         \* per service, NatsRpcExceptionFilter is used
  Explicit,       \* the headers a caller may pass itself, as functions
  Errors,         \* what a handler may throw, with what is meant by it
  MaxTasks        \* bound: roots and messages

ASSUME PathAssumption ==
  /\ Gateway \in Services /\ Calls \subseteq Services \X (Services \ {Gateway})
  /\ requestContext \in [Services -> [client : BOOLEAN, server : BOOLEAN]]
  /\ filter \in [Services -> BOOLEAN]
  /\ MaxTasks \in Nat

VARIABLES
  tasks,      \* in the order of their creation
  shared,     \* the headers of a NatsRecord that the application sends again and again
  connection  \* per service, the store around the connection of its ClientNats; empty before it

vars == <<tasks, shared, connection>>

(* A header name as it is written, and in lower case                       *)
TRACE == "x-trace-id"
REQUEST == "x-request-id"
Written == {TRACE, "X-Trace-Id", REQUEST, "X-Request-Id", "x-app"}
Lower(key) == CASE key = "X-Trace-Id" -> TRACE [] key = "X-Request-Id" -> REQUEST [] OTHER -> key

(* A caller does not write one name in two ways.                           *)
ASSUME WrittenOnce == \A f \in Explicit : \A k, l \in DOMAIN f : Lower(k) = Lower(l) => k = l

(* Identifiers are told apart by the task that made them.                  *)
Undefined == <<"undefined">>
EmptyString == <<"">>
Id(maker, i) == <<maker, i>>
Or(value, default) == IF value \in {Undefined, EmptyString} THEN default ELSE value

NoStore == [traceId |-> Undefined, requestId |-> Undefined]
Store(traceId, requestId) == [traceId |-> traceId, requestId |-> requestId]

-----------------------------------------------------------------------------
(* Headers *)

(* hdrs.has(key, Match.IgnoreCase)                                         *)
Has(headers, name) == \E key \in DOMAIN headers : Lower(key) = name

(* Mutant: header names are compared as they are written.                  *)
GetExact(headers, name) == IF name \in DOMAIN headers THEN headers[name] ELSE Undefined

(* hdrs.get(key, Match.IgnoreCase) *)
Get(headers, name) ==
  IF Has(headers, name) THEN headers[CHOOSE key \in DOMAIN headers : Lower(key) = name] ELSE Undefined

(* withContextHeaders(): a copy with the fields of the context that the    *)
(* caller has not set itself                                               *)
WithContextHeaders(svc, store, headers) ==
  IF ~requestContext[svc].client \/ store = NoStore THEN headers
  ELSE LET added == {name \in {TRACE, REQUEST} :
                       /\ ~Has(headers, name)
                       /\ (IF name = TRACE THEN store.traceId ELSE store.requestId) # Undefined}
       IN Spread(headers, [name \in added |-> IF name = TRACE THEN store.traceId ELSE store.requestId])

(* Mutant: the context is added to the headers of the caller.              *)
SharedInPlace(svc, store) == WithContextHeaders(svc, store, shared)

(* The object of the application after a call                              *)
SharedAfter(svc, store) == shared

(* withRequestContext(): the store of the message with index i             *)
WithRequestContext(svc, headers, i) ==
  IF ~requestContext[svc].server THEN NoStore
  ELSE Store(Or(Get(headers, TRACE), Id("generated", i)), Or(Get(headers, REQUEST), Undefined))

(* NatsContext.getTraceId() and getRequestId(), or RequestContext in a root *)
getTraceId(t) == Or(t.store.traceId, Or(Get(t.headers, TRACE), Undefined))
getRequestId(t) == Or(t.store.requestId, Or(Get(t.headers, REQUEST), Undefined))

-----------------------------------------------------------------------------
(* `own` is what the caller has passed, `call` the message whose answer it *)
(* awaits, `outcome` the error it got, `origin` (history) what was meant   *)
(* by the handler that threw it first.                                     *)
Task(svc, parent, kind, own, headers, store, status) ==
  [svc |-> svc, parent |-> parent, kind |-> kind, own |-> own, headers |-> headers, store |-> store,
   status |-> status, call |-> 0, outcome |-> {}, origin |-> {}]

Init ==
  /\ tasks = <<>>
  /\ shared = [k \in {"x-app"} |-> Id("app", 0)]
  /\ connection = [s \in Services |-> {}]

New == Len(tasks) + 1
Running(i) == tasks[i].status = "running" /\ tasks[i].call = 0

(* A request of the gateway, inside a RequestContext of its middleware or  *)
(* without one                                                             *)
Root ==
  /\ New <= MaxTasks
  /\ \E store \in {NoStore, Store(Id("root", New), Id("request", New))} :
       tasks' = Append(tasks, Task(Gateway, 0, "root", <<>>, <<>>, store, "running"))
  /\ UNCHANGED <<shared, connection>>

(* Mutant: the connection is opened inside the context of the call.        *)
OpenInside(svc, store) == IF connection[svc] = {} THEN {store} ELSE connection[svc]

(* connect() of the first call, by runOutsideRequestContext()              *)
Open(svc, store) == IF connection[svc] = {} THEN {NoStore} ELSE connection[svc]

Message(svc, to, parent, kind, own, store) ==
  Task(to, parent, kind, own, WithContextHeaders(svc, store, own), NoStore, "sent")

(* What a caller passes: the shared record, or headers of its own, each    *)
(* with a value of its own or empty                                        *)
Passed ==
  {shared} \cup {[key \in DOMAIN f |-> IF f[key] = "own" THEN Id("own", New) ELSE EmptyString] : f \in Explicit}

(* request() and send(), or event() and emit()                             *)
Call(i) ==
  /\ Running(i) /\ New <= MaxTasks
  /\ \E to \in Services, kind \in {"request", "event"}, own \in Passed :
       /\ <<tasks[i].svc, to>> \in Calls
       /\ tasks' = Append([tasks EXCEPT ![i].call = IF kind = "request" THEN New ELSE 0,
                                        ![i].outcome = {}, ![i].origin = {}],
                          Message(tasks[i].svc, to, i, kind, own, tasks[i].store))
       /\ shared' = IF own = shared THEN SharedAfter(tasks[i].svc, tasks[i].store) ELSE shared
  /\ connection' = [connection EXCEPT ![tasks[i].svc] = Open(tasks[i].svc, tasks[i].store)]

(* A listener of on() sends an event when the connection is back.          *)
Notify(svc) ==
  /\ New <= MaxTasks
  /\ \E to \in Services, store \in connection[svc] :
       <<svc, to>> \in Calls /\ tasks' = Append(tasks, Message(svc, to, 0, "event", <<>>, store))
  /\ UNCHANGED <<shared, connection>>

(* The server processes the message inside the context of its headers.     *)
Receive(i) ==
  /\ tasks[i].status = "sent"
  /\ tasks' = [tasks EXCEPT ![i].status = "running",
                            ![i].store = WithRequestContext(tasks[i].svc, tasks[i].headers, i)]
  /\ UNCHANGED <<shared, connection>>

(* The caller of message i goes on, with an error or without one, unless   *)
(* it has given up.                                                        *)
Answered(i, outcome, origin) ==
  LET p == tasks[i].parent
  IN tasks' = IF p # 0 /\ tasks[p].call = i
              THEN [tasks EXCEPT ![i].status = "done", ![p].call = 0,
                                 ![p].outcome = outcome, ![p].origin = origin]
              ELSE [tasks EXCEPT ![i].status = "done"]

Return(i) ==
  /\ Running(i) /\ tasks[i].kind # "root"
  /\ Answered(i, {}, {})
  /\ UNCHANGED <<shared, connection>>

(* The handler throws: the caller gets the exception of request() or what  *)
(* arrives, from send(); a JetStream event is delivered again.             *)
Throw(i, thrown, meant) ==
  /\ Running(i) /\ tasks[i].kind # "root"
  /\ LET reply == Caught(Intercept(thrown), filter[tasks[i].svc])
     IN IF tasks[i].kind = "event"
        THEN tasks' = [tasks EXCEPT ![i].status = "sent", ![i].outcome = {}, ![i].origin = {}]
        ELSE \E outcome \in {Arrives(reply), Json(reply)} : Answered(i, {outcome}, {meant})
  /\ UNCHANGED <<shared, connection>>

Fails(i) == \E error \in Errors : Throw(i, error.thrown, error.meant)
Rethrows(i) == \E e \in tasks[i].outcome, meant \in tasks[i].origin : Throw(i, e, meant)

(* The request cannot be deserialized, or a hook fails: errorReply()       *)
Rejected(i) ==
  /\ tasks[i].status \in {"sent", "running"} /\ tasks[i].kind = "request" /\ tasks[i].call = 0
  /\ LET statusCode == IF tasks[i].status = "sent" THEN "400" ELSE "500"
     IN Answered(i, {Arrives(ErrorReply(statusCode))},
                {[message |-> "reason", errorCode |-> "none", statusCode |-> statusCode, errors |-> "none"]})
  /\ UNCHANGED <<shared, connection>>

(* requestTimeout is over: an answer that comes later is dropped.          *)
TimesOut(i) ==
  /\ tasks[i].call # 0
  /\ tasks' = [tasks EXCEPT ![i].call = 0,
                 ![i].outcome = {NatsRpcException(Thrown("object", [message |-> "timeout"]))},
                 ![i].origin = {[message |-> "timeout", errorCode |-> "none", statusCode |-> "none", errors |-> "none"]}]
  /\ UNCHANGED <<shared, connection>>

Next ==
  \/ Root
  \/ \E svc \in Services : Notify(svc)
  \/ \E i \in DOMAIN tasks :
       Call(i) \/ Receive(i) \/ Return(i) \/ Fails(i) \/ Rethrows(i) \/ Rejected(i) \/ TimesOut(i)

Spec == Init /\ [][Next]_vars

-----------------------------------------------------------------------------
(* The messages and the root that message i comes from, and itself         *)
Path(i) ==
  LET path[j \in DOMAIN tasks] ==
        IF tasks[j].parent = 0 THEN {j} ELSE {j} \cup path[tasks[j].parent]
  IN path[i]

Processed(i) == tasks[i].status \in {"running", "done"}

(* No message is processed under an identifier of another request: not of  *)
(* one that is processed at the same time, of one that has used the same   *)
(* record, or of the one that has opened the connection.                   *)
NoForeignContext ==
  \A i \in DOMAIN tasks : Processed(i) =>
    \A id \in {getTraceId(tasks[i]), getRequestId(tasks[i])} \ {Undefined} : id[2] \in Path(i)

(* The call that sent message i adds the context and passes no header of   *)
(* its own by that name.                                                   *)
Transparent(i, name) ==
  LET p == tasks[i].parent
  IN p # 0 /\ requestContext[tasks[p].svc].client /\ tasks[p].store # NoStore /\ ~Has(tasks[i].own, name)

(* Every handler on a path sees the identifiers that the path began with,  *)
(* or that a caller on it has set, however it has written the name, until  *)
(* another caller sets one or a service takes no part.                     *)
ContextReachesChain ==
  \A i \in DOMAIN tasks : Processed(i) =>
    /\ \A a \in Path(i) \cap {j \in DOMAIN tasks : Processed(j)} :
         /\ (\A j \in Path(i) \ Path(a) : Transparent(j, TRACE)) => getTraceId(tasks[i]) = getTraceId(tasks[a])
         /\ (\A j \in Path(i) \ Path(a) : Transparent(j, REQUEST)) => getRequestId(tasks[i]) = getRequestId(tasks[a])
    /\ \A key \in DOMAIN tasks[i].own : tasks[i].own[key] # EmptyString =>
         /\ Lower(key) = TRACE => getTraceId(tasks[i]) = tasks[i].own[key]
         /\ Lower(key) = REQUEST => getRequestId(tasks[i]) = tasks[i].own[key]

(* A caller gets the message, the codes and the details of the error that  *)
(* was thrown first, through any number of services that rethrow it, with  *)
(* either filter, whether it calls request() or send().                    *)
ErrorArrives ==
  \A i \in DOMAIN tasks : \A outcome \in tasks[i].outcome, meant \in tasks[i].origin :
    LET e == NatsRpcException(outcome)
    IN [message |-> e.message, errorCode |-> e.errorCode, statusCode |-> e.statusCode, errors |-> e.errors] = meant
=============================================================================
