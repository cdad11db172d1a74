-------------------------- MODULE ServerLifecycle --------------------------
(***************************************************************************)
(* The life of one ServerNats: listen() and close() called by the          *)
(* application in any order, the attempts to connect with their            *)
(* authorization retries and reconnects, the JetStream setup, the          *)
(* subscriptions bound to a connection, and the phases of a close.         *)
(*                                                                         *)
(* Node.js runs JavaScript on one thread: an action is what the code does  *)
(* between two awaits.  A connection (`natsClient`) is the object of       *)
(* nats.js; what nats.js and NATS do to it (a loss, a redial, a final      *)
(* close) are actions of their own.                                        *)
(***************************************************************************)
EXTENDS Integers, FiniteSets

CONSTANTS
    Conns,             \* connections that can exist at a time; a forgotten one is reused
    Handlers,          \* the JetStream event handlers: one consumer each
    MaxListens,        \* bound: how many times the application calls listen()
    JetStream,         \* options.jetStream
    OverlappingListens,\* whether listen() is called while another listen() waits for a close
    None               \* no connection, no timer

ASSUME ConnsAssumption      == Conns # {} /\ None \notin Conns
ASSUME HandlersAssumption   == Handlers # {} /\ IsFiniteSet(Handlers)
ASSUME MaxListensAssumption == MaxListens \in Nat \ {0}
ASSUME FlagsAssumption      == JetStream \in BOOLEAN /\ OverlappingListens \in BOOLEAN

Sessions  == 0 .. MaxListens  \* 0: the session of the constructor, which no listen() has made
Calls     == 1 .. MaxListens  \* the n-th listen() makes the session n
Callbacks == {"listen", "reconnect"}

NoTimer == [on |-> FALSE, session |-> 0, callback |-> "listen"]

VARIABLES
    listens,       \* how many listen() calls there have been
    session,       \* this.session
    closing,       \* session.closing
    outcome,       \* of each listen(): waiting for a close, pending, or how it has completed
    waitsFor,      \* the session whose close a waiting listen() awaits
    shutdown,      \* session.closed: how far the shutdown() of a session is
    natsClient,    \* this.natsClient
    status,        \* the last value of _status$; this.reachable is status = "connected"
    timer,         \* this.reconnectTimer and the attempt it makes
    armed,         \* how many timeouts of schedule() will fire
    subscriptions, \* the connections that this.subscriptions are bound to
    loops,         \* the connection that the consumer loop of a handler pulls from
    conn,          \* nats.js: whether the connection is up, redialling or closed
    owner,         \* the session of the connect() that has opened the connection
    task,          \* where that connect() is
    callback,      \* its callback: complete(), or a reconnect on an error
    pending,       \* the handlers whose subscribe() of bindJetStreamEvents() is in progress
    watched,       \* handleStatusUpdates() has been called for the connection
    notice,        \* closed() has an error that its then() has not had yet
    closeCame,     \* history: the listen() calls not completed when close() was called
    refused        \* the handlers are such that start() refuses them

app    == <<listens, session, closing, outcome, waitsFor, shutdown>>
client == <<natsClient, status, timer, armed, subscriptions, loops>>
tasks  == <<owner, task, callback, pending, watched>>
vars   == <<app, client, conn, tasks, notice, closeCame, refused>>

TypeOK ==
    /\ listens \in Sessions
    /\ session \in Sessions
    /\ closing \in [Sessions -> BOOLEAN]
    /\ outcome \in [Calls -> {"none", "waiting", "pending", "ok", "error", "closed"}]
    /\ waitsFor \in [Calls -> Sessions]
    /\ shutdown \in [Sessions -> {"no", "grace", "drain", "broken", "done"}]
    /\ natsClient \in Conns \cup {None}
    /\ status \in {"none", "connected", "disconnected", "reconnecting"}
    /\ timer \in [on : BOOLEAN, session : Sessions, callback : Callbacks]
    /\ armed \in Nat
    /\ subscriptions \subseteq Conns
    /\ loops \in [Handlers -> Conns \cup {None}]
    /\ conn \in [Conns -> {"up", "down", "closed"}]
    /\ owner \in [Conns -> Sessions]
    /\ task \in [Conns -> {"none", "creating", "setup", "binding"}]
    /\ callback \in [Conns -> Callbacks]
    /\ pending \in [Conns -> SUBSET Handlers]
    /\ watched \in [Conns -> BOOLEAN]
    /\ notice \in [Conns -> BOOLEAN]
    /\ closeCame \subseteq Calls
    /\ refused \in BOOLEAN

\* NestJS registers the handlers, of which ServiceSetup has the details, before listen()
Init ==
    /\ listens = 0 /\ session = 0
    /\ closing = [s \in Sessions |-> FALSE]
    /\ outcome = [l \in Calls |-> "none"]
    /\ waitsFor = [l \in Calls |-> 0]
    /\ shutdown = [s \in Sessions |-> "no"]
    /\ natsClient = None /\ status = "none" /\ timer = NoTimer /\ armed = 0
    /\ subscriptions = {} /\ loops = [h \in Handlers |-> None]
    /\ conn = [c \in Conns |-> "closed"]
    /\ owner = [c \in Conns |-> 0]
    /\ task = [c \in Conns |-> "none"]
    /\ callback = [c \in Conns |-> "listen"]
    /\ pending = [c \in Conns |-> {}]
    /\ watched = [c \in Conns |-> FALSE]
    /\ notice = [c \in Conns |-> FALSE]
    /\ closeCame = {}
    /\ refused \in BOOLEAN

-----------------------------------------------------------------------------
(* What the operations share.                                              *)

\* Mutant: shutdown() drains whatever the status
AlwaysReachable == TRUE

\* this.reachable
Reachable == status = "connected"

\* Mutant: `complete` does not look at `completed`
CompletedAgain(s, result) == [l \in Calls |-> IF l = s THEN result ELSE outcome[l]]

\* What `complete` makes of the listen() of session s: nothing, once it has completed
Completed(s, result) ==
    [l \in Calls |-> IF l = s /\ outcome[l] = "pending" THEN result ELSE outcome[l]]

\* Mutant: the subscriptions and the consumers of the connection are kept
ReleaseClient == natsClient' = None /\ UNCHANGED <<subscriptions, loops>>

\* release(): forgets the connection and what is bound to it
Release ==
    /\ natsClient' = None
    /\ subscriptions' = {}
    /\ loops' = [h \in Handlers |-> None]

\* The connection that this.natsClient holds, closed by the server
ClientClosed == [c \in Conns |-> IF c = natsClient THEN "closed" ELSE conn[c]]

\* A connection that nothing refers to any more
Free(c) ==
    /\ c # natsClient /\ conn[c] = "closed"
    /\ task[c] = "none" /\ pending[c] = {} /\ ~notice[c]

\* connect(), up to the await of createClient()
Connect(s, cb) ==
    \E c \in Conns :
        /\ Free(c)
        /\ owner' = [owner EXCEPT ![c] = s]
        /\ task' = [task EXCEPT ![c] = "creating"]
        /\ callback' = [callback EXCEPT ![c] = cb]
        /\ watched' = [watched EXCEPT ![c] = FALSE]
        /\ UNCHANGED pending

\* schedule()
Schedule(s, cb) ==
    /\ timer' = [on |-> TRUE, session |-> s, callback |-> cb]
    /\ armed' = armed + 1

\* The timeout that this.reconnectTimer holds will not fire, or has fired
ClearTimer ==
    /\ timer' = NoTimer
    /\ armed' = IF timer.on THEN armed - 1 ELSE armed

\* Mutants: reconnect() without the one or the other part of its guard
MayReconnectTwice(s) == ~closing[s]
MayReconnectClosing(s) == ~timer.on

\* reconnect() does something: no close, and no attempt that is scheduled already
MayReconnect(s) == ~closing[s] /\ ~timer.on

\* reconnect()
Reconnect(s) ==
    \/ /\ MayReconnect(s)
       /\ status' = "reconnecting"
       /\ conn' = ClientClosed
       /\ Release
       /\ Schedule(s, "reconnect")
    \/ /\ ~MayReconnect(s)
       /\ UNCHANGED <<client, conn>>

\* Mutant: a reconnect whose attempt fails is not repeated
FailOnce(s, cb) ==
    /\ outcome' = IF cb = "listen" THEN Completed(s, "error") ELSE outcome
    /\ UNCHANGED <<client, conn>>

\* The callback of connect() with an error
Fail(s, cb) ==
    \/ /\ cb = "listen"
       /\ outcome' = Completed(s, "error")
       /\ UNCHANGED <<client, conn>>
    \/ /\ cb = "reconnect"
       /\ Reconnect(s)
       /\ UNCHANGED outcome

\* shutdown(), up to its first await; it returns when there is no connection
Shutdown(s) ==
    /\ closing' = [closing EXCEPT ![s] = TRUE]
    /\ ClearTimer
    /\ shutdown' = [shutdown EXCEPT ![s] = IF natsClient = None THEN "done" ELSE "grace"]

\* stop(): the shutdown of a session runs once
Stop(s) ==
    \/ shutdown[s] = "no" /\ Shutdown(s)
    \/ shutdown[s] # "no" /\ UNCHANGED <<closing, timer, armed, shutdown>>

-----------------------------------------------------------------------------
(* The application.                                                        *)

\* The session of the listen() l begins
StartSession(l, outcomes) ==
    /\ session' = l
    /\ outcome' = [outcomes EXCEPT ![l] = "pending"]
    /\ Connect(l, "listen")

\* listen() after a close() that came first
ListenRejected(l) ==
    /\ session = 0 /\ closing[session]
    /\ outcome' = [outcome EXCEPT ![l] = "closed"]
    /\ UNCHANGED <<session, closing, waitsFor, shutdown, client, tasks>>

ListenFirst(l) ==
    /\ session = 0 /\ ~closing[session]
    /\ StartSession(l, outcome)
    /\ UNCHANGED <<closing, waitsFor, shutdown, client>>

\* Another listen(): it stops what the previous one runs and waits for that close
ListenAgain(l) ==
    /\ session # 0
    /\ Stop(session)
    /\ outcome' = [Completed(session, IF shutdown[session] = "no" THEN "closed" ELSE "pending")
                     EXCEPT ![l] = "waiting"]
    /\ waitsFor' = [waitsFor EXCEPT ![l] = session]
    /\ UNCHANGED <<session, natsClient, status, subscriptions, loops, tasks>>

Listen ==
    /\ listens < MaxListens
    /\ OverlappingListens \/ \A l \in Calls : outcome[l] # "waiting"
    /\ listens' = listens + 1
    /\ LET l == listens + 1 IN ListenRejected(l) \/ ListenFirst(l) \/ ListenAgain(l)
    /\ UNCHANGED <<conn, notice, closeCame, refused>>

\* The listen() l goes on: the close it waited for is complete
Resume(l) ==
    /\ outcome[l] = "waiting"
    /\ shutdown[waitsFor[l]] = "done"
    /\ StartSession(l, outcome)
    /\ UNCHANGED <<listens, closing, waitsFor, shutdown, client, conn, notice, closeCame, refused>>

\* Mutant: the listen() that close() stops is not called back
CloseSilently ==
    /\ Stop(session)
    /\ closeCame' = closeCame \cup {l \in Calls : outcome[l] \in {"waiting", "pending"}}
    /\ UNCHANGED <<listens, session, outcome, waitsFor, natsClient, status, subscriptions, loops,
                   conn, tasks, notice, refused>>

\* close(); the listen() it stops is called back in the same step
Close ==
    /\ Stop(session)
    /\ outcome' = IF shutdown[session] = "no" THEN Completed(session, "closed") ELSE outcome
    /\ closeCame' = closeCame \cup {l \in Calls : outcome[l] \in {"waiting", "pending"}}
    /\ UNCHANGED <<listens, session, waitsFor, natsClient, status, subscriptions, loops,
                   conn, tasks, notice, refused>>

-----------------------------------------------------------------------------
(* The rest of shutdown(): the wait for the handlers, then closeConnection(). *)

\* The handlers are idle, or GRACE_PERIOD is over, or nats.js has closed the connection
GraceEnds(s) ==
    /\ shutdown[s] = "grace"
    /\ natsClient # None
    /\ \/ /\ Reachable /\ conn[natsClient] # "closed"
          /\ shutdown' = [shutdown EXCEPT ![s] = "drain"]
          /\ UNCHANGED <<natsClient, subscriptions, loops, conn>>
       \/ /\ ~(Reachable /\ conn[natsClient] # "closed")
          /\ shutdown' = [shutdown EXCEPT ![s] = "done"]
          /\ conn' = ClientClosed
          /\ Release
    /\ UNCHANGED <<listens, session, closing, outcome, waitsFor, status, timer, armed, tasks, notice, closeCame, refused>>

\* Mutant: closeConnection() waits for the drain only
DrainEndsAnswered(s) ==
    /\ shutdown[s] = "drain" /\ natsClient # None /\ conn[natsClient] = "up"
    /\ shutdown' = [shutdown EXCEPT ![s] = "done"]
    /\ conn' = ClientClosed
    /\ Release
    /\ UNCHANGED <<listens, session, closing, outcome, waitsFor, status, timer, armed, tasks, notice, closeCame, refused>>

\* The drain has ended, or its failure ("broken"), or the close of nats.js
DrainEnds(s) ==
    /\ \/ shutdown[s] = "broken"
       \/ shutdown[s] = "drain" /\ conn[natsClient] \in {"up", "closed"}
    /\ natsClient # None
    /\ shutdown' = [shutdown EXCEPT ![s] = "done"]
    /\ conn' = ClientClosed
    /\ Release
    /\ UNCHANGED <<listens, session, closing, outcome, waitsFor, status, timer, armed, tasks, notice, closeCame, refused>>

-----------------------------------------------------------------------------
(* connect() after createClient(): its continuation, by how nats.js answers. *)

Done(c) == task' = [task EXCEPT ![c] = "none"] /\ UNCHANGED <<owner, callback, pending>>

\* Mutant: connect() does not look at `closing`
ConnectStaleTaken(c) ==
    /\ task[c] = "creating" /\ closing[owner[c]]
    /\ natsClient' = c
    /\ conn' = [conn EXCEPT ![c] = "up"]
    /\ Done(c)
    /\ UNCHANGED <<app, status, timer, armed, subscriptions, loops, watched, notice, closeCame, refused>>

\* close() has come: the new connection is closed in the step that gets it
ConnectStale(c) ==
    /\ task[c] = "creating" /\ closing[owner[c]]
    /\ Done(c)
    /\ UNCHANGED <<app, client, conn, watched, notice, closeCame, refused>>

\* Without JetStream the subscriptions are bound in the same step, or StartRefused
Connected(c) ==
    /\ task[c] = "creating" /\ ~closing[owner[c]]
    /\ natsClient' = c
    /\ conn' = [conn EXCEPT ![c] = "up"]
    /\ status' = "connected"
    /\ \/ /\ JetStream
          /\ task' = [task EXCEPT ![c] = "setup"]
          /\ UNCHANGED <<outcome, subscriptions, owner, callback, pending, watched>>
       \/ /\ ~JetStream /\ ~refused
          /\ watched' = [watched EXCEPT ![c] = TRUE]
          /\ subscriptions' = subscriptions \cup {c}
          /\ outcome' = IF callback[c] = "listen" THEN Completed(owner[c], "ok") ELSE outcome
          /\ Done(c)
    /\ UNCHANGED <<listens, session, closing, waitsFor, shutdown, timer, armed, loops, notice, closeCame, refused>>

ConnectRefused(c) ==
    /\ task[c] = "creating"
    /\ Fail(owner[c], callback[c])
    /\ Done(c)
    /\ UNCHANGED <<listens, session, closing, waitsFor, shutdown, watched, notice, closeCame, refused>>

\* Mutant: the attempt is repeated after close()
RetryUnauthorized(c) ==
    /\ task[c] = "creating"
    /\ Schedule(owner[c], callback[c])
    /\ Done(c)
    /\ UNCHANGED <<app, natsClient, status, subscriptions, loops, conn, watched, notice, closeCame, refused>>

\* NATS rejects the credentials: the attempt is repeated with the same callback
ConnectUnauthorized(c) ==
    /\ task[c] = "creating"
    /\ \/ /\ ~closing[owner[c]]
          /\ Schedule(owner[c], callback[c])
          /\ UNCHANGED <<outcome, natsClient, status, subscriptions, loops, conn>>
       \/ /\ closing[owner[c]]
          /\ Fail(owner[c], callback[c])
    /\ Done(c)
    /\ UNCHANGED <<listens, session, closing, waitsFor, shutdown, watched, notice, closeCame, refused>>

\* The JetStream manager and the streams are there; each handler begins its subscribe()
SetupOk(c) ==
    /\ task[c] = "setup" /\ conn[c] = "up" /\ ~refused
    /\ watched' = [watched EXCEPT ![c] = TRUE]
    /\ task' = [task EXCEPT ![c] = "binding"]
    /\ pending' = [pending EXCEPT ![c] = Handlers]
    /\ UNCHANGED <<app, client, conn, owner, callback, notice, closeCame, refused>>

SetupFails(c) ==
    /\ task[c] = "setup"
    /\ Fail(owner[c], callback[c])
    /\ Done(c)
    /\ UNCHANGED <<listens, session, closing, waitsFor, shutdown, watched, notice, closeCame, refused>>

\* start() refuses the handlers: nothing is bound and the connection stays, until the
\* callback of a reconnect closes it in the same step
StartRefused(c) ==
    /\ refused
    /\ \/ /\ JetStream /\ task[c] = "setup" /\ conn[c] = "up"
          /\ Fail(owner[c], callback[c])
       \/ /\ ~JetStream /\ task[c] = "creating" /\ ~closing[owner[c]]
          /\ \/ /\ callback[c] = "listen"
                /\ natsClient' = c
                /\ conn' = [conn EXCEPT ![c] = "up"]
                /\ status' = "connected"
                /\ outcome' = Completed(owner[c], "error")
                /\ UNCHANGED <<timer, armed, subscriptions, loops>>
             \/ /\ callback[c] = "reconnect"
                /\ Fail(owner[c], callback[c])
    /\ watched' = [watched EXCEPT ![c] = TRUE]
    /\ Done(c)
    /\ UNCHANGED <<listens, session, closing, waitsFor, shutdown, notice, closeCame, refused>>

\* Mutant: start() does not look at `closing`
FinishStartUnchecked(c) ==
    /\ subscriptions' = subscriptions \cup {natsClient}
    /\ outcome' = IF callback[c] = "listen" THEN Completed(owner[c], "ok") ELSE outcome
    /\ task' = [task EXCEPT ![c] = "none"]

\* start() after bindJetStreamEvents(): the requests are bound, unless close() has come
FinishStart(c) ==
    /\ subscriptions' = IF closing[session] THEN subscriptions ELSE subscriptions \cup {natsClient}
    /\ outcome' = IF callback[c] = "listen" THEN Completed(owner[c], "ok") ELSE outcome
    /\ task' = [task EXCEPT ![c] = "none"]

\* The subscribe() of h has its consumer; the last one ends bindJetStreamEvents()
BindConsumer(c, h) ==
    /\ h \in pending[c] /\ conn[c] = "up"
    /\ pending' = [pending EXCEPT ![c] = @ \ {h}]
    /\ loops' = IF closing[session] THEN loops ELSE [loops EXCEPT ![h] = c]
    /\ \/ /\ task[c] = "binding" /\ pending[c] = {h}
          /\ FinishStart(c)
       \/ /\ ~(task[c] = "binding" /\ pending[c] = {h})
          /\ UNCHANGED <<subscriptions, outcome, task>>
    /\ UNCHANGED <<listens, session, closing, waitsFor, shutdown, natsClient, status, timer,
                   armed, conn, owner, callback, watched, notice, closeCame, refused>>

\* The first failure completes Promise.all(); the other subscribe() calls go on
BindFails(c, h) ==
    /\ h \in pending[c]
    /\ pending' = [pending EXCEPT ![c] = @ \ {h}]
    /\ \/ /\ task[c] = "binding"
          /\ Fail(owner[c], callback[c])
          /\ task' = [task EXCEPT ![c] = "none"]
       \/ /\ task[c] # "binding"
          /\ UNCHANGED <<outcome, client, conn, task>>
    /\ UNCHANGED <<listens, session, closing, waitsFor, shutdown, owner, callback, watched, notice, closeCame, refused>>

-----------------------------------------------------------------------------
(* nats.js and NATS.                                                       *)

\* Mutant: a reconnect does not make the server reachable again
StatusByTypeOnce ==
    [disconnect |-> "disconnected", reconnecting |-> "reconnecting", reconnect |-> "reconnecting"]

StatusByType ==
    [disconnect |-> "disconnected", reconnecting |-> "reconnecting", reconnect |-> "connected"]

\* Mutant: the status type of nats.js is the status
ReportType(c, type) == status' = IF watched[c] THEN type ELSE status

\* A status update reaches _status$ once the connection is watched
Report(c, type) == status' = IF watched[c] THEN StatusByType[type] ELSE status

\* The connection is lost; a drain in progress fails
Lose(c) ==
    /\ conn[c] = "up"
    /\ conn' = [conn EXCEPT ![c] = "down"]
    /\ Report(c, "disconnect")
    /\ shutdown' = [s \in Sessions |->
                      IF shutdown[s] = "drain" /\ c = natsClient THEN "broken" ELSE shutdown[s]]
    /\ UNCHANGED <<listens, session, closing, outcome, waitsFor, natsClient, timer, armed, subscriptions,
                   loops, tasks, notice, closeCame, refused>>

\* nats.js dials again
Redial(c) ==
    /\ conn[c] = "down"
    /\ Report(c, "reconnecting")
    /\ UNCHANGED <<app, natsClient, timer, armed, subscriptions, loops, conn, tasks, notice, closeCame, refused>>

\* nats.js has reconnected
Back(c) ==
    /\ conn[c] = "down"
    /\ conn' = [conn EXCEPT ![c] = "up"]
    /\ Report(c, "reconnect")
    /\ UNCHANGED <<app, natsClient, timer, armed, subscriptions, loops, tasks, notice, closeCame, refused>>

\* The attempts run out, or NATS rejects the credentials twice in a row
CloseForGood(c) ==
    /\ conn[c] = "down"
    /\ conn' = [conn EXCEPT ![c] = "closed"]
    /\ notice' = [notice EXCEPT ![c] = TRUE]
    /\ UNCHANGED <<app, client, tasks, closeCame, refused>>

\* closed().then(): the server connects anew
Notice(c) ==
    /\ notice[c]
    /\ notice' = [notice EXCEPT ![c] = FALSE]
    /\ Reconnect(owner[c])
    /\ UNCHANGED <<app, tasks, closeCame, refused>>

\* What a closed connection still owes its promises has arrived: that takes no
\* timer, so it comes before the 5 seconds of the timer are over
Settled ==
    \A c \in Conns : conn[c] = "closed" =>
        task[c] \in {"none", "creating"} /\ pending[c] = {} /\ ~notice[c]

TimerFires ==
    /\ timer.on /\ Settled
    /\ ClearTimer
    /\ Connect(timer.session, timer.callback)
    /\ UNCHANGED <<app, natsClient, status, subscriptions, loops, conn, notice, closeCame, refused>>

-----------------------------------------------------------------------------
Next ==
    \/ Listen
    \/ Close
    \/ \E l \in Calls : Resume(l)
    \/ \E s \in Sessions : GraceEnds(s) \/ DrainEnds(s)
    \/ \E c \in Conns :
          \/ ConnectStale(c) \/ Connected(c) \/ ConnectRefused(c) \/ ConnectUnauthorized(c)
          \/ SetupOk(c) \/ SetupFails(c) \/ StartRefused(c)
          \/ \E h \in Handlers : BindConsumer(c, h) \/ BindFails(c, h)
          \/ Lose(c) \/ Redial(c) \/ Back(c) \/ CloseForGood(c) \/ Notice(c)
    \/ TimerFires

Spec == Init /\ [][Next]_vars

(* Fairness.  What the process itself does next, it does: promises settle and
   timers fire.  createClient() and the round trips of the setup end one way or
   the other, since nats.js gives each a timeout.                           *)
Progress ==
    /\ \A l \in Calls : WF_vars(Resume(l))
    /\ \A s \in Sessions : WF_vars(GraceEnds(s)) /\ WF_vars(DrainEnds(s))
    /\ \A c \in Conns :
          /\ WF_vars(\/ ConnectStale(c) \/ Connected(c) \/ StartRefused(c)
                     \/ ConnectRefused(c) \/ ConnectUnauthorized(c))
          /\ WF_vars(SetupOk(c) \/ SetupFails(c) \/ StartRefused(c))
          /\ \A h \in Handlers : WF_vars(BindConsumer(c, h) \/ BindFails(c, h))
          /\ WF_vars(Notice(c))
    /\ WF_vars(TimerFires)

\* What NATS does to a server that it does not serve
NatsFails(c) ==
    \/ Lose(c) \/ CloseForGood(c) \/ ConnectRefused(c) \/ ConnectUnauthorized(c)
    \/ conn[c] # "closed" /\ (SetupFails(c) \/ \E h \in Handlers : BindFails(c, h))

\* NATS is back at last, and stays
NatsReturns ==
    /\ <>[][\A c \in Conns : ~NatsFails(c)]_vars
    /\ \A c \in Conns : WF_vars(Back(c))

LiveSpec == Spec /\ Progress

-----------------------------------------------------------------------------
(* Safety.                                                                 *)

Attempts == {c \in Conns : task[c] = "creating" /\ ~closing[owner[c]]}

(* No connection is leaked: the only open connection is the one that natsClient
   holds, which close() closes (connect() closes one that comes after close(),
   reconnect() and shutdown() close the one they forget). *)
OneOpenConnection == \A c \in Conns : conn[c] # "closed" => natsClient = c

(* The connection in use is of the session in use, and that session has not
   been shut down: what a closed session still runs leaves the next alone. *)
ClientIsCurrent ==
    natsClient # None => owner[natsClient] = session /\ shutdown[session] # "done"

(* The subscriptions and the consumer loops are those of the connection in use:
   release() and the check of `closing` keep none of a connection before. *)
BoundToClient ==
    /\ subscriptions \subseteq {natsClient} \ {None}
    /\ \A h \in Handlers : loops[h] \in {natsClient, None}

(* A server that is not connected makes one attempt to connect at a time,
   a running one or a scheduled one, and a connected server none, although a
   failure can be reported twice: by closed() and by the setup. *)
OneAttempt ==
    /\ Cardinality(Attempts) + armed <= 1
    /\ natsClient # None => Attempts = {} /\ armed = 0

(* close() can cancel every scheduled attempt: no timeout is armed that
   reconnectTimer does not hold, and none for a session that is closing. *)
TimerIsHeld ==
    /\ armed = IF timer.on THEN 1 ELSE 0
    /\ timer.on => timer.session = session /\ ~closing[session]

(* Once its status is watched, `reachable` tells whether the connection is up. *)
StatusIsAccurate ==
    natsClient # None /\ watched[natsClient] /\ conn[natsClient] # "closed" =>
        (Reachable <=> conn[natsClient] = "up")

(* A close that waits has a connection to close, and it is that of its session:
   the `natsClient` that shutdown() reads after its await is the one before. *)
ShutdownHasConnection ==
    \A s \in Sessions : shutdown[s] \in {"grace", "drain", "broken"} =>
        s = session /\ natsClient # None

(* README, Shutdown: a listen() that has not completed when close() comes rejects. *)
ClosedListenRejects == \A l \in closeCame : outcome[l] # "ok"

-----------------------------------------------------------------------------
(* What a step may never do.                                               *)

Drains(s) == shutdown[s] # "drain" /\ shutdown'[s] = "drain"

(* Nothing is subscribed once close() has come, also when it comes during the
   JetStream setup. *)
NoBindAfterClose ==
    [][closing[session] =>
         /\ subscriptions' \subseteq subscriptions
         /\ \A h \in Handlers : loops'[h] \in {loops[h], None}]_vars

(* A listen() completes once: the outcome the application got does not change. *)
AnsweredOnce ==
    [][\A l \in Calls : outcome[l] \in {"ok", "error", "closed"} => outcome'[l] = outcome[l]]_vars

(* README, Shutdown: close() begins no drain on a connection that NATS does not
   answer on, since the drain would wait for NATS (the status of the connection is
   watched from the end of the JetStream setup on; before that close() may drain). *)
DrainsOnlyWhileUp ==
    [][\A s \in Sessions : Drains(s) => conn[natsClient] = "up" \/ ~watched[natsClient]]_vars

\* What is bound to a connection takes messages
Taking == subscriptions # {} \/ \E h \in Handlers : loops[h] # None

Session == INSTANCE ServerSession WITH
    stopped <- {s \in Sessions : closing[s]}, answer <- outcome,
    connected <- natsClient # None, taking <- Taking

(* One session at a time: a connection, the messages it takes and the answer to
   listen() are of the session in use, and nothing of a session that was stopped
   is left when the next one begins. *)
OneSession == Session!Spec

-----------------------------------------------------------------------------
(* Liveness.                                                               *)

\* A drain whose connection was lost before its status was watched waits for NATS
DrainHangs(s) == shutdown[s] = "drain" /\ ~watched[natsClient]

(* close() completes, whatever NATS does: at last every session that close() or
   another listen() has stopped is shut down. *)
CloseCompletes ==
    []<>(\A s \in Sessions : closing[s] => shutdown[s] = "done" \/ DrainHangs(s))

(* When NATS is back, every listen() is answered. *)
ListenAnswered ==
    NatsReturns => []<>(\A l \in Calls : outcome[l] \notin {"waiting", "pending"})

Serving ==
    /\ natsClient # None /\ conn[natsClient] = "up" /\ natsClient \in subscriptions
    /\ JetStream => \A h \in Handlers : loops[h] = natsClient

(* When NATS is back, a server that has started serves again, whatever way its
   connection was lost, until it is closed. *)
Recovers ==
    NatsReturns => []<>(\A l \in Calls : outcome[l] = "ok" /\ ~closing[l] => Serving)
=============================================================================
