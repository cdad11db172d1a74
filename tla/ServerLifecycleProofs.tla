------------------------ MODULE ServerLifecycleProofs ------------------------
(***************************************************************************)
(* Proofs about ServerLifecycle, for every number of connections, handlers *)
(* and listen() calls, with and without JetStream.                         *)
(***************************************************************************)
EXTENDS ServerLifecycle, FiniteSetTheorems, TLAPS

-----------------------------------------------------------------------------
(* Types.                                                                  *)

(* armed \in Nat is inductive only with what ClearTimer relies on: a timer that
   is on has armed a timeout. *)
TypeInv == TypeOK /\ (timer.on => armed > 0)

(* The constructor leaves a state of these types. *)
LEMMA TypeInit == Init => TypeInv
  BY MaxListensAssumption DEF Init, TypeInv, TypeOK, Sessions, Calls, Callbacks, NoTimer

(* Every listen() makes a session, and a listen() that the bound admits has a number. *)
LEMMA SessionsFacts ==
    /\ Calls \subseteq Sessions /\ 0 \in Sessions /\ 0 \notin Calls
    /\ Sessions \subseteq Nat
    /\ \A n \in Sessions : n < MaxListens => n + 1 \in Calls
  BY MaxListensAssumption DEF Calls, Sessions

Timers == [on : BOOLEAN, session : Sessions, callback : Callbacks]

TimerInv == timer \in Timers /\ armed \in Nat /\ (timer.on => armed > 0)

(* clearTimeout() ends the timeout that reconnectTimer holds, and no other. *)
LEMMA ClearTimerType == TimerInv /\ ClearTimer => TimerInv'
  BY SessionsFacts DEF TimerInv, Timers, Callbacks, ClearTimer, NoTimer

(* schedule() arms one timeout more. *)
LEMMA ScheduleType ==
    ASSUME TimerInv, NEW s \in Sessions, NEW cb \in Callbacks, Schedule(s, cb) PROVE TimerInv'
  BY DEF TimerInv, Timers, Schedule

Outcomes == {"none", "waiting", "pending", "ok", "error", "closed"}

(* complete() gives a listen() an outcome. *)
LEMMA CompletedType ==
    ASSUME TypeOK, NEW s, NEW result \in {"ok", "error", "closed", "pending"}
    PROVE  Completed(s, result) \in [Calls -> Outcomes]
  BY DEF TypeOK, Completed, Outcomes

(* stop(): the types of what it changes. *)
LEMMA StopType ==
    ASSUME TypeInv, NEW s \in Sessions, Stop(s)
    PROVE  /\ TimerInv'
           /\ closing' \in [Sessions -> BOOLEAN]
           /\ shutdown' \in [Sessions -> {"no", "grace", "drain", "broken", "done"}]
<1>1. TimerInv
  BY DEF TypeInv, TypeOK, TimerInv, Timers
<1>2. CASE shutdown[s] = "no" /\ Shutdown(s)
  BY <1>1, <1>2, ClearTimerType DEF Shutdown, TypeInv, TypeOK
<1>3. CASE UNCHANGED <<closing, timer, armed, shutdown>>
  BY <1>1, <1>3 DEF TimerInv, TypeInv, TypeOK
<1> QED
  BY <1>2, <1>3 DEF Stop

ClientInv ==
    /\ natsClient \in Conns \cup {None}
    /\ status \in {"none", "connected", "disconnected", "reconnecting"}
    /\ TimerInv
    /\ subscriptions \subseteq Conns
    /\ loops \in [Handlers -> Conns \cup {None}]
    /\ conn \in [Conns -> {"up", "down", "closed"}]

(* reconnect(): the types of what it changes. *)
LEMMA ReconnectType ==
    ASSUME TypeInv, NEW s \in Sessions, Reconnect(s) PROVE ClientInv'
<1>1. TimerInv
  BY DEF TypeInv, TypeOK, TimerInv, Timers
<1>2. CASE UNCHANGED <<client, conn>>
  BY <1>1, <1>2 DEF TypeInv, TypeOK, client, ClientInv, TimerInv
<1>3. ASSUME Schedule(s, "reconnect"), status' = "reconnecting", conn' = ClientClosed, Release
      PROVE  ClientInv'
  <2>1. TimerInv'
    BY <1>1, <1>3, ScheduleType DEF Callbacks
  <2> QED
    BY <2>1, <1>3 DEF TypeInv, TypeOK, ClientInv, Release, ClientClosed
<1> QED
  BY <1>2, <1>3 DEF Reconnect

(* The callback of connect(): the types of what it changes. *)
LEMMA FailType ==
    ASSUME TypeInv, NEW s \in Sessions, NEW cb, Fail(s, cb)
    PROVE  /\ ClientInv'
           /\ outcome' \in [Calls -> Outcomes]
<1>1. CASE outcome' = Completed(s, "error") /\ UNCHANGED <<client, conn>>
  BY <1>1, CompletedType DEF TypeInv, TypeOK, client, ClientInv, TimerInv, Timers, Outcomes
<1>2. CASE Reconnect(s) /\ UNCHANGED outcome
  BY <1>2, ReconnectType DEF TypeInv, TypeOK, Outcomes
<1> QED
  BY <1>1, <1>2 DEF Fail

(* connect(): the types of what it changes. *)
LEMMA ConnectType ==
    ASSUME TypeOK, NEW s \in Sessions, NEW cb \in Callbacks, Connect(s, cb)
    PROVE  /\ owner' \in [Conns -> Sessions]
           /\ task' \in [Conns -> {"none", "creating", "setup", "binding"}]
           /\ callback' \in [Conns -> Callbacks]
           /\ pending' \in [Conns -> SUBSET Handlers]
           /\ watched' \in [Conns -> BOOLEAN]
  BY DEF TypeOK, Connect

(* start() binds the requests to natsClient: that there is one follows from the
   connection that the consumers are bound to being open. *)
LEMMA TypeNext == TypeInv /\ OneOpenConnection /\ [Next]_vars => TypeInv'
<1> SUFFICES ASSUME TypeInv, OneOpenConnection, [Next]_vars PROVE TypeInv'
  OBVIOUS
<1> USE SessionsFacts DEF TypeInv, TypeOK, Outcomes
<1>t. TimerInv
  BY DEF TimerInv, Timers
<1>1. CASE Listen
  <2> DEFINE l == listens + 1
  <2>1. l \in Calls /\ listens' = l /\ UNCHANGED <<conn, notice, closeCame, refused>>
    BY <1>1 DEF Listen
  <2>2. CASE ListenRejected(l)
    BY <2>1, <2>2 DEF ListenRejected, client, tasks
  <2>3. CASE ListenFirst(l)
    BY <2>1, <2>3, ConnectType DEF ListenFirst, StartSession, client, Callbacks
  <2>4. CASE ListenAgain(l)
    <3>1. TimerInv' /\ closing' \in [Sessions -> BOOLEAN]
          /\ shutdown' \in [Sessions -> {"no", "grace", "drain", "broken", "done"}]
      BY <2>4, StopType DEF ListenAgain
    <3> QED
      BY <2>1, <2>4, <3>1, CompletedType DEF ListenAgain, tasks, TimerInv, Timers
  <2> QED
    BY <1>1, <2>2, <2>3, <2>4 DEF Listen
<1>2. CASE Close
  <2>1. TimerInv' /\ closing' \in [Sessions -> BOOLEAN]
        /\ shutdown' \in [Sessions -> {"no", "grace", "drain", "broken", "done"}]
    BY <1>2, StopType DEF Close
  <2> QED
    BY <1>2, <2>1, CompletedType DEF Close, tasks, TimerInv, Timers
<1>3. ASSUME NEW l \in Calls, Resume(l) PROVE TypeInv'
  BY <1>3, ConnectType DEF Resume, StartSession, client, Callbacks
<1>4. ASSUME NEW s \in Sessions, GraceEnds(s) PROVE TypeInv'
  BY <1>4 DEF GraceEnds, Release, ClientClosed, tasks
<1>5. ASSUME NEW s \in Sessions, DrainEnds(s) PROVE TypeInv'
  BY <1>5 DEF DrainEnds, Release, ClientClosed, tasks
<1>6. ASSUME NEW c \in Conns, ConnectStale(c) PROVE TypeInv'
  BY <1>6 DEF ConnectStale, Done, app, client
<1>7. ASSUME NEW c \in Conns, Connected(c) PROVE TypeInv'
  <2>1. outcome' \in [Calls -> Outcomes]
    BY <1>7, CompletedType DEF Connected
  <2>2. /\ task' \in [Conns -> {"none", "creating", "setup", "binding"}]
        /\ watched' \in [Conns -> BOOLEAN]
        /\ subscriptions' \subseteq Conns
        /\ UNCHANGED <<owner, callback, pending>>
    BY <1>7 DEF Connected, Done
  <2>3. /\ natsClient' = c /\ conn' = [conn EXCEPT ![c] = "up"] /\ status' = "connected"
        /\ UNCHANGED <<listens, session, closing, waitsFor, shutdown, timer, armed, loops, notice, closeCame, refused>>
    BY <1>7 DEF Connected
  <2> QED
    BY <2>1, <2>2, <2>3
<1>8. ASSUME NEW c \in Conns, ConnectRefused(c) PROVE TypeInv'
  BY <1>8, FailType DEF ConnectRefused, ClientInv, TimerInv, Timers, Done
<1>9. ASSUME NEW c \in Conns, ConnectUnauthorized(c) PROVE TypeInv'
  <2>1. CASE /\ Schedule(owner[c], callback[c])
             /\ UNCHANGED <<outcome, natsClient, status, subscriptions, loops, conn>>
    <3>1. TimerInv'
      BY <1>t, <2>1, ScheduleType
    <3> QED
      BY <1>9, <2>1, <3>1 DEF ConnectUnauthorized, TimerInv, Timers, Done
  <2>2. CASE Fail(owner[c], callback[c])
    BY <1>9, <2>2, FailType DEF ConnectUnauthorized, ClientInv, TimerInv, Timers, Done
  <2> QED
    BY <1>9, <2>1, <2>2 DEF ConnectUnauthorized
<1>10. ASSUME NEW c \in Conns, SetupOk(c) PROVE TypeInv'
  BY <1>10 DEF SetupOk, app, client
<1>11. ASSUME NEW c \in Conns, SetupFails(c) PROVE TypeInv'
  BY <1>11, FailType DEF SetupFails, ClientInv, TimerInv, Timers, Done
<1>12. ASSUME NEW c \in Conns, NEW h \in Handlers, BindConsumer(c, h) PROVE TypeInv'
  <2>1. outcome' \in [Calls -> Outcomes] /\ task' \in [Conns -> {"none", "creating", "setup", "binding"}]
    BY <1>12, CompletedType DEF BindConsumer, FinishStart
  <2>2. loops' \in [Handlers -> Conns \cup {None}]
    BY <1>12 DEF BindConsumer
  <2>3. subscriptions' \subseteq Conns
    BY <1>12 DEF BindConsumer, FinishStart, OneOpenConnection
  <2> QED
    BY <1>12, <2>1, <2>2, <2>3 DEF BindConsumer
<1>13. ASSUME NEW c \in Conns, NEW h \in Handlers, BindFails(c, h) PROVE TypeInv'
  <2>1. ClientInv' /\ outcome' \in [Calls -> Outcomes]
    BY <1>t, <1>13, FailType DEF BindFails, ClientInv, TimerInv, client
  <2> QED
    BY <1>13, <2>1 DEF BindFails, ClientInv, TimerInv, Timers
<1>14. ASSUME NEW c \in Conns, Lose(c) PROVE TypeInv'
  BY <1>14 DEF Lose, Report, StatusByType, tasks
<1>15. ASSUME NEW c \in Conns, Redial(c) PROVE TypeInv'
  BY <1>15 DEF Redial, Report, StatusByType, app, tasks
<1>16. ASSUME NEW c \in Conns, Back(c) PROVE TypeInv'
  BY <1>16 DEF Back, Report, StatusByType, app, tasks
<1>17. ASSUME NEW c \in Conns, CloseForGood(c) PROVE TypeInv'
  BY <1>17 DEF CloseForGood, app, client, tasks
<1>18. ASSUME NEW c \in Conns, Notice(c) PROVE TypeInv'
  BY <1>18, ReconnectType DEF Notice, ClientInv, TimerInv, Timers, app, tasks
<1>19. CASE TimerFires
  <2>1. TimerInv' /\ timer.session \in Sessions /\ timer.callback \in Callbacks
    BY <1>t, <1>19, ClearTimerType DEF TimerFires, TimerInv, Timers
  <2> QED
    BY <1>19, <2>1, ConnectType DEF TimerFires, app, TimerInv, Timers
<1>20. CASE UNCHANGED vars
  BY <1>20 DEF vars, app, client, tasks
<1>21. ASSUME NEW c \in Conns, StartRefused(c) PROVE TypeInv'
  <2>1. CASE Fail(owner[c], callback[c])
    BY <1>21, <2>1, FailType DEF StartRefused, ClientInv, TimerInv, Timers, Done
  <2>2. CASE /\ natsClient' = c /\ conn' = [conn EXCEPT ![c] = "up"] /\ status' = "connected"
             /\ outcome' = Completed(owner[c], "error")
             /\ UNCHANGED <<timer, armed, subscriptions, loops>>
    BY <1>21, <2>2, CompletedType DEF StartRefused, Done
  <2> QED
    BY <1>21, <2>1, <2>2 DEF StartRefused
<1> QED
  BY <1>1, <1>2, <1>3, <1>4, <1>5, <1>6, <1>7, <1>8, <1>9, <1>10, <1>11, <1>12, <1>13, <1>14, <1>15,
     <1>16, <1>17, <1>18, <1>19, <1>20, <1>21 DEF Next

-----------------------------------------------------------------------------
(* The inductive invariant.                                                *)

(* The sessions: one after the other, each once.  A session is closing as soon
   as its shutdown() runs, and a listen() that waits will make the next one. *)
SessionsInOrder ==
    /\ session <= listens
    /\ \A s \in Sessions : closing[s] <=> shutdown[s] # "no"
    /\ \A s \in Sessions : s > session => shutdown[s] = "no"
    /\ \A l \in Calls : outcome[l] = "waiting" =>
          /\ l = listens /\ session < l
          /\ waitsFor[l] = session /\ session # 0 /\ closing[session]

(* The server that no listen() has started has no connection and no task. *)
NothingBeforeListen ==
    session = 0 =>
        /\ natsClient = None /\ ~timer.on
        /\ \A c \in Conns : task[c] = "none" /\ ~notice[c]

(* What close() can still find: the connection in use, or a scheduled attempt,
   each of the session in use. *)
HeldByServer ==
    /\ TimerIsHeld /\ (timer.on => natsClient = None)
    /\ natsClient # None => task[natsClient] # "creating"

(* An attempt to connect that nobody has closed is the only one, and there is
   neither a connection nor a timer beside it. *)
AttemptIsAlone ==
    \A c \in Attempts :
        /\ owner[c] = session
        /\ natsClient = None /\ ~timer.on
        /\ \A d \in Attempts : d = c

(* A failure that is still to be reported, by closed() or by the setup, is that of
   the connection in use, or comes after the attempt that replaces it has been
   scheduled: reconnect() may act on the first report and on no other. *)
ReportsAreCurrent ==
    \A c \in Conns :
        /\ task[c] \in {"setup", "binding"} \/ notice[c]
        /\ ~closing[owner[c]]
        => owner[c] = session /\ (natsClient = c \/ timer.on)

(* The status before it is watched is that of the new connection. *)
StatusFollows ==
    /\ StatusIsAccurate
    /\ natsClient # None /\ ~watched[natsClient] => status = "connected"

IInv ==
    /\ TypeInv
    /\ SessionsInOrder /\ NothingBeforeListen
    /\ ShutdownHasConnection /\ ClientIsCurrent /\ HeldByServer
    /\ OneOpenConnection /\ AttemptIsAlone /\ ReportsAreCurrent
    /\ BoundToClient /\ StatusFollows


(* stop() leaves a closing session without a timer, whether it runs shutdown() or finds
   that it has run. *)
LEMMA StopFacts ==
    ASSUME IInv, Stop(session)
    PROVE  /\ closing' = [closing EXCEPT ![session] = TRUE]
           /\ ~timer'.on /\ armed' = 0
           /\ shutdown'[session] # "no"
           /\ \A s \in Sessions : s # session => shutdown'[s] = shutdown[s]
<1> USE DEF IInv, TypeInv, TypeOK
<1>1. CASE shutdown[session] = "no" /\ Shutdown(session)
  BY <1>1 DEF Shutdown, ClearTimer, NoTimer, HeldByServer, TimerIsHeld
<1>2. CASE shutdown[session] # "no" /\ UNCHANGED <<closing, timer, armed, shutdown>>
  BY <1>2 DEF SessionsInOrder, HeldByServer, TimerIsHeld
<1> QED
  BY <1>1, <1>2 DEF Stop

(* A session that is closing has no attempt, and no failure that anybody acts on. *)
LEMMA StopEndsAttempts ==
    ASSUME IInv, closing' = [closing EXCEPT ![session] = TRUE], UNCHANGED <<task, owner>>
    PROVE  Attempts' = {}
  BY DEF IInv, TypeInv, TypeOK, AttemptIsAlone, Attempts

(* The same for the failures that are still to be reported. *)
LEMMA StopEndsReports ==
    ASSUME IInv, closing' = [closing EXCEPT ![session] = TRUE], UNCHANGED <<task, owner, notice>>
    PROVE  ReportsAreCurrent'
  BY DEF IInv, TypeInv, TypeOK, ReportsAreCurrent

(* listen(), in its three ways. *)
LEMMA ListenKeepsIInv ==
    ASSUME ~OverlappingListens, IInv, TypeInv', Listen PROVE IInv'
<1> USE SessionsFacts DEF IInv, TypeInv, TypeOK
<1> DEFINE l == listens + 1
<1>1. /\ l \in Calls /\ listens' = l /\ UNCHANGED <<conn, notice, closeCame, refused>>
      /\ \A k \in Calls : outcome[k] # "waiting"
  BY DEF Listen
<1>2. CASE ListenRejected(l)
  <2>1. SessionsInOrder'
    BY <1>1, <1>2 DEF ListenRejected, SessionsInOrder
  <2>2. UNCHANGED <<session, closing, shutdown, client, conn, tasks, notice>>
    BY <1>1, <1>2 DEF ListenRejected
  <2> QED
    BY <2>1, <2>2 DEF client, tasks, NothingBeforeListen, ShutdownHasConnection, ClientIsCurrent,
       HeldByServer, TimerIsHeld, OneOpenConnection, AttemptIsAlone, Attempts, ReportsAreCurrent,
       BoundToClient, StatusFollows, StatusIsAccurate, Reachable
<1>3. CASE ListenFirst(l)
  <2>1. /\ session = 0 /\ session' = l
        /\ UNCHANGED <<closing, shutdown, client, conn, notice>>
    BY <1>1, <1>3 DEF ListenFirst, StartSession
  <2>2. PICK c \in Conns :
          /\ Free(c)
          /\ owner' = [owner EXCEPT ![c] = l]
          /\ task' = [task EXCEPT ![c] = "creating"]
          /\ watched' = [watched EXCEPT ![c] = FALSE]
    BY <1>3 DEF ListenFirst, StartSession, Connect
  <2>3. natsClient = None /\ ~timer.on /\ \A d \in Conns : task[d] = "none" /\ ~notice[d]
    BY <2>1 DEF NothingBeforeListen
  <2>4. SessionsInOrder'
    BY <1>1, <1>3, <2>1 DEF ListenFirst, StartSession, SessionsInOrder
  <2>5. AttemptIsAlone'
    BY <2>1, <2>2, <2>3, ConnsAssumption DEF client, AttemptIsAlone, Attempts
  <2> QED
    BY <1>1, <2>1, <2>2, <2>3, <2>4, <2>5 DEF client, NothingBeforeListen, ShutdownHasConnection,
       ClientIsCurrent, HeldByServer, TimerIsHeld, OneOpenConnection, ReportsAreCurrent,
       BoundToClient, StatusFollows, StatusIsAccurate, Reachable, SessionsInOrder
<1>4. CASE ListenAgain(l)
  <2>1. /\ session # 0 /\ Stop(session)
        /\ UNCHANGED <<session, natsClient, status, subscriptions, loops, tasks, conn, notice>>
    BY <1>1, <1>4 DEF ListenAgain
  <2>2. /\ closing' = [closing EXCEPT ![session] = TRUE]
        /\ ~timer'.on /\ armed' = 0
        /\ shutdown'[session] # "no"
        /\ \A s \in Sessions : s # session => shutdown'[s] = shutdown[s]
    BY <2>1, StopFacts
  <2>3. \A k \in Calls : k # l => outcome'[k] # "waiting"
    BY <1>1, <1>4 DEF ListenAgain, Completed
  <2>4. SessionsInOrder'
    BY <1>1, <1>4, <2>1, <2>2, <2>3 DEF ListenAgain, SessionsInOrder
  <2>5. AttemptIsAlone' /\ ReportsAreCurrent'
    BY <2>1, <2>2, StopEndsAttempts, StopEndsReports DEF tasks, AttemptIsAlone
  <2>6. ShutdownHasConnection' /\ ClientIsCurrent'
    BY <2>1, <2>2 DEF Stop, Shutdown, tasks, ShutdownHasConnection, ClientIsCurrent
  <2> QED
    BY <1>1, <2>1, <2>2, <2>4, <2>5, <2>6 DEF tasks, NothingBeforeListen, HeldByServer, TimerIsHeld,
       OneOpenConnection, BoundToClient, StatusFollows, StatusIsAccurate, Reachable
<1> QED
  BY <1>2, <1>3, <1>4 DEF Listen

(* reconnect() has dropped the connection in use, for a failure of the attempt c. *)
Dropped(c) ==
    /\ owner[c] = session /\ ~closing[session] /\ ~timer.on
    /\ timer' = [on |-> TRUE, session |-> session, callback |-> "reconnect"]
    /\ armed' = 1
    /\ natsClient' = None /\ subscriptions' = {} /\ loops' = [h \in Handlers |-> None]
    /\ conn' = [d \in Conns |-> "closed"]
    /\ \A d \in Attempts : d = c

(* The continuation of a failed attempt: reconnect() drops the connection in use only for a
   failure of that connection, and schedules an attempt only where there is none. *)
LEMMA ReconnectFacts ==
    ASSUME IInv, NEW c \in Conns, Reconnect(owner[c]),
           \/ task[c] \in {"creating", "setup", "binding"}
           \/ notice[c]
    PROVE  UNCHANGED <<client, conn>> \/ Dropped(c)
<1> USE DEF IInv, TypeInv, TypeOK
<1>1. CASE ~MayReconnect(owner[c])
  BY <1>1 DEF Reconnect
<1>2. CASE MayReconnect(owner[c])
  <2>1. owner[c] = session /\ ~closing[session] /\ ~timer.on
    BY <1>2 DEF MayReconnect, AttemptIsAlone, Attempts, ReportsAreCurrent
  <2>2. conn' = [d \in Conns |-> "closed"]
    BY <1>2 DEF Reconnect, ClientClosed, OneOpenConnection
  <2>3. \A d \in Attempts : d = c
    BY <1>2, <2>1, ConnsAssumption DEF AttemptIsAlone, Attempts, ReportsAreCurrent
  <2> QED
    BY <1>2, <2>1, <2>2, <2>3 DEF Reconnect, Release, Schedule, HeldByServer, TimerIsHeld, Dropped
<1> QED
  BY <1>1, <1>2

(* The same for the callback of connect(), which may also complete a listen(). *)
LEMMA FailFacts ==
    ASSUME IInv, NEW c \in Conns, Fail(owner[c], callback[c]), task[c] \in {"creating", "setup", "binding"}
    PROVE  /\ UNCHANGED <<client, conn>> \/ Dropped(c)
           /\ \A l \in Calls : outcome'[l] = "waiting" => outcome[l] = "waiting"
  BY ReconnectFacts DEF Fail, Completed, IInv, TypeInv, TypeOK

(* What a failure leaves of the invariant, once the task of c that has failed is over; start()
   fails on a connection that is watched and up. *)
LEMMA AfterFailure ==
    ASSUME IInv, NEW c \in Conns,
           UNCHANGED <<listens, session, closing, waitsFor, shutdown, owner>>,
           \/ UNCHANGED watched
           \/ watched' = [watched EXCEPT ![c] = TRUE] /\ (natsClient = c => conn[c] = "up"),
           \A d \in Conns : task'[d] = task[d] \/ (d = c /\ task'[d] = "none"),
           \A d \in Conns : notice'[d] => notice[d],
           task'[c] # "creating",
           \A l \in Calls : outcome'[l] = "waiting" => outcome[l] = "waiting",
           UNCHANGED <<client, conn>> \/ Dropped(c),
           TypeInv', session # 0
    PROVE  IInv'
<1> USE DEF IInv
<1>1. CASE UNCHANGED <<client, conn>>
  <2> USE <1>1 DEF client
  <2>1. SessionsInOrder' /\ NothingBeforeListen' /\ ShutdownHasConnection'
    BY DEF SessionsInOrder, NothingBeforeListen, ShutdownHasConnection
  <2>2. ClientIsCurrent' /\ HeldByServer' /\ OneOpenConnection' /\ BoundToClient' /\ StatusFollows'
    BY DEF ClientIsCurrent, HeldByServer, TimerIsHeld, OneOpenConnection, BoundToClient,
           StatusFollows, StatusIsAccurate, Reachable, TypeInv, TypeOK
  <2>3. AttemptIsAlone' /\ ReportsAreCurrent'
    BY DEF AttemptIsAlone, Attempts, ReportsAreCurrent
  <2> QED
    BY <2>1, <2>2, <2>3
<1>2. CASE Dropped(c)
  <2> USE <1>2 DEF Dropped
  <2>1. SessionsInOrder' /\ NothingBeforeListen'
    BY DEF SessionsInOrder, NothingBeforeListen
  <2>2. ShutdownHasConnection'
    BY DEF SessionsInOrder, ShutdownHasConnection, TypeInv, TypeOK
  <2>3. ClientIsCurrent' /\ HeldByServer' /\ OneOpenConnection' /\ BoundToClient' /\ StatusFollows'
    BY DEF ClientIsCurrent, HeldByServer, TimerIsHeld, OneOpenConnection, BoundToClient,
           StatusFollows, StatusIsAccurate
  <2>4. Attempts' = {}
    BY DEF Attempts
  <2>5. AttemptIsAlone' /\ ReportsAreCurrent'
    BY <2>4 DEF AttemptIsAlone, ReportsAreCurrent
  <2> QED
    BY <2>1, <2>2, <2>3, <2>5
<1> QED
  BY <1>1, <1>2

(* Every step keeps the invariant: the steps of the application first. *)
LEMMA CloseKeepsIInv == ASSUME IInv, TypeInv', Close PROVE IInv'
<1> USE DEF IInv, TypeInv, TypeOK
<1>1. /\ Stop(session)
      /\ UNCHANGED <<listens, session, waitsFor, natsClient, status, subscriptions, loops, conn, tasks, notice>>
      /\ \A l \in Calls : outcome'[l] = "waiting" => outcome[l] = "waiting"
  BY DEF Close, Completed
<1>2. /\ closing' = [closing EXCEPT ![session] = TRUE]
      /\ ~timer'.on /\ armed' = 0
      /\ shutdown'[session] # "no"
      /\ \A s \in Sessions : s # session => shutdown'[s] = shutdown[s]
  BY <1>1, StopFacts
<1>3. SessionsInOrder'
  BY <1>1, <1>2, SessionsFacts DEF SessionsInOrder
<1>4. NothingBeforeListen'
  BY <1>1, <1>2 DEF tasks, NothingBeforeListen
<1>5. ShutdownHasConnection' /\ ClientIsCurrent'
  BY <1>1, <1>2 DEF Stop, Shutdown, tasks, ShutdownHasConnection, ClientIsCurrent
<1>6. AttemptIsAlone' /\ ReportsAreCurrent'
  BY <1>1, <1>2, StopEndsAttempts, StopEndsReports DEF tasks, AttemptIsAlone
<1>7. HeldByServer' /\ OneOpenConnection' /\ BoundToClient' /\ StatusFollows'
  BY <1>1, <1>2 DEF tasks, HeldByServer, TimerIsHeld, OneOpenConnection, BoundToClient, StatusFollows,
                    StatusIsAccurate, Reachable
<1> QED
  BY <1>3, <1>4, <1>5, <1>6, <1>7

(* The listen() that waited finds the server closed: no connection, timer or attempt. *)
LEMMA ResumeKeepsIInv == ASSUME IInv, TypeInv', NEW l \in Calls, Resume(l) PROVE IInv'
<1> USE SessionsFacts DEF IInv, TypeInv, TypeOK
<1>1. /\ l = listens /\ session < l /\ session' = l
      /\ closing[session] /\ shutdown[session] = "done"
      /\ UNCHANGED <<listens, closing, waitsFor, shutdown, client, conn, notice>>
  BY DEF Resume, StartSession, SessionsInOrder
<1>2. natsClient = None /\ ~timer.on /\ Attempts = {}
  BY <1>1 DEF ClientIsCurrent, HeldByServer, TimerIsHeld, AttemptIsAlone, Attempts
<1>3. PICK c \in Conns :
        /\ Free(c)
        /\ owner' = [owner EXCEPT ![c] = l]
        /\ task' = [task EXCEPT ![c] = "creating"]
        /\ watched' = [watched EXCEPT ![c] = FALSE]
  BY DEF Resume, StartSession, Connect
<1>4. SessionsInOrder'
  BY <1>1 DEF Resume, StartSession, SessionsInOrder
<1>5. AttemptIsAlone'
  BY <1>1, <1>2, <1>3 DEF client, AttemptIsAlone, Attempts
<1>6. ReportsAreCurrent'
  BY <1>1, <1>3 DEF client, Free, ReportsAreCurrent
<1>7. ShutdownHasConnection'
  BY <1>1, <1>2 DEF client, ShutdownHasConnection
<1>8. NothingBeforeListen' /\ ClientIsCurrent' /\ HeldByServer' /\ OneOpenConnection' /\ BoundToClient'
      /\ StatusFollows'
  BY <1>1, <1>2 DEF client, NothingBeforeListen, ClientIsCurrent, HeldByServer, TimerIsHeld,
                    OneOpenConnection, BoundToClient, StatusFollows, StatusIsAccurate
<1> QED
  BY <1>4, <1>5, <1>6, <1>7, <1>8

(* A phase of shutdown() is one of the session in use, which has nothing else to do. *)
LEMMA ReleaseKeepsIInv ==
    ASSUME IInv, TypeInv', NEW s \in Sessions, shutdown[s] \in {"grace", "drain", "broken"},
           shutdown' = [shutdown EXCEPT ![s] = "done"], conn' = ClientClosed, Release,
           UNCHANGED <<listens, session, closing, outcome, waitsFor, status, timer, armed, tasks, notice>>
    PROVE  IInv'
<1> USE DEF IInv, TypeInv, TypeOK
<1>1. s = session /\ natsClient # None /\ closing[session]
  BY DEF ShutdownHasConnection, SessionsInOrder
<1>2. SessionsInOrder' /\ NothingBeforeListen' /\ ShutdownHasConnection'
  BY <1>1 DEF Release, tasks, SessionsInOrder, NothingBeforeListen, ShutdownHasConnection
<1>3. OneOpenConnection'
  BY DEF Release, ClientClosed, OneOpenConnection
<1>4. AttemptIsAlone' /\ ReportsAreCurrent'
  BY <1>1 DEF tasks, AttemptIsAlone, Attempts, ReportsAreCurrent
<1>5. ClientIsCurrent' /\ HeldByServer' /\ BoundToClient' /\ StatusFollows'
  BY <1>1 DEF Release, ClientIsCurrent, HeldByServer, TimerIsHeld, BoundToClient, StatusFollows,
     StatusIsAccurate
<1> QED
  BY <1>2, <1>3, <1>4, <1>5

(* The end of the wait for the handlers: a drain, or the close of the connection. *)
LEMMA GraceEndsKeepsIInv == ASSUME IInv, TypeInv', NEW s \in Sessions, GraceEnds(s) PROVE IInv'
<1>1. CASE /\ shutdown' = [shutdown EXCEPT ![s] = "drain"]
           /\ UNCHANGED <<natsClient, subscriptions, loops, conn>>
  <2> USE DEF IInv, TypeInv, TypeOK
  <2>1. SessionsInOrder' /\ ShutdownHasConnection' /\ ClientIsCurrent'
    BY <1>1 DEF GraceEnds, tasks, SessionsInOrder, ShutdownHasConnection, ClientIsCurrent
  <2> QED
    BY <1>1, <2>1 DEF GraceEnds, tasks, NothingBeforeListen, HeldByServer, TimerIsHeld,
       OneOpenConnection,
       AttemptIsAlone, Attempts, ReportsAreCurrent, BoundToClient, StatusFollows, StatusIsAccurate, Reachable
<1>2. CASE shutdown' = [shutdown EXCEPT ![s] = "done"] /\ conn' = ClientClosed /\ Release
  BY <1>2, ReleaseKeepsIInv DEF GraceEnds
<1> QED
  BY <1>1, <1>2 DEF GraceEnds

(* The end of the drain. *)
LEMMA DrainEndsKeepsIInv == ASSUME IInv, TypeInv', NEW s \in Sessions, DrainEnds(s) PROVE IInv'
  BY ReleaseKeepsIInv DEF DrainEnds

(* A connection that comes after close() is closed in the same step. *)
LEMMA StaleKeepsIInv == ASSUME IInv, TypeInv', NEW c \in Conns, ConnectStale(c) PROVE IInv'
<1>1. UNCHANGED <<client, conn>> /\ task' = [task EXCEPT ![c] = "none"] /\ session # 0
  BY DEF ConnectStale, Done, IInv, NothingBeforeListen
<1> QED
  BY <1>1, AfterFailure DEF ConnectStale, Done, app, IInv, TypeInv, TypeOK

(* A connection arrives where there is none, and no failure is still to be reported. *)
LEMMA ArrivalKeepsIInv ==
    ASSUME IInv, TypeInv', NEW c \in Conns, task[c] = "creating", ~closing[owner[c]],
           natsClient' = c, conn' = [conn EXCEPT ![c] = "up"], status' = "connected",
           UNCHANGED <<listens, session, closing, waitsFor, shutdown, timer, armed, loops, notice, owner>>,
           task'[c] \in {"setup", "none"}, \A d \in Conns : d # c => task'[d] = task[d],
           subscriptions' \in {subscriptions, subscriptions \cup {c}},
           \A l \in Calls : outcome'[l] = "waiting" => outcome[l] = "waiting"
    PROVE  IInv'
<1> USE DEF IInv, TypeInv, TypeOK
<1>1. c \in Attempts /\ owner[c] = session /\ natsClient = None /\ ~timer.on /\ \A d \in Attempts : d = c
  BY DEF AttemptIsAlone, Attempts
<1>2. session # 0
  BY DEF NothingBeforeListen
<1>3. SessionsInOrder' /\ NothingBeforeListen' /\ ShutdownHasConnection'
  BY <1>1, <1>2, ConnsAssumption DEF SessionsInOrder, NothingBeforeListen, ShutdownHasConnection
<1>4. ClientIsCurrent' /\ HeldByServer' /\ OneOpenConnection' /\ BoundToClient' /\ StatusFollows'
  BY <1>1, ConnsAssumption DEF SessionsInOrder, ClientIsCurrent, HeldByServer, TimerIsHeld,
     OneOpenConnection, BoundToClient, StatusFollows, StatusIsAccurate, Reachable
<1>5. Attempts' = {}
  BY <1>1 DEF Attempts
<1>6. AttemptIsAlone' /\ ReportsAreCurrent'
  BY <1>1, <1>5, ConnsAssumption DEF AttemptIsAlone, ReportsAreCurrent
<1> QED
  BY <1>3, <1>4, <1>6

(* createClient() has made it, and start() goes on or the JetStream setup begins. *)
LEMMA ConnectedKeepsIInv == ASSUME IInv, TypeInv', NEW c \in Conns, Connected(c) PROVE IInv'
<1> USE DEF IInv, TypeInv, TypeOK
<1>1. /\ task[c] = "creating" /\ ~closing[owner[c]]
      /\ natsClient' = c /\ conn' = [conn EXCEPT ![c] = "up"] /\ status' = "connected"
      /\ UNCHANGED <<listens, session, closing, waitsFor, shutdown, timer, armed, loops, notice, owner>>
      /\ task'[c] \in {"setup", "none"} /\ \A d \in Conns : d # c => task'[d] = task[d]
      /\ subscriptions' \in {subscriptions, subscriptions \cup {c}}
      /\ \A l \in Calls : outcome'[l] = "waiting" => outcome[l] = "waiting"
  BY DEF Connected, Done, Completed
<1> QED
  BY <1>1, ArrivalKeepsIInv

(* start() refuses the handlers: it leaves the connection that it has, or closes it. *)
LEMMA StartRefusedKeepsIInv ==
    ASSUME IInv, TypeInv', NEW c \in Conns, StartRefused(c) PROVE IInv'
<1>1. /\ task[c] \in {"creating", "setup"} /\ task' = [task EXCEPT ![c] = "none"]
      /\ watched' = [watched EXCEPT ![c] = TRUE]
      /\ UNCHANGED <<listens, session, closing, waitsFor, shutdown, owner, notice>>
      /\ session # 0
  BY DEF StartRefused, Done, IInv, NothingBeforeListen
<1>2. CASE Fail(owner[c], callback[c])
  <2>1. natsClient = c => conn[c] = "up"
    BY ConnsAssumption DEF StartRefused, IInv, HeldByServer
  <2>2. /\ UNCHANGED <<client, conn>> \/ Dropped(c)
        /\ \A l \in Calls : outcome'[l] = "waiting" => outcome[l] = "waiting"
    BY <1>1, <1>2, FailFacts
  <2>3. /\ task'[c] # "creating"
        /\ \A d \in Conns : task'[d] = task[d] \/ (d = c /\ task'[d] = "none")
        /\ \A d \in Conns : notice'[d] => notice[d]
    BY <1>1 DEF IInv, TypeInv, TypeOK
  <2> QED
    BY <1>1, <2>1, <2>2, <2>3, AfterFailure
<1>3. CASE /\ task[c] = "creating" /\ ~closing[owner[c]]
           /\ natsClient' = c /\ conn' = [conn EXCEPT ![c] = "up"] /\ status' = "connected"
           /\ outcome' = Completed(owner[c], "error")
           /\ UNCHANGED <<timer, armed, subscriptions, loops>>
  <2>1. \A l \in Calls : outcome'[l] = "waiting" => outcome[l] = "waiting"
    BY <1>3 DEF Completed
  <2>2. task'[c] = "none" /\ \A d \in Conns : d # c => task'[d] = task[d]
    BY <1>1 DEF IInv, TypeInv, TypeOK
  <2> QED
    BY <1>1, <1>3, <2>1, <2>2, ArrivalKeepsIInv
<1> QED
  BY <1>2, <1>3 DEF StartRefused

(* createClient() or the JetStream setup fails. *)
LEMMA RefusedKeepsIInv ==
    ASSUME IInv, TypeInv', NEW c \in Conns, ConnectRefused(c) \/ SetupFails(c) PROVE IInv'
<1>1. task[c] \in {"creating", "setup"} /\ Fail(owner[c], callback[c]) /\ Done(c)
      /\ UNCHANGED <<listens, session, closing, waitsFor, shutdown, watched, notice>>
  BY DEF ConnectRefused, SetupFails
<1>2. session # 0 /\ task' = [task EXCEPT ![c] = "none"] /\ UNCHANGED owner
  BY <1>1 DEF Done, IInv, NothingBeforeListen
<1>3. /\ UNCHANGED <<client, conn>> \/ Dropped(c)
      /\ \A l \in Calls : outcome'[l] = "waiting" => outcome[l] = "waiting"
  BY <1>1, FailFacts
<1>4. task'[c] = "none" /\ \A d \in Conns : d # c => task'[d] = task[d]
  BY <1>2 DEF IInv, TypeInv, TypeOK
<1> QED
  BY <1>1, <1>2, <1>3, <1>4, AfterFailure

(* The authorization retry takes the place of the attempt that has failed. *)
LEMMA UnauthorizedKeepsIInv == ASSUME IInv, TypeInv', NEW c \in Conns, ConnectUnauthorized(c) PROVE IInv'
<1> USE DEF IInv, TypeInv, TypeOK
<1>1. /\ task[c] = "creating" /\ session # 0
      /\ task' = [task EXCEPT ![c] = "none"]
      /\ UNCHANGED <<listens, session, closing, waitsFor, shutdown, watched, notice, owner>>
  BY DEF ConnectUnauthorized, Done, NothingBeforeListen
<1>2. CASE closing[owner[c]] /\ Fail(owner[c], callback[c])
  <2>1. /\ UNCHANGED <<client, conn>> \/ Dropped(c)
        /\ \A l \in Calls : outcome'[l] = "waiting" => outcome[l] = "waiting"
    BY <1>1, <1>2, FailFacts
  <2>2. task'[c] = "none" /\ \A d \in Conns : d # c => task'[d] = task[d]
    BY <1>1
  <2>3. \A d \in Conns : notice'[d] => notice[d]
    BY <1>1
  <2> HIDE DEF IInv, TypeInv, TypeOK
  <2> QED
    BY <1>1, <2>1, <2>2, <2>3, AfterFailure
<1>3. CASE /\ ~closing[owner[c]] /\ Schedule(owner[c], callback[c])
           /\ UNCHANGED <<outcome, natsClient, status, subscriptions, loops, conn>>
  <2>1. owner[c] = session /\ natsClient = None /\ ~timer.on /\ \A d \in Attempts : d = c
    BY <1>1, <1>3 DEF AttemptIsAlone, Attempts
  <2>2. timer' = [on |-> TRUE, session |-> session, callback |-> callback[c]] /\ armed' = 1
    BY <1>3, <2>1 DEF Schedule, HeldByServer, TimerIsHeld
  <2>3. Attempts' = {}
    BY <1>1, <2>1 DEF Attempts
  <2>4. AttemptIsAlone' /\ ReportsAreCurrent'
    BY <1>1, <1>3, <2>2, <2>3 DEF AttemptIsAlone, ReportsAreCurrent
  <2>5. HeldByServer'
    BY <1>1, <1>3, <2>1, <2>2 DEF HeldByServer, TimerIsHeld
  <2> QED
    BY <1>1, <1>3, <2>1, <2>4, <2>5 DEF SessionsInOrder, NothingBeforeListen, ShutdownHasConnection,
       ClientIsCurrent,
       OneOpenConnection, BoundToClient, StatusFollows, StatusIsAccurate, Reachable
<1> QED
  BY <1>2, <1>3 DEF ConnectUnauthorized

(* The status is watched from here on, on a connection that is up. *)
LEMMA SetupOkKeepsIInv == ASSUME IInv, TypeInv', NEW c \in Conns, SetupOk(c) PROVE IInv'
<1> USE DEF IInv, TypeInv, TypeOK
<1>1. natsClient = c /\ task[c] = "setup" /\ UNCHANGED <<app, client, conn, owner, notice>>
      /\ task' = [task EXCEPT ![c] = "binding"] /\ watched' = [watched EXCEPT ![c] = TRUE]
  BY DEF SetupOk, OneOpenConnection
<1>2. StatusFollows'
  BY <1>1 DEF SetupOk, client, StatusFollows, StatusIsAccurate, Reachable
<1>3. AttemptIsAlone' /\ ReportsAreCurrent' /\ NothingBeforeListen' /\ HeldByServer'
  BY <1>1 DEF app, client, AttemptIsAlone, Attempts, ReportsAreCurrent, NothingBeforeListen,
     HeldByServer, TimerIsHeld
<1> QED
  BY <1>1, <1>2, <1>3 DEF app, client, SessionsInOrder, ShutdownHasConnection, ClientIsCurrent,
     OneOpenConnection, BoundToClient

(* A consumer is bound to an open connection, and that is the one in use. *)
LEMMA BindKeepsIInv ==
    ASSUME IInv, TypeInv', NEW c \in Conns, NEW h \in Handlers, BindConsumer(c, h) PROVE IInv'
<1> USE DEF IInv, TypeInv, TypeOK
<1>1. /\ natsClient = c
      /\ UNCHANGED <<listens, session, closing, waitsFor, shutdown, natsClient, status, timer, armed,
                     conn, owner, watched, notice>>
      /\ task' \in {task, [task EXCEPT ![c] = "none"]}
      /\ \A l \in Calls : outcome'[l] = "waiting" => outcome[l] = "waiting"
  BY DEF BindConsumer, FinishStart, Completed, OneOpenConnection
<1>2. BoundToClient'
  BY <1>1, ConnsAssumption DEF BindConsumer, FinishStart, BoundToClient
<1>3. SessionsInOrder' /\ NothingBeforeListen' /\ HeldByServer'
  BY <1>1 DEF SessionsInOrder, NothingBeforeListen, HeldByServer, TimerIsHeld
<1>4. AttemptIsAlone' /\ ReportsAreCurrent'
  BY <1>1 DEF AttemptIsAlone, Attempts, ReportsAreCurrent
<1> QED
  BY <1>1, <1>2, <1>3, <1>4 DEF ShutdownHasConnection, ClientIsCurrent, OneOpenConnection,
     StatusFollows,
     StatusIsAccurate, Reachable

(* The first subscribe() that fails is a failure of the attempt, the others are ignored. *)
LEMMA BindFailsKeepsIInv ==
    ASSUME IInv, TypeInv', NEW c \in Conns, NEW h \in Handlers, BindFails(c, h) PROVE IInv'
<1> USE DEF IInv, TypeInv, TypeOK
<1>1. CASE task[c] = "binding" /\ Fail(owner[c], callback[c]) /\ task' = [task EXCEPT ![c] = "none"]
  <2>1. session # 0
    BY <1>1 DEF NothingBeforeListen
  <2> QED
    BY <1>1, <2>1, FailFacts, AfterFailure DEF BindFails
<1>2. CASE UNCHANGED <<outcome, client, conn, task>>
  BY <1>2 DEF BindFails, client, SessionsInOrder, NothingBeforeListen, ShutdownHasConnection,
     ClientIsCurrent,
     HeldByServer, TimerIsHeld, OneOpenConnection, AttemptIsAlone, Attempts, ReportsAreCurrent, BoundToClient,
     StatusFollows, StatusIsAccurate, Reachable
<1> QED
  BY <1>1, <1>2 DEF BindFails

(* The steps of nats.js: only the connection in use is open, and it alone is lost. *)
LEMMA LinkKeepsIInv ==
    ASSUME IInv, TypeInv', NEW c \in Conns, Lose(c) \/ Redial(c) \/ Back(c) PROVE IInv'
<1> USE DEF IInv, TypeInv, TypeOK
<1>1. /\ natsClient = c
      /\ UNCHANGED <<listens, session, closing, outcome, waitsFor, natsClient, timer, armed,
                     subscriptions, loops, tasks, notice>>
  BY DEF Lose, Redial, Back, app, tasks, OneOpenConnection
<1>2. /\ \A s \in Sessions : shutdown'[s] = shutdown[s] \/ (shutdown[s] = "drain" /\ shutdown'[s] = "broken")
      /\ \A d \in Conns : d # c => conn'[d] = conn[d]
  BY DEF Lose, Redial, Back, app
<1>3. StatusFollows'
  BY <1>1 DEF Lose, Redial, Back, Report, StatusByType, tasks, StatusFollows, StatusIsAccurate,
     Reachable
<1>4. SessionsInOrder' /\ ShutdownHasConnection' /\ ClientIsCurrent' /\ OneOpenConnection'
  BY <1>1, <1>2 DEF tasks, SessionsInOrder, ShutdownHasConnection, ClientIsCurrent, OneOpenConnection
<1> QED
  BY <1>1, <1>3, <1>4 DEF tasks, NothingBeforeListen, HeldByServer, TimerIsHeld, AttemptIsAlone,
     Attempts,
     ReportsAreCurrent, BoundToClient

(* nats.js gives the connection up: its notice is one of the connection in use. *)
LEMMA CloseForGoodKeepsIInv == ASSUME IInv, TypeInv', NEW c \in Conns, CloseForGood(c) PROVE IInv'
<1> USE DEF IInv, TypeInv, TypeOK
<1>1. natsClient = c /\ owner[c] = session /\ UNCHANGED <<app, client, tasks>>
      /\ conn' = [conn EXCEPT ![c] = "closed"] /\ notice' = [notice EXCEPT ![c] = TRUE]
  BY ConnsAssumption DEF CloseForGood, OneOpenConnection, ClientIsCurrent
<1>2. NothingBeforeListen' /\ ReportsAreCurrent'
  BY <1>1, ConnsAssumption DEF app, client, tasks, NothingBeforeListen, ReportsAreCurrent
<1> QED
  BY <1>1, <1>2 DEF app, client, tasks, SessionsInOrder, ShutdownHasConnection, ClientIsCurrent,
     HeldByServer,
     TimerIsHeld, OneOpenConnection, AttemptIsAlone, Attempts, BoundToClient, StatusFollows, StatusIsAccurate,
     Reachable

(* The notice is acted on when it is the first report of the failure. *)
LEMMA NoticeKeepsIInv == ASSUME IInv, TypeInv', NEW c \in Conns, Notice(c) PROVE IInv'
<1> USE DEF IInv, TypeInv, TypeOK
<1>1. UNCHANGED <<client, conn>> \/ Dropped(c)
  BY ReconnectFacts DEF Notice
<1>2. session # 0 /\ UNCHANGED <<app, tasks>> /\ \A d \in Conns : notice'[d] => notice[d]
  BY DEF Notice, NothingBeforeListen
<1>3. CASE task[c] # "creating"
  BY <1>1, <1>2, <1>3, AfterFailure DEF app, tasks
<1>4. CASE task[c] = "creating"
  <2>1. UNCHANGED <<client, conn>>
    BY <1>4, ConnsAssumption DEF Notice, Reconnect, MayReconnect, ReportsAreCurrent, AttemptIsAlone,
       Attempts
  <2> QED
    BY <1>2, <2>1 DEF app, client, tasks, SessionsInOrder, NothingBeforeListen, ShutdownHasConnection,
       ClientIsCurrent, HeldByServer, TimerIsHeld, OneOpenConnection, AttemptIsAlone, Attempts, ReportsAreCurrent,
       BoundToClient, StatusFollows, StatusIsAccurate, Reachable
<1> QED
  BY <1>3, <1>4

(* The timer starts the only attempt: every report on the connection before has come. *)
LEMMA TimerKeepsIInv == ASSUME IInv, TypeInv', TimerFires PROVE IInv'
<1> USE DEF IInv, TypeInv, TypeOK
<1>1. /\ timer.on /\ timer.session = session /\ ~closing[session] /\ natsClient = None
      /\ timer' = NoTimer /\ armed' = 0 /\ session # 0
      /\ UNCHANGED <<app, natsClient, status, subscriptions, loops, conn, notice>>
  BY DEF TimerFires, ClearTimer, HeldByServer, TimerIsHeld, NothingBeforeListen
<1>2. \A d \in Conns : task[d] \in {"none", "creating"} /\ ~notice[d]
  BY <1>1, ConnsAssumption DEF TimerFires, Settled, OneOpenConnection
<1>3. PICK c \in Conns :
        /\ Free(c)
        /\ owner' = [owner EXCEPT ![c] = session]
        /\ task' = [task EXCEPT ![c] = "creating"]
        /\ watched' = [watched EXCEPT ![c] = FALSE]
  BY <1>1 DEF TimerFires, Connect
<1>4. Attempts = {}
  BY <1>1 DEF AttemptIsAlone
<1>5. AttemptIsAlone'
  BY <1>1, <1>3, <1>4 DEF app, NoTimer, AttemptIsAlone, Attempts
<1>6. ReportsAreCurrent'
  BY <1>1, <1>2, <1>3 DEF ReportsAreCurrent
<1> QED
  BY <1>1, <1>5, <1>6 DEF app, NoTimer, SessionsInOrder, NothingBeforeListen, ShutdownHasConnection,
     ClientIsCurrent,
     HeldByServer, TimerIsHeld, OneOpenConnection, BoundToClient, StatusFollows, StatusIsAccurate

(* A step that changes nothing. *)
LEMMA StutterKeepsIInv == ASSUME IInv, TypeInv', UNCHANGED vars PROVE IInv'
  BY DEF IInv, TypeInv, TypeOK, vars, app, client, tasks, SessionsInOrder, NothingBeforeListen,
     ShutdownHasConnection,
     ClientIsCurrent, HeldByServer, TimerIsHeld, OneOpenConnection, AttemptIsAlone, Attempts,
     ReportsAreCurrent, BoundToClient, StatusFollows, StatusIsAccurate, Reachable

(* Every step of the server keeps the invariant. *)
LEMMA IInvNext == ~OverlappingListens /\ IInv /\ [Next]_vars => IInv'
<1> SUFFICES ASSUME ~OverlappingListens, IInv, [Next]_vars PROVE IInv'
  OBVIOUS
<1>1. TypeInv'
  BY TypeNext DEF IInv
<1> QED
  BY <1>1, ListenKeepsIInv, CloseKeepsIInv, ResumeKeepsIInv, GraceEndsKeepsIInv, DrainEndsKeepsIInv,
     StaleKeepsIInv, ConnectedKeepsIInv, StartRefusedKeepsIInv, RefusedKeepsIInv, UnauthorizedKeepsIInv, SetupOkKeepsIInv,
     BindKeepsIInv, BindFailsKeepsIInv, LinkKeepsIInv, CloseForGoodKeepsIInv, NoticeKeepsIInv,
     TimerKeepsIInv, StutterKeepsIInv DEF Next

(* The constructor establishes the invariant. *)
LEMMA IInvInit == Init => IInv
<1> SUFFICES ASSUME Init PROVE IInv
  OBVIOUS
<1>1. TypeInv
  BY TypeInit
<1> QED
  BY <1>1, MaxListensAssumption DEF Init, NoTimer, IInv, Sessions, Calls, SessionsInOrder,
     NothingBeforeListen,
     ShutdownHasConnection, ClientIsCurrent, HeldByServer, TimerIsHeld, OneOpenConnection,
     AttemptIsAlone, Attempts, ReportsAreCurrent, BoundToClient, StatusFollows, StatusIsAccurate

(* The inductive invariant holds in every state of the server. *)
LEMMA Invariance == ASSUME ~OverlappingListens PROVE Spec => []IInv
  BY IInvInit, IInvNext, PTL DEF Spec

-----------------------------------------------------------------------------
(* The theorems.  They assume that no listen() is called while another one waits *)
(* for a close: the run lifecycle_overlap shows what goes wrong otherwise.       *)

(* The state of a server is what the code expects, whatever the order of listen(),
   close(), failures and retries. *)
THEOREM TypeCorrect == ASSUME ~OverlappingListens PROVE Spec => []TypeOK
<1>1. IInv => TypeOK
  BY DEF IInv, TypeInv
<1> QED
  BY Invariance, <1>1, PTL

(* No connection is leaked: connect(), reconnect() and shutdown() close each one that
   natsClient does not hold. *)
THEOREM NoLeak == ASSUME ~OverlappingListens PROVE Spec => []OneOpenConnection
<1>1. IInv => OneOpenConnection
  BY DEF IInv
<1> QED
  BY Invariance, <1>1, PTL

(* What a closed session still runs does not touch the connection of the next one. *)
THEOREM CurrentClient == ASSUME ~OverlappingListens PROVE Spec => []ClientIsCurrent
<1>1. IInv => ClientIsCurrent
  BY DEF IInv
<1> QED
  BY Invariance, <1>1, PTL

(* The subscriptions and consumers are those of the connection in use. *)
THEOREM SubscriptionsFollow == ASSUME ~OverlappingListens PROVE Spec => []BoundToClient
<1>1. IInv => BoundToClient
  BY DEF IInv
<1> QED
  BY Invariance, <1>1, PTL

(* close() can cancel every attempt that schedule() has scheduled. *)
THEOREM TimersAreHeld == ASSUME ~OverlappingListens PROVE Spec => []TimerIsHeld
<1>1. IInv => TimerIsHeld
  BY DEF IInv, HeldByServer
<1> QED
  BY Invariance, <1>1, PTL

(* `reachable` is right about every connection whose status is watched. *)
THEOREM ReachableIsRight == ASSUME ~OverlappingListens PROVE Spec => []StatusIsAccurate
<1>1. IInv => StatusIsAccurate
  BY DEF IInv, StatusFollows
<1> QED
  BY Invariance, <1>1, PTL

(* shutdown() finds the connection of its session after each of its awaits. *)
THEOREM ShutdownFindsItsConnection ==
    ASSUME ~OverlappingListens PROVE Spec => []ShutdownHasConnection
<1>1. IInv => ShutdownHasConnection
  BY DEF IInv
<1> QED
  BY Invariance, <1>1, PTL

(* At most one attempt to connect: its set has no element or one. *)
LEMMA AttemptsOfOne == IInv => OneAttempt
<1> SUFFICES ASSUME IInv PROVE OneAttempt
  OBVIOUS
<1>1. armed = IF timer.on THEN 1 ELSE 0
  BY DEF IInv, HeldByServer, TimerIsHeld
<1>2. CASE Attempts = {}
  BY <1>1, <1>2, FS_EmptySet DEF IInv, HeldByServer, OneAttempt
<1>3. CASE Attempts # {}
  <2>1. PICK c \in Attempts : TRUE
    BY <1>3
  <2>2. Attempts = {c}
    BY <2>1 DEF IInv, AttemptIsAlone
  <2>3. Cardinality(Attempts) = 1
    BY <2>2, FS_Singleton
  <2>4. natsClient = None /\ ~timer.on
    BY <2>1 DEF IInv, AttemptIsAlone
  <2> QED
    BY <1>1, <2>3, <2>4 DEF OneAttempt
<1> QED
  BY <1>2, <1>3

(* A failure that is reported twice, an authorization retry and a close leave one attempt
   to connect at most. *)
THEOREM OneAttemptAtATime == ASSUME ~OverlappingListens PROVE Spec => []OneAttempt
  BY Invariance, AttemptsOfOne, PTL

(* With a close() pending, the steps that bind are not enabled or bind nothing. *)
LEMMA BindStep ==
    ASSUME IInv, Next, closing[session]
    PROVE  /\ subscriptions' \subseteq subscriptions
           /\ \A h \in Handlers : loops'[h] \in {loops[h], None}
<1> USE DEF IInv, TypeInv, TypeOK
<1>1. ASSUME NEW c \in Conns, Connected(c) PROVE FALSE
  BY <1>1 DEF Connected, AttemptIsAlone, Attempts
<1>2. ASSUME NEW c \in Conns, NEW h \in Handlers, BindConsumer(c, h) PROVE UNCHANGED <<subscriptions, loops>>
  BY <1>2 DEF BindConsumer, FinishStart
<1>3. ASSUME Release PROVE subscriptions' = {} /\ loops' = [h \in Handlers |-> None]
  BY <1>3 DEF Release
<1>4. ASSUME NEW s, Reconnect(s) PROVE UNCHANGED <<subscriptions, loops>> \/ Release
  BY <1>4 DEF Reconnect, client
<1>5. ASSUME NEW s, NEW cb, Fail(s, cb) PROVE UNCHANGED <<subscriptions, loops>> \/ Release
  BY <1>5, <1>4 DEF Fail, client
<1>6. UNCHANGED <<subscriptions, loops>> \/ Release
  BY <1>1, <1>2, <1>4, <1>5 DEF Next, Listen, ListenRejected, ListenFirst, ListenAgain, Close, Resume,
     GraceEnds, DrainEnds, ConnectStale, ConnectRefused, ConnectUnauthorized, SetupOk, SetupFails, StartRefused,
     BindFails,
     Lose, Redial, Back, CloseForGood, Notice, TimerFires, client
<1> QED
  BY <1>3, <1>6

(* close() that comes during the JetStream setup: nothing is subscribed after it. *)
THEOREM NothingBoundAfterClose == ASSUME ~OverlappingListens PROVE Spec => NoBindAfterClose
<1>1. IInv /\ [Next]_vars => [closing[session] =>
         /\ subscriptions' \subseteq subscriptions
         /\ \A h \in Handlers : loops'[h] \in {loops[h], None}]_vars
  BY BindStep
<1> QED
  BY Invariance, <1>1, PTL DEF Spec, NoBindAfterClose

(* Only the end of the wait for the handlers begins a drain. *)
LEMMA DrainStep ==
    ASSUME IInv, Next, NEW s \in Sessions, Drains(s)
    PROVE  conn[natsClient] = "up" \/ ~watched[natsClient]
<1> USE DEF IInv, TypeInv, TypeOK
<1>1. ASSUME NEW t, Stop(t) PROVE \A r \in Sessions : shutdown'[r] # "drain" \/ shutdown[r] = "drain"
  BY <1>1 DEF Stop, Shutdown
<1>2. PICK t \in Sessions : GraceEnds(t)
  BY <1>1 DEF Drains, Next, app, Listen, ListenRejected, ListenFirst, ListenAgain, Close, Resume,
     DrainEnds, ConnectStale, Connected, ConnectRefused, ConnectUnauthorized, SetupOk, SetupFails,
     StartRefused, BindConsumer, BindFails, Lose, Redial, Back, CloseForGood, Notice, TimerFires
<1> QED
  BY <1>2 DEF GraceEnds, Drains, StatusFollows, StatusIsAccurate

(* close() begins no drain that NATS cannot answer, on a connection that is watched. *)
THEOREM NoDrainWithoutNats == ASSUME ~OverlappingListens PROVE Spec => DrainsOnlyWhileUp
<1>1. IInv /\ [Next]_vars => [\A s \in Sessions : Drains(s) => conn[natsClient] = "up" \/ ~watched[natsClient]]_vars
  BY DrainStep
<1> QED
  BY Invariance, <1>1, PTL DEF Spec, DrainsOnlyWhileUp

(* The listen() calls to come have no outcome yet. *)
AnswersAhead == \A l \in Calls : l > listens => outcome[l] = "none"

AnswerKept == \A l \in Calls : outcome[l] \in {"ok", "error", "closed"} => outcome'[l] = outcome[l]

(* complete() changes a pending outcome only; listen() gives one to a call that has none. *)
LEMMA AnswerStep ==
    ASSUME IInv, AnswersAhead, [Next]_vars PROVE AnswersAhead' /\ AnswerKept
<1> USE SessionsFacts DEF IInv, TypeInv, TypeOK
<1> DEFINE Same == /\ UNCHANGED listens
                   /\ \A l \in Calls : outcome'[l] = outcome[l] \/ outcome[l] \in {"waiting", "pending"}
<1>1. CASE Same
  BY <1>1 DEF AnswersAhead, AnswerKept
<1>2. CASE Listen
  <2> DEFINE next == listens + 1
             Others == \A l \in Calls : l # next =>
                          outcome'[l] = outcome[l] \/ outcome[l] \in {"waiting", "pending"}
  <2>1. next \in Calls /\ listens' = next /\ (ListenRejected(next) \/ ListenFirst(next) \/ ListenAgain(next))
    BY <1>2 DEF Listen
  <2>2. outcome[next] = "none"
    BY <2>1 DEF AnswersAhead
  <2>3. ASSUME ListenRejected(next) PROVE Others
    BY <2>1, <2>3 DEF ListenRejected
  <2>4. ASSUME ListenFirst(next) PROVE Others
    BY <2>1, <2>4 DEF ListenFirst, StartSession
  <2>5. ASSUME ListenAgain(next) PROVE Others
    BY <2>1, <2>5 DEF ListenAgain, Completed
  <2>6. Others
    BY <2>1, <2>3, <2>4, <2>5
  <2> HIDE DEF next
  <2> QED
    BY <2>1, <2>2, <2>6 DEF AnswersAhead, AnswerKept, next
<1>3. ASSUME NEW s, NEW cb, Fail(s, cb)
      PROVE  \A l \in Calls : outcome'[l] = outcome[l] \/ outcome[l] \in {"waiting", "pending"}
  BY <1>3 DEF Fail, Completed
<1>4. CASE Close
  BY <1>1, <1>4 DEF Close, Completed
<1>5. ASSUME NEW l \in Calls, Resume(l) PROVE Same
  BY <1>5 DEF Resume, StartSession
<1>6. ASSUME NEW c \in Conns, ConnectRefused(c) \/ ConnectUnauthorized(c) \/ SetupFails(c) PROVE Same
  BY <1>3, <1>6 DEF ConnectRefused, ConnectUnauthorized, SetupFails
<1>7. ASSUME NEW c \in Conns, NEW h \in Handlers, BindFails(c, h) PROVE Same
  BY <1>3, <1>7 DEF BindFails
<1>8. ASSUME NEW c \in Conns, Connected(c) PROVE Same
  BY <1>8 DEF Connected, Completed
<1>9. ASSUME NEW c \in Conns, NEW h \in Handlers, BindConsumer(c, h) PROVE Same
  BY <1>9 DEF BindConsumer, FinishStart, Completed
<1>10. ASSUME NEW c \in Conns, StartRefused(c) PROVE Same
  BY <1>3, <1>10 DEF StartRefused, Completed
<1>11. ASSUME UNCHANGED <<listens, outcome>> PROVE Same
  BY <1>11
<1> QED
  BY <1>1, <1>2, <1>4, <1>5, <1>6, <1>7, <1>8, <1>9, <1>10, <1>11 DEF Next, GraceEnds, DrainEnds, ConnectStale,
     SetupOk, Lose, Redial, Back, CloseForGood, Notice, TimerFires, app, vars

(* listen() calls its callback back once, although close(), a failure and the end of the
   setup may each do it. *)
THEOREM ListenAnsweredOnce == ASSUME ~OverlappingListens PROVE Spec => AnsweredOnce
<1>1. Init => AnswersAhead
  BY DEF Init, AnswersAhead
<1>2. IInv /\ AnswersAhead /\ [Next]_vars => AnswersAhead'
  BY AnswerStep
<1>3. IInv /\ AnswersAhead /\ [Next]_vars => [AnswerKept]_vars
  BY AnswerStep
<1> QED
  BY Invariance, <1>1, <1>2, <1>3, PTL DEF Spec, AnsweredOnce, AnswerKept
=============================================================================
