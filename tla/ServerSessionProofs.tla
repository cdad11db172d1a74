------------------------- MODULE ServerSessionProofs -------------------------
(***************************************************************************)
(* ServerLifecycle implements ServerSession, for every number of           *)
(* connections, handlers and listen() calls, with and without JetStream:   *)
(* each step of the server is a step of the session in use, or one that    *)
(* its callers do not see.                                                 *)
(***************************************************************************)
EXTENDS ServerLifecycleProofs

(* A listen() is pending only while its session is in use and not closing:
   whatever stops the session has told it. *)
PendingIsCurrent ==
    \A l \in Calls : outcome[l] = "pending" => l = session /\ ~closing[session]

SInv == IInv /\ AnswersAhead /\ PendingIsCurrent

-----------------------------------------------------------------------------
(* What the operations do to a listen().                                   *)

(* complete() changes the outcome of the session in use, or nothing. *)
LEMMA CompletedIs ==
    ASSUME SInv, NEW s \in Sessions, NEW result
    PROVE  \/ Completed(s, result) = outcome
           \/ /\ s = session /\ session # 0 /\ ~closing[session] /\ outcome[session] = "pending"
              /\ Completed(s, result) = [outcome EXCEPT ![session] = result]
<1> USE SessionsFacts
<1>1. outcome = [l \in Calls |-> outcome[l]] /\ session \in Sessions
  BY DEF SInv, IInv, TypeInv, TypeOK
<1>2. CASE \A l \in Calls : ~(l = s /\ outcome[l] = "pending")
  BY <1>1, <1>2 DEF Completed
<1>3. ASSUME s \in Calls, outcome[s] = "pending"
      PROVE  /\ s = session /\ session # 0 /\ ~closing[session] /\ outcome[session] = "pending"
             /\ Completed(s, result) = [outcome EXCEPT ![session] = result]
  <2>1. s = session /\ ~closing[session]
    BY <1>3 DEF SInv, PendingIsCurrent
  <2> QED
    BY <1>1, <1>3, <2>1 DEF Completed
<1> QED
  BY <1>2, <1>3

(* What the work of the session does to its listen(). *)
Answers ==
    \/ UNCHANGED outcome
    \/ /\ outcome[session] = "pending"
       /\ \/ outcome' = [outcome EXCEPT ![session] = "error"]
          \/ Taking' /\ outcome' = [outcome EXCEPT ![session] = "ok"]

Working == session # 0 /\ ~closing[session] /\ UNCHANGED <<session, closing>> /\ Answers

Unseen == UNCHANGED <<session, closing, outcome, natsClient, subscriptions, loops>>

(* A failure acts on the session in use while it is not closing, or not at all. *)
LEMMA ReconnectActs ==
    ASSUME SInv, NEW c \in Conns, Reconnect(owner[c]),
           task[c] \in {"creating", "setup", "binding"} \/ notice[c]
    PROVE  UNCHANGED <<client, conn>> \/ (session # 0 /\ ~closing[session])
<1>1. CASE UNCHANGED <<client, conn>>
  BY <1>1
<1>2. CASE MayReconnect(owner[c])
  <2>1. session # 0
    BY DEF SInv, IInv, NothingBeforeListen
  <2>2. ~closing[owner[c]] /\ owner[c] = session
    BY <1>2 DEF SInv, IInv, TypeInv, TypeOK, MayReconnect, AttemptIsAlone, Attempts, ReportsAreCurrent
  <2> QED
    BY <2>1, <2>2
<1> QED
  BY <1>1, <1>2 DEF Reconnect

(* The callback of connect() with an error completes a pending listen() or reconnects. *)
LEMMA FailActs ==
    ASSUME SInv, NEW c \in Conns, Fail(owner[c], callback[c]),
           task[c] \in {"creating", "setup", "binding"}, UNCHANGED <<session, closing>>
    PROVE  Working \/ Unseen
<1>1. CASE outcome' = Completed(owner[c], "error") /\ UNCHANGED <<client, conn>>
  <2>1. owner[c] \in Sessions
    BY DEF SInv, IInv, TypeInv, TypeOK
  <2> QED
    BY <1>1, <2>1, CompletedIs DEF Working, Answers, Unseen, client
<1>2. CASE Reconnect(owner[c]) /\ UNCHANGED outcome
  BY <1>2, ReconnectActs DEF Working, Answers, Unseen, client
<1> QED
  BY <1>1, <1>2 DEF Fail

-----------------------------------------------------------------------------
(* Each step of the server, as the session has it.                         *)

(* What takes messages is bound to a connection. *)
LEMMA TakingNeedsConnection == IInv => (Taking => natsClient # None)
  BY DEF IInv, BoundToClient, Taking

(* Connecting, binding and failing are the work of the session. *)
LEMMA WorkStep == ASSUME IInv', Working PROVE Session!Work
<1>1. Taking' => (natsClient # None)'
  BY TakingNeedsConnection, PTL
<1>2. Taking' \in BOOLEAN /\ (natsClient # None)' \in BOOLEAN
  BY DEF Taking
<1> QED
  BY <1>1, <1>2 DEF Working, Answers, Session!Work, SessionsInOrder, IInv, TypeInv, TypeOK

(* A step that changes nothing of what the callers see. *)
LEMMA UnseenStep == ASSUME Unseen PROVE UNCHANGED Session!vars
  BY DEF Unseen, Session!vars, Taking

(* The abstract stop(): it tells the listen() that is pending, which is that of the
   session, and only when shutdown() has not run. *)
LEMMA StopStep ==
    ASSUME SInv, Stop(session)
    PROVE  /\ {s \in Sessions : closing[s]}' = {s \in Sessions : closing[s]} \cup {session}
           /\ shutdown[session] # "no" => Session!Told = outcome
           /\ Session!Told = Completed(session, "closed")
<1>1. closing' = [closing EXCEPT ![session] = TRUE] /\ closing \in [Sessions -> BOOLEAN]
      /\ session \in Sessions /\ outcome = [l \in Calls |-> outcome[l]]
  BY StopFacts DEF SInv, IInv, TypeInv, TypeOK
<1>2. {s \in Sessions : closing[s]}' = {s \in Sessions : closing[s]} \cup {session}
  BY <1>1
<1>3. ASSUME shutdown[session] # "no" PROVE Session!Told = outcome
  <2>1. \A l \in Calls : ~(l = session /\ outcome[l] = "pending")
    BY <1>1, <1>3 DEF SInv, IInv, SessionsInOrder, PendingIsCurrent
  <2> QED
    BY <1>1, <2>1 DEF Session!Told, Session!Calls, Calls
<1> QED
  BY <1>2, <1>3 DEF Session!Told, Session!Calls, Calls, Completed

(* Taking does not change with what it is made of. *)
LEMMA SameTaking == UNCHANGED <<subscriptions, loops>> => UNCHANGED Taking
  BY DEF Taking

(* close(). *)
LEMMA CloseStep == ASSUME SInv, Close PROVE Session!Close
<1>1. outcome' = Session!Told
      /\ {s \in Sessions : closing[s]}' = {s \in Sessions : closing[s]} \cup {session}
  BY StopStep DEF Close
<1>2. UNCHANGED <<session, natsClient, subscriptions, loops>>
  BY DEF Close
<1> QED
  BY <1>1, <1>2, SameTaking DEF Session!Close, Session!Stop

(* listen(), in its three ways. *)
LEMMA ListenStep ==
    ASSUME SInv, Listen
    PROVE  \E l \in Session!Calls : Session!ListenFirst(l) \/ Session!ListenAgain(l)
<1> DEFINE l == listens + 1
<1>1. l \in Calls /\ outcome[l] = "none" /\ (ListenRejected(l) \/ ListenFirst(l) \/ ListenAgain(l))
  BY SessionsFacts DEF Listen, SInv, IInv, TypeInv, TypeOK, AnswersAhead
<1> HIDE DEF l
<1>2. l \in Session!Calls /\ session \in Sessions
  BY <1>1 DEF Calls, Session!Calls, SInv, IInv, TypeInv, TypeOK
<1>3. CASE ListenRejected(l)
  <2>1. Session!ListenFirst(l)
    BY <1>1, <1>2, <1>3, SameTaking DEF ListenRejected, client, Session!ListenFirst
  <2> QED
    BY <1>2, <2>1
<1>4. CASE ListenFirst(l)
  <2>1. Session!ListenFirst(l)
    BY <1>1, <1>2, <1>4, SameTaking DEF ListenFirst, StartSession, client, Session!ListenFirst
  <2> QED
    BY <1>2, <2>1
<1>5. CASE ListenAgain(l)
  <2>1. Stop(session) /\ session # 0 /\ UNCHANGED <<session, natsClient, subscriptions, loops>>
    BY <1>5 DEF ListenAgain
  <2>2. CASE shutdown[session] = "no"
    BY <1>1, <1>2, <1>5, <2>1, <2>2, StopStep, SameTaking DEF ListenAgain, Session!ListenAgain, Session!Stop
  <2>3. CASE shutdown[session] # "no"
    <3>1. Completed(session, "pending") = outcome
      BY SessionsFacts, <1>2, <2>3, CompletedIs DEF SInv, IInv, SessionsInOrder
    <3> QED
      BY <1>1, <1>2, <1>5, <2>1, <2>3, <3>1, StopStep, SameTaking
         DEF ListenAgain, Session!ListenAgain, Session!Stop
  <2> QED
    BY <2>2, <2>3
<1> QED
  BY <1>1, <1>3, <1>4, <1>5

(* The listen() that waited finds nothing of the session before. *)
LEMMA ResumeStep == ASSUME SInv, NEW l \in Calls, Resume(l) PROVE Session!Resume(l)
<1>1. closing[session] /\ shutdown[session] = "done" /\ session \in Sessions
  BY DEF Resume, SInv, IInv, SessionsInOrder, TypeInv, TypeOK
<1>2. natsClient = None
  BY <1>1 DEF SInv, IInv, ClientIsCurrent
<1> QED
  BY <1>1, <1>2, SameTaking DEF Resume, StartSession, client, Session!Resume

(* The end of a shutdown: the connection is forgotten, or kept for the drain. *)
LEMMA ShutdownStep ==
    ASSUME SInv, NEW s \in Sessions, GraceEnds(s) \/ DrainEnds(s)
    PROVE  Session!Disconnect \/ UNCHANGED Session!vars
<1>1. closing[session] /\ session \in Sessions /\ natsClient # None
  BY DEF GraceEnds, DrainEnds, SInv, IInv, ShutdownHasConnection, SessionsInOrder, TypeInv, TypeOK
<1>2. UNCHANGED <<session, closing, outcome>>
  BY DEF GraceEnds, DrainEnds
<1>3. CASE UNCHANGED <<natsClient, subscriptions, loops>>
  BY <1>2, <1>3, UnseenStep DEF Unseen
<1>4. CASE Release
  <2>1. ~Taking'
    BY <1>4 DEF Release, Taking
  <2>2. Taking' = FALSE /\ (natsClient # None)' = FALSE
    BY <1>4, <2>1 DEF Release, Taking
  <2> QED
    BY <1>1, <1>2, <2>2 DEF Session!Disconnect
<1> QED
  BY <1>3, <1>4 DEF GraceEnds, DrainEnds

(* A connection arrives, for an attempt of the session in use. *)
LEMMA ConnectedActs == ASSUME SInv, NEW c \in Conns, Connected(c) PROVE Working
<1>1. /\ owner[c] = session /\ ~closing[session] /\ session # 0 /\ session \in Sessions
      /\ UNCHANGED <<session, closing>>
  BY DEF Connected, SInv, IInv, TypeInv, TypeOK, AttemptIsAlone, Attempts, NothingBeforeListen
<1>2. CASE UNCHANGED outcome
  BY <1>1, <1>2 DEF Working, Answers
<1>3. CASE subscriptions' = subscriptions \cup {c} /\ outcome' = Completed(owner[c], "ok")
  <2>1. Taking'
    BY <1>3 DEF Taking
  <2> QED
    BY <1>1, <1>3, <2>1, CompletedIs DEF Working, Answers
<1> QED
  BY <1>2, <1>3 DEF Connected

(* A consumer is bound: the last one completes the start. *)
LEMMA BindActs ==
    ASSUME SInv, NEW c \in Conns, NEW h \in Handlers, BindConsumer(c, h) PROVE Working \/ Unseen
<1>1. /\ natsClient = c /\ c # None /\ session # 0 /\ owner[c] \in Sessions
      /\ UNCHANGED <<session, closing, natsClient>>
  BY ConnsAssumption DEF BindConsumer, SInv, IInv, TypeInv, TypeOK, OneOpenConnection, NothingBeforeListen
<1>2. CASE UNCHANGED <<subscriptions, outcome>>
  BY <1>1, <1>2 DEF BindConsumer, Working, Answers, Unseen
<1>3. CASE FinishStart(c)
  <2>1. outcome' \in {outcome, Completed(owner[c], "ok")}
    BY <1>3 DEF FinishStart
  <2>2. CASE closing[session]
    <3>1. outcome' = outcome
      BY <1>1, <2>1, <2>2, CompletedIs
    <3> QED
      BY <1>1, <1>3, <2>2, <3>1 DEF BindConsumer, FinishStart, Unseen
  <2>3. CASE ~closing[session]
    <3>1. Taking'
      BY <1>3, <2>3 DEF FinishStart, Taking
    <3> QED
      BY <1>1, <2>1, <2>3, <3>1, CompletedIs DEF Working, Answers
  <2> QED
    BY <2>2, <2>3
<1> QED
  BY <1>2, <1>3 DEF BindConsumer

(* What the connections and the timer do. *)
LEMMA ConnStep ==
    ASSUME SInv, NEW c \in Conns,
           \/ ConnectStale(c) \/ Connected(c) \/ ConnectRefused(c) \/ ConnectUnauthorized(c)
           \/ SetupOk(c) \/ SetupFails(c) \/ StartRefused(c)
           \/ \E h \in Handlers : BindConsumer(c, h) \/ BindFails(c, h)
           \/ Lose(c) \/ Redial(c) \/ Back(c) \/ CloseForGood(c) \/ Notice(c)
    PROVE  Working \/ Unseen
<1>1. CASE ConnectRefused(c) \/ SetupFails(c)
  BY <1>1, FailActs DEF ConnectRefused, SetupFails
<1>2. CASE ConnectUnauthorized(c)
  <2>1. CASE UNCHANGED <<outcome, natsClient, status, subscriptions, loops, conn>>
    BY <1>2, <2>1 DEF ConnectUnauthorized, Unseen
  <2>2. CASE Fail(owner[c], callback[c])
    BY <1>2, <2>2, FailActs DEF ConnectUnauthorized
  <2> QED
    BY <1>2, <2>1, <2>2 DEF ConnectUnauthorized
<1>3. ASSUME NEW h \in Handlers, BindFails(c, h) PROVE Working \/ Unseen
  <2>1. CASE UNCHANGED <<outcome, client, conn, task>>
    BY <1>3, <2>1 DEF BindFails, client, Unseen
  <2>2. CASE task[c] = "binding" /\ Fail(owner[c], callback[c])
    BY <1>3, <2>2, FailActs DEF BindFails
  <2> QED
    BY <1>3, <2>1, <2>2 DEF BindFails
<1>4. CASE Notice(c)
  BY <1>4, ReconnectActs DEF Notice, app, client, Working, Answers, Unseen
<1>5. CASE \/ ConnectStale(c) \/ SetupOk(c) \/ Lose(c) \/ Redial(c) \/ Back(c) \/ CloseForGood(c)
  BY <1>5 DEF ConnectStale, SetupOk, Lose, Redial, Back, CloseForGood, app, client, Unseen
<1>6. CASE StartRefused(c)
  <2>1. CASE Fail(owner[c], callback[c])
    BY <1>6, <2>1, FailActs DEF StartRefused
  <2>2. CASE /\ task[c] = "creating" /\ ~closing[owner[c]]
             /\ outcome' = Completed(owner[c], "error")
    <3>1. owner[c] = session /\ ~closing[session] /\ session # 0 /\ session \in Sessions
      BY <2>2 DEF SInv, IInv, TypeInv, TypeOK, AttemptIsAlone, Attempts, NothingBeforeListen
    <3> QED
      BY <1>6, <2>2, <3>1, CompletedIs DEF StartRefused, Working, Answers
  <2> QED
    BY <1>6, <2>1, <2>2 DEF StartRefused
<1> QED
  BY <1>1, <1>2, <1>3, <1>4, <1>5, <1>6, ConnectedActs, BindActs

(* Working and what is unseen keep the pending listen() that of the session in use. *)
LEMMA PendingKept == ASSUME SInv, Working \/ Unseen PROVE PendingIsCurrent'
  BY DEF SInv, IInv, TypeInv, TypeOK, Working, Answers, Unseen, PendingIsCurrent

(* So does every step of the server. *)
LEMMA PendingNext == ASSUME SInv, [Next]_vars PROVE PendingIsCurrent'
<1> USE SessionsFacts
<1>t. outcome \in [Calls -> Outcomes] /\ closing \in [Sessions -> BOOLEAN] /\ session \in Sessions
  BY DEF SInv, IInv, TypeInv, TypeOK, Outcomes
<1>1. CASE Close
  <2>1. closing' = [closing EXCEPT ![session] = TRUE]
    BY <1>1, StopFacts DEF Close, SInv
  <2>2. shutdown[session] = "no" => \A l \in Calls : outcome'[l] # "pending" \/ (l # session /\ outcome[l] = "pending")
    BY <1>1 DEF Close, Completed
  <2>3. shutdown[session] # "no" => outcome' = outcome /\ closing[session]
    BY <1>1, <1>t DEF Close, SInv, IInv, SessionsInOrder
  <2>4. \A l \in Calls : outcome'[l] # "pending"
    BY <2>2, <2>3 DEF SInv, PendingIsCurrent
  <2> QED
    BY <2>4 DEF PendingIsCurrent
<1>2. CASE Listen
  <2> DEFINE l == listens + 1
  <2>1. l \in Calls /\ (ListenRejected(l) \/ ListenFirst(l) \/ ListenAgain(l))
        /\ ~closing[l]
    BY <1>2, <1>t DEF Listen, SInv, IInv, TypeInv, TypeOK, SessionsInOrder
  <2> HIDE DEF l
  <2>2. CASE ListenRejected(l)
    BY <1>t, <2>1, <2>2 DEF ListenRejected, SInv, PendingIsCurrent
  <2>3. CASE ListenFirst(l)
    BY <1>t, <2>1, <2>3 DEF ListenFirst, StartSession, SInv, PendingIsCurrent
  <2>4. CASE ListenAgain(l)
    <3>1. \A k \in Calls : outcome'[k] = "pending" => k = session /\ outcome[k] = "pending" /\ shutdown[session] # "no"
      BY <1>t, <2>1, <2>4 DEF ListenAgain, Completed, SInv, PendingIsCurrent
    <3>2. \A k \in Calls : outcome'[k] # "pending"
      BY <1>t, <3>1 DEF SInv, IInv, SessionsInOrder, PendingIsCurrent
    <3> QED
      BY <3>2 DEF PendingIsCurrent
  <2> QED
    BY <2>1, <2>2, <2>3, <2>4
<1>3. ASSUME NEW l \in Calls, Resume(l) PROVE PendingIsCurrent'
  <2>1. closing[session] /\ session < l
    BY <1>3 DEF Resume, SInv, IInv, SessionsInOrder
  <2>2. ~closing[l]
    BY <1>t, <2>1 DEF SInv, IInv, SessionsInOrder
  <2> QED
    BY <1>t, <1>3, <2>1, <2>2 DEF Resume, StartSession, SInv, PendingIsCurrent
<1>4. ASSUME NEW s \in Sessions, GraceEnds(s) \/ DrainEnds(s) PROVE PendingIsCurrent'
  BY <1>4 DEF GraceEnds, DrainEnds, SInv, PendingIsCurrent
<1>5. CASE TimerFires
  BY <1>5 DEF TimerFires, app, SInv, PendingIsCurrent
<1>6. CASE UNCHANGED vars
  BY <1>6 DEF vars, app, SInv, PendingIsCurrent
<1> QED
  BY <1>1, <1>2, <1>3, <1>4, <1>5, <1>6, ConnStep, PendingKept DEF Next

-----------------------------------------------------------------------------
(* The refinement.                                                         *)

(* Every step of the server is one of the session, or one that its callers do not see. *)
LEMMA SessionNext == ASSUME SInv, IInv', [Next]_vars PROVE [Session!Next]_(Session!vars)
<1>1. CASE Close
  BY <1>1, CloseStep DEF Session!Next
<1>2. CASE Listen
  BY <1>2, ListenStep DEF Session!Next
<1>3. ASSUME NEW l \in Calls, Resume(l) PROVE Session!Next
  BY <1>3, ResumeStep DEF Session!Next, Calls, Session!Calls
<1>4. ASSUME NEW s \in Sessions, GraceEnds(s) \/ DrainEnds(s) PROVE [Session!Next]_(Session!vars)
  BY <1>4, ShutdownStep DEF Session!Next
<1>5. ASSUME Working \/ Unseen PROVE [Session!Next]_(Session!vars)
  BY <1>5, WorkStep, UnseenStep DEF Session!Next
<1>6. CASE TimerFires
  BY <1>5, <1>6 DEF TimerFires, app, Unseen
<1>7. CASE UNCHANGED vars
  BY <1>5, <1>7 DEF vars, app, client, Unseen
<1> QED
  BY <1>1, <1>2, <1>3, <1>4, <1>5, <1>6, <1>7, ConnStep DEF Next

(* The server of the constructor has no session. *)
LEMMA SessionInit == Init => Session!Init /\ AnswersAhead /\ PendingIsCurrent
  BY ConnsAssumption DEF Init, Session!Init, Session!Calls, Calls, Taking, AnswersAhead, PendingIsCurrent

(* ServerNats keeps what ServerSession promises: one session at a time with its connection
   and its messages, nothing left of it when the next begins, one answer for each listen(). *)
THEOREM OneSessionAtATime == ASSUME ~OverlappingListens PROVE Spec => OneSession
<1>1. IInv /\ AnswersAhead /\ PendingIsCurrent /\ [Next]_vars => AnswersAhead' /\ PendingIsCurrent'
  BY AnswerStep, PendingNext DEF SInv
<1>2. IInv /\ IInv' /\ AnswersAhead /\ PendingIsCurrent /\ [Next]_vars => [Session!Next]_(Session!vars)
  BY SessionNext DEF SInv
<1> QED
  BY Invariance, SessionInit, <1>1, <1>2, PTL DEF Spec, OneSession, Session!Spec
=============================================================================
