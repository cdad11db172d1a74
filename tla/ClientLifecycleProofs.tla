----------------------- MODULE ClientLifecycleProofs -----------------------
(***************************************************************************)
(* The safety of the client's connection, for any number of calls and      *)
(* connections, with and without JetStream.                                *)
(***************************************************************************)
EXTENDS ClientLifecycle, FiniteSetTheorems, TLAPS

(* The client of JetStream is the one of the connection in use: openConnection()
   makes both and disconnect() forgets both. *)
JetStreamFollows == JetStream => jetstreamClient = natsClient

(* A close that runs has the connection that it closes. *)
CloseHasTarget == closing # "no" => target # None

(* Until an attempt and a close() overlap: the attempt is the only one, it is made
   only without a connection, and while the close runs there is none. *)
AttemptIsAlone ==
    /\ \A c, d \in attempt : c = d
    /\ Connected => attempt = {}
    /\ closing # "no" => attempt = {}

(* Until then a close closes the connection in use, and forgets it when it is closed. *)
CloseIsCurrent ==
    /\ closing # "no" => target = natsClient
    /\ closing = "closed" => conn[target] = "closed"

(* What the steps of the client keep. *)
IInv ==
    /\ TypeOK /\ JetStreamFollows /\ CloseHasTarget
    /\ ~overlapped => AttemptIsAlone /\ CloseIsCurrent /\ OneOpenConnection

-----------------------------------------------------------------------------
(* The operators of the calls.                                             *)

(* What is left of `call` when an attempt settles: the waiting calls are in the given
   state, the others and their connections are as they were. *)
LEMMA SettleTypes ==
    ASSUME TypeOK, NEW state \in {"ready", "error"}, Settle(state), UNCHANGED via
    PROVE  /\ call' \in [Calls -> {"idle", "connecting", "ready", "sent", "ok", "error"}]
           /\ \A r \in Calls : call'[r] = "sent" <=> via'[r] # None
  BY DEF TypeOK, Settle

(* A call changes its own state only, and is over a connection while it is sent. *)
LEMMA CallTypes ==
    ASSUME TypeOK, NEW r \in Calls,
           NEW state \in {"idle", "connecting", "ready", "sent", "ok", "error"}, NEW c \in Conns \cup {None},
           call' = [call EXCEPT ![r] = state], via' = [via EXCEPT ![r] = c],
           state = "sent" <=> c # None
    PROVE  /\ call' \in [Calls -> {"idle", "connecting", "ready", "sent", "ok", "error"}]
           /\ via' \in [Calls -> Conns \cup {None}]
           /\ \A q \in Calls : call'[q] = "sent" <=> via'[q] # None
  BY DEF TypeOK

(* The connection of a call that is not sent is none already. *)
LEMMA ViaKept ==
    ASSUME TypeOK, NEW r \in Calls, call[r] # "sent"
    PROVE  via = [via EXCEPT ![r] = None]
<1>1. via = [q \in Calls |-> via[q]] /\ via[r] = None
  BY DEF TypeOK
<1> QED
  BY <1>1

-----------------------------------------------------------------------------
(* Every operation keeps the invariant.                                    *)

(* A call that has or opens a connection. *)
LEMMA CallStep == ASSUME IInv, NEW r \in Calls, Call(r) PROVE IInv'
<1>1. TypeOK'
  <2>1. \E state \in {"connecting", "ready"} : call' = [call EXCEPT ![r] = state]
    BY DEF Call
  <2>2. via' = [via EXCEPT ![r] = None]
    BY ViaKept DEF IInv, Call
  <2>3. call' \in [Calls -> {"idle", "connecting", "ready", "sent", "ok", "error"}]
        /\ via' \in [Calls -> Conns \cup {None}] /\ \A q \in Calls : call'[q] = "sent" <=> via'[q] # None
    BY <2>1, <2>2, CallTypes DEF IInv
  <2> QED
    BY <2>3 DEF IInv, TypeOK, Call, OpenConnection
<1>2. JetStreamFollows' /\ CloseHasTarget'
  BY DEF IInv, Call, JetStreamFollows, CloseHasTarget
<1>3. ASSUME ~overlapped' PROVE AttemptIsAlone' /\ CloseIsCurrent' /\ OneOpenConnection'
  <2>1. ~overlapped
    BY <1>3 DEF IInv, TypeOK, Call, OpenConnection
  <2>2. CloseIsCurrent' /\ OneOpenConnection'
    BY <2>1 DEF IInv, Call, CloseIsCurrent, OneOpenConnection
  <2>3. AttemptIsAlone'
    BY <1>3, <2>1 DEF IInv, TypeOK, Call, OpenConnection, AttemptIsAlone, Connected
  <2> QED
    BY <2>2, <2>3
<1> QED
  BY <1>1, <1>2, <1>3 DEF IInv

(* A call that is sent, or finds no connection to be sent over. *)
LEMMA PublishStep == ASSUME IInv, NEW r \in Calls, Publish(r) PROVE IInv'
<1>1. TypeOK'
  <2>1. CASE natsClient # None /\ Takes(natsClient)
    <3>1. (IF JetStream THEN jetstreamClient ELSE natsClient) \in Conns
      BY <2>1 DEF IInv, TypeOK, JetStreamFollows
    <3> QED
      BY <2>1, <3>1, CallTypes, ConnsAssumption DEF IInv, TypeOK, Publish, client
  <2>2. CASE ~(natsClient # None /\ Takes(natsClient))
    <3>1. via' = [via EXCEPT ![r] = None] /\ call' = [call EXCEPT ![r] = "error"]
      BY <2>2, ViaKept DEF IInv, Publish
    <3>2. call' \in [Calls -> {"idle", "connecting", "ready", "sent", "ok", "error"}]
          /\ via' \in [Calls -> Conns \cup {None}] /\ \A q \in Calls : call'[q] = "sent" <=> via'[q] # None
      BY <3>1, CallTypes DEF IInv
    <3> QED
      BY <3>2 DEF IInv, TypeOK, Publish, client
  <2> QED
    BY <2>1, <2>2
<1> QED
  BY <1>1 DEF IInv, Publish, client, JetStreamFollows, CloseHasTarget, AttemptIsAlone, CloseIsCurrent,
     OneOpenConnection, Connected

(* A call that ends. *)
LEMMA FinishStep ==
    ASSUME IInv, NEW r \in Calls, NEW state \in {"ok", "error"}, Finish(r, state)
    PROVE  IInv'
<1>1. TypeOK'
  BY CallTypes DEF IInv, TypeOK, Finish, client
<1> QED
  BY <1>1 DEF IInv, Finish, client, JetStreamFollows, CloseHasTarget, AttemptIsAlone, CloseIsCurrent,
     OneOpenConnection, Connected

(* A call that the application makes again. *)
LEMMA AgainStep == ASSUME IInv, NEW r \in Calls, Again(r) PROVE IInv'
<1>1. TypeOK'
  <2>1. via' = [via EXCEPT ![r] = None] /\ call' = [call EXCEPT ![r] = "idle"]
    BY ViaKept DEF IInv, Again
  <2>2. call' \in [Calls -> {"idle", "connecting", "ready", "sent", "ok", "error"}]
        /\ via' \in [Calls -> Conns \cup {None}] /\ \A q \in Calls : call'[q] = "sent" <=> via'[q] # None
    BY <2>1, CallTypes DEF IInv
  <2> QED
    BY <2>2 DEF IInv, TypeOK, Again, client
<1> QED
  BY <1>1 DEF IInv, Again, client, JetStreamFollows, CloseHasTarget, AttemptIsAlone, CloseIsCurrent,
     OneOpenConnection, Connected

(* The attempt succeeds: it overwrites no connection that is open. *)
LEMMA OpenedStep == ASSUME IInv, NEW c \in Conns, Opened(c) PROVE IInv'
<1>1. TypeOK'
  BY SettleTypes DEF IInv, TypeOK, Opened
<1>2. JetStreamFollows' /\ CloseHasTarget'
  BY DEF IInv, Opened, JetStreamFollows, CloseHasTarget
<1>3. ASSUME ~overlapped' PROVE AttemptIsAlone' /\ CloseIsCurrent' /\ OneOpenConnection'
  <2>1. ~overlapped /\ closing = "no" /\ attempt' = {} /\ ~Connected
    BY <1>3 DEF IInv, Opened, AttemptIsAlone
  <2>2. \A d \in Conns : d # c => conn'[d] = "closed"
    BY <2>1, ConnsAssumption DEF IInv, TypeOK, Opened, OneOpenConnection, Connected
  <2> QED
    BY <2>1, <2>2 DEF Opened, AttemptIsAlone, CloseIsCurrent, OneOpenConnection
<1> QED
  BY <1>1, <1>2, <1>3 DEF IInv

(* The attempt fails. *)
LEMMA OpenFailsStep == ASSUME IInv, NEW c \in Conns, OpenFails(c) PROVE IInv'
<1>1. TypeOK'
  BY SettleTypes DEF IInv, TypeOK, OpenFails
<1> QED
  BY <1>1 DEF IInv, OpenFails, JetStreamFollows, CloseHasTarget, AttemptIsAlone, CloseIsCurrent,
     OneOpenConnection, Connected

(* close(), up to its await. *)
LEMMA CloseStep == ASSUME IInv, Close PROVE IInv'
<1>1. TypeOK' /\ CloseHasTarget' /\ JetStreamFollows'
  BY DEF IInv, TypeOK, Close, Disconnect, JetStreamFollows, CloseHasTarget
<1>2. ASSUME ~overlapped' PROVE AttemptIsAlone' /\ CloseIsCurrent' /\ OneOpenConnection'
  BY <1>2 DEF IInv, Close, Disconnect, AttemptIsAlone, CloseIsCurrent, OneOpenConnection, Connected
<1> QED
  BY <1>1, <1>2 DEF IInv

(* The drain ends, and with it the connection that close() has taken. *)
LEMMA DrainEndsStep == ASSUME IInv, DrainEnds PROVE IInv'
<1>1. TypeOK'
  BY DEF IInv, TypeOK, DrainEnds
<1>2. target \in Conns
  BY DEF IInv, TypeOK, DrainEnds, CloseHasTarget
<1>3. CloseHasTarget' /\ JetStreamFollows'
  BY DEF IInv, DrainEnds, JetStreamFollows, CloseHasTarget
<1>4. ASSUME ~overlapped' PROVE AttemptIsAlone' /\ CloseIsCurrent' /\ OneOpenConnection'
  <2>1. conn'[target] = "closed" /\ \A c \in Conns : conn'[c] # "closed" => conn[c] # "closed"
    BY <1>2 DEF IInv, TypeOK, DrainEnds
  <2> QED
    BY <1>4, <2>1 DEF IInv, DrainEnds, AttemptIsAlone, CloseIsCurrent, OneOpenConnection, Connected
<1> QED
  BY <1>1, <1>3, <1>4 DEF IInv

(* disconnect() forgets the connection in use, which is closed. *)
LEMMA DisconnectedStep == ASSUME IInv, Disconnected PROVE IInv'
<1>1. TypeOK' /\ CloseHasTarget' /\ JetStreamFollows'
  BY DEF IInv, TypeOK, Disconnected, JetStreamFollows, CloseHasTarget
<1>2. ASSUME ~overlapped' PROVE AttemptIsAlone' /\ CloseIsCurrent' /\ OneOpenConnection'
  BY <1>2 DEF IInv, Disconnected, AttemptIsAlone, CloseIsCurrent, OneOpenConnection, Connected
<1> QED
  BY <1>1, <1>2 DEF IInv

(* on(). *)
LEMMA OnStep == ASSUME IInv, On PROVE IInv'
<1>1. TypeOK'
  BY DEF IInv, TypeOK, On
<1> QED
  BY <1>1 DEF IInv, On, JetStreamFollows, CloseHasTarget, AttemptIsAlone, CloseIsCurrent,
     OneOpenConnection, Connected

(* nats.js loses the connection, has it back or gives it up: none is opened. *)
LEMMA ConnStep ==
    ASSUME IInv, NEW c \in Conns, Lose(c) \/ Back(c) \/ CloseForGood(c)
    PROVE  IInv'
<1>1. TypeOK'
  BY DEF IInv, TypeOK, Lose, Back, CloseForGood, client
<1>2. CloseHasTarget' /\ JetStreamFollows'
  BY DEF IInv, Lose, Back, CloseForGood, client, JetStreamFollows, CloseHasTarget
<1>3. ASSUME ~overlapped' PROVE AttemptIsAlone' /\ CloseIsCurrent' /\ OneOpenConnection'
  <2>1. \A d \in Conns : conn'[d] # "closed" => conn[d] # "closed"
    BY DEF IInv, TypeOK, Lose, Back, CloseForGood
  <2>2. /\ ~overlapped /\ UNCHANGED <<natsClient, target, attempt>>
        /\ closing' # "no" => closing # "no"
        /\ closing' = "closed" => closing = "closed"
    BY <1>3 DEF Lose, Back, CloseForGood, client
  <2>3. AttemptIsAlone' /\ OneOpenConnection'
    BY <2>1, <2>2 DEF IInv, TypeOK, AttemptIsAlone, OneOpenConnection, Connected
  <2>4. CloseIsCurrent'
    BY <2>1, <2>2 DEF IInv, TypeOK, CloseHasTarget, CloseIsCurrent
  <2> QED
    BY <2>3, <2>4
<1> QED
  BY <1>1, <1>2, <1>3 DEF IInv

-----------------------------------------------------------------------------
(* The theorems.                                                           *)

(* The client of the constructor has neither a connection nor an attempt. *)
LEMMA InitInv == Init => IInv
  BY ConnsAssumption DEF Init, IInv, TypeOK, JetStreamFollows, CloseHasTarget, AttemptIsAlone, CloseIsCurrent,
     OneOpenConnection, Connected

(* Every step of the client keeps the invariant. *)
LEMMA StepInv == IInv /\ [Next]_vars => IInv'
<1> SUFFICES ASSUME IInv, [Next]_vars PROVE IInv'
  OBVIOUS
<1>1. ASSUME NEW r \in Calls, Answered(r) \/ TimesOut(r) PROVE IInv'
  BY <1>1, FinishStep DEF Answered, TimesOut
<1>2. CASE UNCHANGED vars
  BY <1>2 DEF vars, client, IInv, TypeOK, JetStreamFollows, CloseHasTarget, AttemptIsAlone, CloseIsCurrent,
     OneOpenConnection, Connected
<1> QED
  BY <1>1, <1>2, CallStep, PublishStep, AgainStep, OpenedStep, OpenFailsStep, CloseStep, DrainEndsStep,
     DisconnectedStep, OnStep, ConnStep DEF Next

(* The inductive invariant of the client. *)
THEOREM Invariance == Spec => []IInv
  BY InitInv, StepInv, PTL DEF Spec

(* The types of the client's state: a call is sent exactly while it is over a connection. *)
THEOREM TypeCorrect == Spec => []TypeOK
<1>1. IInv => TypeOK
  BY DEF IInv
<1> QED
  BY Invariance, <1>1, PTL

(* The calls share one attempt to connect, which none makes beside a connection, until
   close() comes in between. *)
THEOREM OneAttemptAtATime == Spec => []OneAttempt
<1>1. IInv => OneAttempt
  <2> SUFFICES ASSUME IInv, ~overlapped PROVE Cardinality(attempt) <= 1 /\ (Connected => attempt = {})
    BY DEF OneAttempt
  <2>1. attempt = {} \/ \E c \in attempt : attempt = {c}
    BY DEF IInv, AttemptIsAlone
  <2>2. Cardinality(attempt) \in {0, 1}
    BY <2>1, FS_EmptySet, FS_Singleton
  <2> QED
    BY <2>2 DEF IInv, AttemptIsAlone
<1> QED
  BY Invariance, <1>1, PTL

(* The client leaks no connection until an attempt and a close() overlap: one that is
   open is the one that close() will close. *)
THEOREM NoLeak == Spec => []NoLeakWithoutOverlap
<1>1. IInv => NoLeakWithoutOverlap
  BY DEF IInv, NoLeakWithoutOverlap
<1> QED
  BY Invariance, <1>1, PTL
=============================================================================
