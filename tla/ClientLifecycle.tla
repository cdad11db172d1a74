-------------------------- MODULE ClientLifecycle --------------------------
(***************************************************************************)
(* The connection of one ClientNats: the calls that open it when they need *)
(* it, share one attempt and send over it, and close().  An action is what *)
(* the code does between two awaits; the connection is an object of        *)
(* nats.js, which loses it, redials and closes it for good.                *)
(***************************************************************************)
EXTENDS Integers, FiniteSets

CONSTANTS
    Calls,           \* requests and events that the application has in progress
    Conns,           \* connections that can exist at a time; a forgotten one is reused
    JetStream,       \* options.jetStream
    None             \* no connection

ASSUME ConnsAssumption == None \notin Conns
ASSUME FlagsAssumption == JetStream \in BOOLEAN

VARIABLES
    natsClient,      \* this.natsClient
    jetstreamClient, \* the connection of this.jetstreamClient
    attempt,         \* this.connectionPromise: the connection it opens
    closing,         \* this.closePromise: how far disconnect() is
    target,          \* the connection that disconnect() closes
    listeners,       \* the listeners of on(): "stale" once close() has been called
    conn,            \* nats.js: whether the connection is up, redialling or closed
    call,            \* where a call is
    via,             \* the connection that a call was sent over
    overlapped       \* history: a close() and an attempt to connect have overlapped

client == <<natsClient, jetstreamClient, attempt, closing, target, listeners>>
vars   == <<client, conn, call, via, overlapped>>

TypeOK ==
    /\ natsClient \in Conns \cup {None} /\ jetstreamClient \in Conns \cup {None}
    /\ attempt \subseteq Conns
    /\ closing \in {"no", "draining", "broken", "closed"}
    /\ target \in Conns \cup {None}
    /\ listeners \in {"none", "on", "stale"}
    /\ conn \in [Conns -> {"up", "down", "closed"}]
    /\ call \in [Calls -> {"idle", "connecting", "ready", "sent", "ok", "error"}]
    /\ via \in [Calls -> Conns \cup {None}]
    /\ \A r \in Calls : call[r] = "sent" <=> via[r] # None
    /\ overlapped \in BOOLEAN

Init ==
    /\ natsClient = None /\ jetstreamClient = None /\ attempt = {}
    /\ closing = "no" /\ target = None /\ listeners = "none"
    /\ conn = [c \in Conns |-> "closed"]
    /\ call = [r \in Calls |-> "idle"] /\ via = [r \in Calls |-> None]
    /\ overlapped = FALSE

-----------------------------------------------------------------------------
(* connect() and the calls.                                                *)

Connected == natsClient # None /\ conn[natsClient] # "closed"

\* A connection that nothing refers to any more
Free(c) ==
    /\ conn[c] = "closed" /\ c \notin attempt
    /\ c \notin {natsClient, target} /\ \A r \in Calls : via[r] # c

\* Mutant: every call makes an attempt of its own
OpenConnectionAgain ==
    /\ \E c \in Conns : Free(c) /\ attempt' = attempt \cup {c}
    /\ UNCHANGED overlapped

\* connectionPromise ??= openConnection(): the calls share one attempt
OpenConnection ==
    \/ attempt # {} /\ UNCHANGED <<attempt, overlapped>>
    \/ /\ attempt = {}
       /\ \E c \in Conns : Free(c) /\ attempt' = {c}
       /\ overlapped' = (overlapped \/ closing # "no")

\* request() or event(): it waits for the connection first
Call(r) ==
    /\ call[r] = "idle"
    /\ \/ /\ Connected
          /\ call' = [call EXCEPT ![r] = "ready"]
          /\ UNCHANGED <<attempt, overlapped>>
       \/ /\ ~Connected
          /\ call' = [call EXCEPT ![r] = "connecting"]
          /\ OpenConnection
    /\ UNCHANGED <<natsClient, jetstreamClient, closing, target, listeners, conn, via>>

\* Mutant: the calls are not told that the attempt has failed
SettleReady(state) ==
    call' = [r \in Calls |-> IF call[r] = "connecting" /\ state = "ready" THEN state ELSE call[r]]

\* The calls that wait for the attempt go on, or fail with it
Settle(state) ==
    call' = [r \in Calls |-> IF call[r] = "connecting" THEN state ELSE call[r]]

\* openConnection() after createClient()
Opened(c) ==
    /\ c \in attempt
    /\ attempt' = attempt \ {c}
    /\ conn' = [conn EXCEPT ![c] = "up"]
    /\ natsClient' = c
    /\ jetstreamClient' = IF JetStream THEN c ELSE jetstreamClient
    /\ Settle("ready")
    /\ UNCHANGED <<closing, target, listeners, via, overlapped>>

OpenFails(c) ==
    /\ c \in attempt
    /\ attempt' = attempt \ {c}
    /\ Settle("error")
    /\ UNCHANGED <<natsClient, jetstreamClient, closing, target, listeners, conn, via, overlapped>>

\* nats.js takes messages: neither closed nor draining
Takes(c) == conn[c] # "closed" /\ ~(closing = "draining" /\ c = target)

\* Mutant: the call does not look at natsClient again
PublishUnchecked(r) ==
    /\ call[r] = "ready"
    /\ call' = [call EXCEPT ![r] = "sent"]
    /\ via' = [via EXCEPT ![r] = IF JetStream THEN jetstreamClient ELSE natsClient]
    /\ UNCHANGED <<client, conn, overlapped>>

\* publish() or dispatchEvent(): they read natsClient again; an event goes through jetstreamClient
Publish(r) ==
    /\ call[r] = "ready"
    /\ \/ /\ natsClient # None /\ Takes(natsClient)
          /\ call' = [call EXCEPT ![r] = "sent"]
          /\ via' = [via EXCEPT ![r] = IF JetStream THEN jetstreamClient ELSE natsClient]
       \/ /\ ~(natsClient # None /\ Takes(natsClient))
          /\ call' = [call EXCEPT ![r] = "error"]
          /\ UNCHANGED via
    /\ UNCHANGED <<client, conn, overlapped>>

Finish(r, state) ==
    /\ call[r] = "sent"
    /\ call' = [call EXCEPT ![r] = state]
    /\ via' = [via EXCEPT ![r] = None]
    /\ UNCHANGED <<client, conn, overlapped>>

\* The reply, or the acknowledgement of the stream
Answered(r) == call[r] = "sent" /\ conn[via[r]] = "up" /\ Finish(r, "ok")

\* requestTimeout is over, or nats.js has closed the connection
TimesOut(r) == Finish(r, "error")

\* The application has its answer, and calls again
Again(r) ==
    /\ call[r] \in {"ok", "error"}
    /\ call' = [call EXCEPT ![r] = "idle"]
    /\ UNCHANGED <<client, conn, via, overlapped>>

-----------------------------------------------------------------------------
(* on() and close().                                                       *)

On ==
    /\ listeners = "none"
    /\ listeners' = "on"
    /\ UNCHANGED <<natsClient, jetstreamClient, attempt, closing, target, conn, call, via, overlapped>>

\* disconnect(), up to its await: without a connection there is nothing to do
Disconnect ==
    \/ /\ natsClient = None
       /\ UNCHANGED <<closing, target>>
    \/ /\ natsClient # None
       /\ target' = natsClient
       /\ closing' = IF conn[natsClient] = "closed" THEN "closed" ELSE "draining"

\* close(): called again while the close runs, it waits for the same close
Close ==
    /\ \/ closing = "no" /\ Disconnect
       \/ closing # "no" /\ UNCHANGED <<closing, target>>
    /\ listeners' = IF listeners = "on" THEN "stale" ELSE listeners
    /\ overlapped' = (overlapped \/ attempt # {})
    /\ UNCHANGED <<natsClient, jetstreamClient, attempt, conn, call, via>>

\* Mutants: a connection whose drain fails stays open; the close waits for the drain only
DrainEndsOpen ==
    /\ closing = "broken" \/ (closing = "draining" /\ conn[target] # "down")
    /\ conn' = IF closing = "broken" THEN conn ELSE [conn EXCEPT ![target] = "closed"]
    /\ closing' = "closed"
    /\ UNCHANGED <<natsClient, jetstreamClient, attempt, target, listeners, call, via, overlapped>>

DrainEndsAnswered ==
    /\ closing = "draining" /\ conn[target] = "up"
    /\ conn' = [conn EXCEPT ![target] = "closed"]
    /\ closing' = "closed"
    /\ UNCHANGED <<natsClient, jetstreamClient, attempt, target, listeners, call, via, overlapped>>

\* closeConnection(): the drain has ended or failed, or nats.js has closed the connection
DrainEnds ==
    /\ closing = "broken" \/ (closing = "draining" /\ conn[target] # "down")
    /\ conn' = [conn EXCEPT ![target] = "closed"]
    /\ closing' = "closed"
    /\ UNCHANGED <<natsClient, jetstreamClient, attempt, target, listeners, call, via, overlapped>>

\* The rest of disconnect(), once the transport is closed
Disconnected ==
    /\ closing = "closed"
    /\ closing' = "no" /\ target' = None
    /\ natsClient' = None /\ jetstreamClient' = None
    /\ listeners' = "none"
    /\ UNCHANGED <<attempt, conn, call, via, overlapped>>

-----------------------------------------------------------------------------
(* nats.js and NATS.                                                       *)

\* A drain in progress fails with the connection
Lose(c) ==
    /\ conn[c] = "up"
    /\ conn' = [conn EXCEPT ![c] = "down"]
    /\ closing' = IF closing = "draining" /\ c = target THEN "broken" ELSE closing
    /\ UNCHANGED <<natsClient, jetstreamClient, attempt, target, listeners, call, via, overlapped>>

Back(c) ==
    /\ conn[c] = "down"
    /\ conn' = [conn EXCEPT ![c] = "up"]
    /\ UNCHANGED <<client, call, via, overlapped>>

CloseForGood(c) ==
    /\ conn[c] = "down"
    /\ conn' = [conn EXCEPT ![c] = "closed"]
    /\ UNCHANGED <<client, call, via, overlapped>>

-----------------------------------------------------------------------------
Next ==
    \/ \E r \in Calls : Call(r) \/ Publish(r) \/ Answered(r) \/ TimesOut(r) \/ Again(r)
    \/ On \/ Close \/ DrainEnds \/ Disconnected
    \/ \E c \in Conns : Opened(c) \/ OpenFails(c) \/ Lose(c) \/ Back(c) \/ CloseForGood(c)

Spec == Init /\ [][Next]_vars

\* Promises settle and requests time out; NATS comes back, or nats.js gives the connection up
Fairness ==
    /\ \A r \in Calls : WF_vars(Publish(r)) /\ WF_vars(Answered(r) \/ TimesOut(r))
    /\ WF_vars(DrainEnds) /\ WF_vars(Disconnected)
    /\ \A c \in Conns : WF_vars(Opened(c) \/ OpenFails(c)) /\ SF_vars(Back(c) \/ CloseForGood(c))

LiveSpec == Spec /\ Fairness

-----------------------------------------------------------------------------
(* Safety.                                                                 *)

(* The calls share one attempt to connect, and a client that has a connection
   makes none, unless close() has come in between. *)
OneAttempt == ~overlapped => Cardinality(attempt) <= 1 /\ (Connected => attempt = {})

(* README, ClientNats: close() drains and closes the connection.  No connection is
   leaked: the one that is open is the one that close() closes. *)
OneOpenConnection == \A c \in Conns : conn[c] # "closed" => natsClient = c

(* That holds as long as no attempt to connect overlaps with close(). *)
NoLeakWithoutOverlap == ~overlapped => OneOpenConnection

-----------------------------------------------------------------------------
(* Liveness.                                                               *)

(* Every call gets its answer or an error. *)
CallsEnd == \A r \in Calls : call[r] \in {"connecting", "ready", "sent"} ~> call[r] \in {"ok", "error"}

(* close() completes, once NATS answers or nats.js gives up. *)
CloseCompletes == closing # "no" ~> closing = "no"
=============================================================================
