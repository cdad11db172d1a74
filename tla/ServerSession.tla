--------------------------- MODULE ServerSession ---------------------------
(***************************************************************************)
(* What ServerNats promises of listen() and close(), without attempts,     *)
(* timers, setups and phases of a close: one session at a time, at most    *)
(* one connection, which is that of the session, messages taken only       *)
(* between the start and the stop of the session, and one answer for each  *)
(* listen().  ServerLifecycle implements this.                             *)
(***************************************************************************)
EXTENDS Naturals

CONSTANT MaxListens \* bound: how many times the application calls listen()

Sessions == 0 .. MaxListens
Calls    == 1 .. MaxListens

VARIABLES
    session,   \* the session in use, by the listen() that has made it; 0 before the first
    stopped,   \* sessions that close() or another listen() has stopped
    answer,    \* of each listen(): none, waiting for a close, pending, or its outcome
    connected, \* the session has a connection
    taking     \* the session takes messages

vars == <<session, stopped, answer, connected, taking>>

Init ==
    /\ session = 0 /\ stopped = {}
    /\ answer = [l \in Calls |-> "none"]
    /\ connected = FALSE /\ taking = FALSE

\* The session is stopped: a listen() that is pending is told
Stop ==
    /\ stopped' = stopped \cup {session}
    /\ UNCHANGED <<session, connected, taking>>

Told == [l \in Calls |-> IF l = session /\ answer[l] = "pending" THEN "closed" ELSE answer[l]]

Close == Stop /\ answer' = Told

\* The first listen(), and a listen() after a close() that came before any
ListenFirst(l) ==
    /\ session = 0 /\ answer[l] = "none"
    /\ \/ /\ session \notin stopped
          /\ session' = l /\ answer' = [answer EXCEPT ![l] = "pending"]
       \/ /\ session \in stopped
          /\ answer' = [answer EXCEPT ![l] = "closed"] /\ UNCHANGED session
    /\ UNCHANGED <<stopped, connected, taking>>

\* Another listen() stops the session and begins once nothing of it is left
ListenAgain(l) ==
    /\ session # 0 /\ answer[l] = "none"
    /\ Stop
    /\ answer' = [Told EXCEPT ![l] = "waiting"]

Resume(l) ==
    /\ answer[l] = "waiting" /\ session \in stopped /\ ~connected
    /\ session' = l
    /\ answer' = [answer EXCEPT ![l] = "pending"]
    /\ UNCHANGED <<stopped, connected, taking>>

\* The session connects, takes messages and answers its listen(), or answers that it cannot
Work ==
    /\ session # 0 /\ session \notin stopped
    /\ connected' \in BOOLEAN
    /\ taking' \in BOOLEAN /\ (taking' => connected')
    /\ \/ UNCHANGED answer
       \/ /\ answer[session] = "pending"
          /\ \/ answer' = [answer EXCEPT ![session] = "error"]
             \/ taking' /\ answer' = [answer EXCEPT ![session] = "ok"]
    /\ UNCHANGED <<session, stopped>>

\* The rest of a close
Disconnect ==
    /\ session \in stopped /\ connected
    /\ connected' = FALSE /\ taking' = FALSE
    /\ UNCHANGED <<session, stopped, answer>>

Next ==
    \/ Close \/ Work \/ Disconnect
    \/ \E l \in Calls : ListenFirst(l) \/ ListenAgain(l) \/ Resume(l)

Spec == Init /\ [][Next]_vars
=============================================================================
