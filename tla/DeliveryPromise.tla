-------------------------- MODULE DeliveryPromise --------------------------
(***************************************************************************)
(* What a JetStream consumer promises NATS, whatever its loops go through: *)
(* a delivery is processed at most once, and a message is settled after    *)
(* one of its deliveries is over, by an ack when a handler has completed   *)
(* it; or, when a handler answers it with a stream, from the first value   *)
(* on.  There are no loops here: a delivery waits in the server, is then   *)
(* either lost or processed, and does not come back.                       *)
(***************************************************************************)
EXTENDS Integers

CONSTANTS Messages, MaxDeliver

VARIABLES
    stored,      \* NATS: the state of a message for the consumer
    count,       \* NATS: its delivery count
    waiting,     \* deliveries that the server has, and has not begun to process
    processing,  \* deliveries that a handler processes
    handled,     \* messages that a handler has completed
    streamed     \* messages that a handler has given a value of, and gone on

Init ==
    /\ stored = [m \in Messages |-> "ready"]
    /\ count = [m \in Messages |-> 0]
    /\ waiting = {} /\ processing = {} /\ handled = {} /\ streamed = {}

\* The n-th delivery of the message is made, and is neither waiting nor processed any more
IsOver(m, n) == n \in 1 .. count[m] /\ [msg |-> m, n |-> n] \notin waiting \cup processing

Deliver(m) ==
    /\ stored[m] = "ready" /\ count[m] < MaxDeliver
    /\ stored' = [stored EXCEPT ![m] = "out"]
    /\ count' = [count EXCEPT ![m] = @ + 1]
    /\ waiting' = waiting \cup {[msg |-> m, n |-> count[m] + 1]}
    /\ UNCHANGED <<processing, handled, streamed>>

Start(d) ==
    /\ d \in waiting
    /\ waiting' = waiting \ {d} /\ processing' = processing \cup {d}
    /\ UNCHANGED <<stored, count, handled, streamed>>

\* Deliveries that the server gives up, with a connection or a loop
Lose ==
    /\ waiting' \in SUBSET waiting
    /\ UNCHANGED <<stored, count, processing, handled, streamed>>

Finish(d) ==
    /\ d \in processing
    /\ processing' = processing \ {d}
    /\ handled' \in {handled, handled \cup {d.msg}}
    /\ UNCHANGED <<stored, count, waiting, streamed>>

\* A value of a stream that is not complete
Value(d) ==
    /\ d \in processing
    /\ streamed' = streamed \cup {d.msg}
    /\ UNCHANGED <<stored, count, waiting, processing, handled>>

\* ack_wait ends, or a nak arrives
Return(m) ==
    /\ stored[m] = "out"
    /\ stored' = [stored EXCEPT ![m] = "ready"]
    /\ UNCHANGED <<count, waiting, processing, handled, streamed>>

Settle(m) ==
    /\ stored[m] \in {"ready", "out"}
    /\ m \in streamed \/ \E n \in 1 .. MaxDeliver : IsOver(m, n)
    /\ \/ m \in handled \cup streamed /\ stored' = [stored EXCEPT ![m] = "acked"]
       \/ stored' = [stored EXCEPT ![m] = "termed"]
    /\ UNCHANGED <<count, waiting, processing, handled, streamed>>

Next ==
    \/ \E m \in Messages : Deliver(m) \/ Return(m) \/ Settle(m)
    \/ \E d \in waiting : Start(d)
    \/ \E d \in processing : Finish(d) \/ Value(d)
    \/ Lose

Spec == Init /\ [][Next]_<<stored, count, waiting, processing, handled, streamed>>
=============================================================================
