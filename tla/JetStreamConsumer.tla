------------------------- MODULE JetStreamConsumer -------------------------
(***************************************************************************)
(* The consumer of one JetStream handler: the loops of runSubscription(),  *)
(* the mutex that limits the handlers of a loop, the deliveries and the    *)
(* acknowledgements of the stored messages, the restart of a failed loop,  *)
(* close() and the reconnect after the connection was closed for good.     *)
(*                                                                         *)
(* Every call of runSubscription() is a loop of its own, with a mutex of   *)
(* its own: the handlers of a loop that has ended still unlock the mutex   *)
(* of that loop.  What the handler does with a message is in the module    *)
(* MessageProcessing; here it makes packets, as a handler that returns a   *)
(* stream does, and each of them acknowledges and gives a slot back.       *)
(***************************************************************************)
EXTENDS Integers, Sequences, FiniteSets

CONSTANTS
    Messages,    \* the messages the stream has for the consumer
    Loops,       \* calls of runSubscription() that exist at a time; an ended one is reused
    MaxHandlers, \* eventOptions.max_handlers
    MaxMessages, \* eventOptions.max_messages, or 0 when it is not set
    MaxDeliver,  \* max_deliver of the consumer
    MaxValues,   \* a bound for each delivery: the packets of its handler before the last one
    None         \* no iterator

ASSUME LoopsAssumption  == None \notin Loops
ASSUME LimitsAssumption ==
    MaxHandlers \in Nat \ {0} /\ MaxMessages \in Nat /\ MaxDeliver \in Nat \ {0}

Deliveries == [msg : Messages, n : 1 .. MaxDeliver]

ASSUME ValuesAssumption == MaxValues \in [Deliveries -> Nat]

VARIABLES
    loop,     \* where a call of runSubscription() is
    alive,    \* the connection that its consumer is bound to is open
    closes,   \* its session.closing
    open,     \* its iterator takes messages
    failed,   \* its iterator ends with an error
    buffer,   \* the deliveries in the iterator that the loop has not taken
    current,  \* mutex.current
    taken,    \* the delivery for which the loop has called mutex.lock()
    iter,     \* consumerMessages.get(channel): the loop whose iterator close() stops
    jetstream,\* this.jetstreamClient is there
    up,       \* the connection of jetstreamClient is open
    closing,  \* this.session.closing
    busy,     \* the deliveries in processing, each with its loop
    values,   \* the packets that the handler of a delivery has made before its last one
    stored,   \* NATS: the state of a message for the consumer
    count,    \* NATS: its delivery count
    sent,     \* acknowledgements on their way to NATS
    handled,  \* history: the messages that a handler has completed
    early     \* history: the slots of a loop that such packets have given back

loops  == <<loop, alive, closes, open, failed, buffer, current, taken>>
server == <<iter, jetstream, up, closing>>
nats   == <<stored, count, sent>>
stream == <<values, early>>
vars   == <<loops, server, busy, nats, handled, stream>>

Kinds == {"ack", "nak", "term"}

TypeOK ==
    /\ loop \in [Loops -> {"ended", "consuming", "iterating", "waiting", "granted", "paused"}]
    /\ alive \in [Loops -> BOOLEAN] /\ closes \in [Loops -> BOOLEAN]
    /\ open \in [Loops -> BOOLEAN] /\ failed \in [Loops -> BOOLEAN]
    /\ buffer \in [Loops -> Seq(Deliveries)]
    /\ current \in [Loops -> Int]
    /\ taken \in [Loops -> Deliveries \cup {<<>>}]
    /\ iter \in Loops \cup {None}
    /\ jetstream \in BOOLEAN /\ up \in BOOLEAN /\ closing \in BOOLEAN
    /\ busy \subseteq [delivery : Deliveries, loop : Loops]
    /\ stored \in [Messages -> {"ready", "out", "acked", "termed"}]
    /\ count \in [Messages -> 0 .. MaxDeliver]
    /\ sent \subseteq [msg : Messages, kind : Kinds]
    /\ handled \subseteq Messages
    /\ values \in [Deliveries -> Nat]
    /\ early \in [Loops -> Nat]

Init ==
    /\ loop = [g \in Loops |-> "ended"]
    /\ alive = [g \in Loops |-> FALSE] /\ closes = [g \in Loops |-> FALSE]
    /\ open = [g \in Loops |-> FALSE] /\ failed = [g \in Loops |-> FALSE]
    /\ buffer = [g \in Loops |-> <<>>]
    /\ current = [g \in Loops |-> 0]
    /\ taken = [g \in Loops |-> <<>>]
    /\ iter = None /\ jetstream = FALSE /\ up = FALSE /\ closing = FALSE
    /\ busy = {}
    /\ stored = [m \in Messages |-> "ready"]
    /\ count = [m \in Messages |-> 0]
    /\ sent = {} /\ handled = {}
    /\ values = [d \in Deliveries |-> 0]
    /\ early = [g \in Loops |-> 0]

-----------------------------------------------------------------------------
(* runSubscription().                                                      *)

\* The messages that consume() lets the iterator buffer
Limit == IF MaxMessages # 0 THEN MaxMessages ELSE MaxHandlers

Busy(g) == {b \in busy : b.loop = g}
Free(g) == loop[g] = "ended" /\ Busy(g) = {}

\* A call of runSubscription(), in the slot g, up to the await of consume()
StartLoop(g, isAlive, isClosing) ==
    /\ Free(g)
    /\ loop' = [loop EXCEPT ![g] = "consuming"]
    /\ alive' = [alive EXCEPT ![g] = isAlive]
    /\ closes' = [closes EXCEPT ![g] = isClosing]
    /\ current' = [current EXCEPT ![g] = 0]
    /\ early' = [early EXCEPT ![g] = 0]
    /\ UNCHANGED <<open, failed, buffer, taken>>

\* bindJetStreamEvents(), of the first listen(), of a reconnect or of a listen() after close()
Bind(g) ==
    /\ ~jetstream
    /\ StartLoop(g, TRUE, FALSE)
    /\ jetstream' = TRUE /\ up' = TRUE /\ closing' = FALSE
    /\ UNCHANGED <<iter, busy, nats, handled, values>>

ConsumeOk(g) ==
    /\ loop[g] = "consuming" /\ alive[g]
    /\ loop' = [loop EXCEPT ![g] = "iterating"]
    /\ open' = [open EXCEPT ![g] = TRUE]
    /\ iter' = g
    /\ UNCHANGED <<alive, closes, failed, buffer, current, taken, jetstream, up, closing, busy, nats, handled, stream>>

\* The loop ends at once when the connection is closed, and pauses after another error
ConsumeFails(g) ==
    /\ loop[g] = "consuming"
    /\ loop' = [loop EXCEPT ![g] = IF alive[g] THEN "paused" ELSE "ended"]
    /\ UNCHANGED <<alive, closes, open, failed, buffer, current, taken, server, busy, nats, handled, stream>>

\* Mutant: the mutex has the limit of the buffer
TakeNextBuffered(g) ==
    /\ loop[g] = "iterating" /\ buffer[g] # <<>>
    /\ taken' = [taken EXCEPT ![g] = Head(buffer[g])]
    /\ buffer' = [buffer EXCEPT ![g] = Tail(@)]
    /\ current' = [current EXCEPT ![g] = @ + 1]
    /\ loop' = [loop EXCEPT ![g] = IF current[g] + 1 <= Limit THEN "granted" ELSE "waiting"]
    /\ UNCHANGED <<alive, closes, open, failed, server, busy, nats, handled, stream>>

\* for await ... mutex.lock(): the loop waits when the handlers have all the slots
TakeNext(g) ==
    /\ loop[g] = "iterating" /\ buffer[g] # <<>>
    /\ taken' = [taken EXCEPT ![g] = Head(buffer[g])]
    /\ buffer' = [buffer EXCEPT ![g] = Tail(@)]
    /\ current' = [current EXCEPT ![g] = @ + 1]
    /\ loop' = [loop EXCEPT ![g] = IF current[g] + 1 <= MaxHandlers THEN "granted" ELSE "waiting"]
    /\ UNCHANGED <<alive, closes, open, failed, server, busy, nats, handled, stream>>

\* mutex.unlock() of the loop g, for a loop that will be in the state l
Unlock(g, l) ==
    /\ current' = [current EXCEPT ![g] = @ - 1]
    /\ loop' = [loop EXCEPT ![g] = IF l = "waiting" THEN "granted" ELSE l]

\* The loop returns: it gives its slot and its buffer up with the mutex and the iterator
EndsByClose(g) ==
    /\ closes[g]
    /\ loop' = [loop EXCEPT ![g] = "ended"]
    /\ buffer' = [buffer EXCEPT ![g] = <<>>]
    /\ open' = [open EXCEPT ![g] = FALSE]
    /\ failed' = [failed EXCEPT ![g] = FALSE]
    /\ UNCHANGED <<current, busy>>

\* Mutant: the loop does not look at `closing` after mutex.lock()
StartsHandlerUnchecked(g) ==
    /\ alive[g]
    /\ busy' = busy \cup {[delivery |-> taken[g], loop |-> g]}
    /\ loop' = [loop EXCEPT ![g] = "iterating"]
    /\ UNCHANGED <<current, buffer, open, failed>>

\* track(): the message is in processing, the loop goes on with the next one
StartsHandler(g) ==
    /\ ~closes[g] /\ alive[g]
    /\ busy' = busy \cup {[delivery |-> taken[g], loop |-> g]}
    /\ loop' = [loop EXCEPT ![g] = "iterating"]
    /\ UNCHANGED <<current, buffer, open, failed>>

\* Mutant: the slot of a message that cannot be processed is kept
AbandonsKept(g) ==
    /\ ~closes[g] /\ ~alive[g]
    /\ loop' = [loop EXCEPT ![g] = "iterating"]
    /\ UNCHANGED <<current, busy, buffer, open, failed>>

\* working() throws on a closed connection, and then term(): the slot is given back
Abandons(g) ==
    /\ ~closes[g] /\ ~alive[g]
    /\ Unlock(g, "iterating")
    /\ UNCHANGED <<busy, buffer, open, failed>>

\* The rest of the loop's body, after mutex.lock()
Proceed(g) ==
    /\ loop[g] = "granted"
    /\ EndsByClose(g) \/ StartsHandler(g) \/ Abandons(g)
    /\ taken' = [taken EXCEPT ![g] = <<>>]
    /\ UNCHANGED <<alive, closes, server, nats, handled, stream>>

\* Mutant: a loop is not started again
RestartNever(g, r) ==
    /\ r = g
    /\ loop' = [loop EXCEPT ![g] = "ended"]
    /\ UNCHANGED <<alive, closes, current, early>>

\* After the loop: another call of runSubscription(), in the slot r, or none
Restart(g, r) ==
    \/ /\ jetstream /\ ~closes[g]
       /\ loop[r] = "ended" \/ r = g
       /\ Busy(r) = {}
       /\ loop' = [loop EXCEPT ![g] = "ended", ![r] = "consuming"]
       /\ alive' = [alive EXCEPT ![r] = alive[g]]
       /\ closes' = [closes EXCEPT ![r] = closes[g]]
       /\ current' = [current EXCEPT ![r] = 0]
       /\ early' = [early EXCEPT ![r] = 0]
    \/ /\ ~(jetstream /\ ~closes[g])
       /\ loop' = [loop EXCEPT ![g] = "ended"]
       /\ UNCHANGED <<alive, closes, current, early>>

\* Mutant: a failed loop is started again at once and after the pause
IteratorEndsTwice(g) ==
    /\ loop[g] = "iterating" /\ buffer[g] = <<>> /\ ~open[g] /\ failed[g]
    /\ \E r \in Loops :
          /\ Free(r)
          /\ loop' = [loop EXCEPT ![g] = "paused", ![r] = "consuming"]
          /\ alive' = [alive EXCEPT ![r] = alive[g]]
          /\ closes' = [closes EXCEPT ![r] = closes[g]]
          /\ current' = [current EXCEPT ![r] = 0]
          /\ early' = [early EXCEPT ![r] = 0]
    /\ failed' = [failed EXCEPT ![g] = FALSE]
    /\ UNCHANGED <<open, buffer, taken, server, busy, nats, handled, values>>

\* The iterator is stopped and its buffer is empty: the loop ends, or fails and pauses
IteratorEnds(g) ==
    /\ loop[g] = "iterating" /\ buffer[g] = <<>> /\ ~open[g]
    /\ \/ /\ failed[g]
          /\ loop' = [loop EXCEPT ![g] = "paused"]
          /\ UNCHANGED <<alive, closes, current, early>>
       \/ /\ ~failed[g]
          /\ \E r \in Loops : Restart(g, r)
    /\ failed' = [failed EXCEPT ![g] = FALSE]
    /\ UNCHANGED <<open, buffer, taken, server, busy, nats, handled, values>>

\* CONSUMER_RETRY_DELAY is over
PauseEnds(g) ==
    /\ loop[g] = "paused"
    /\ \E r \in Loops : Restart(g, r)
    /\ UNCHANGED <<open, failed, buffer, taken, server, busy, nats, handled, values>>

\* ack(), nak() or term() of a message: nats.js sends the first of them, and only on an open connection
Acknowledges(b, kind) ==
    sent' = IF alive[b.loop] /\ values[b.delivery] = 0
            THEN sent \cup {[msg |-> b.delivery.msg, kind |-> kind]} ELSE sent

\* Mutant: respond() acknowledges an error as a success
RespondAck(b, kind) ==
    /\ b \in busy
    /\ busy' = busy \ {b}
    /\ handled' = IF kind = "ack" THEN handled \cup {b.delivery.msg} ELSE handled
    /\ Acknowledges(b, "ack")
    /\ Unlock(b.loop, loop[b.loop])
    /\ UNCHANGED <<alive, closes, open, failed, buffer, taken, server, stored, count, stream>>

\* The last packet of a message, a value or an error, or the catch when there is none.
\* On a closed connection the acknowledgement throws; the slot is given back all the same.
Respond(b, kind) ==
    /\ b \in busy
    /\ busy' = busy \ {b}
    /\ handled' = IF kind = "ack" THEN handled \cup {b.delivery.msg} ELSE handled
    /\ Acknowledges(b, kind)
    /\ Unlock(b.loop, loop[b.loop])
    /\ UNCHANGED <<alive, closes, open, failed, buffer, taken, server, stored, count, stream>>

\* A packet before the last one, of a handler that returns a stream: respond() acknowledges
\* and gives the slot back, and the handler goes on
StreamValue(b, kind) ==
    /\ b \in busy /\ values[b.delivery] < MaxValues[b.delivery]
    /\ values' = [values EXCEPT ![b.delivery] = @ + 1]
    /\ early' = [early EXCEPT ![b.loop] = @ + 1]
    /\ Acknowledges(b, kind)
    /\ Unlock(b.loop, loop[b.loop])
    /\ UNCHANGED <<alive, closes, open, failed, buffer, taken, server, busy, stored, count, handled>>

-----------------------------------------------------------------------------
(* The server.                                                             *)

\* messages.stop() on the iterator of the channel
StopIterator == open' = [g \in Loops |-> open[g] /\ g # iter]

\* close(), up to the wait for the handlers
Close ==
    /\ ~closing
    /\ closing' = TRUE
    /\ closes' = [g \in Loops |-> loop[g] # "ended" \/ closes[g]]
    /\ StopIterator
    /\ UNCHANGED <<loop, alive, failed, buffer, current, taken, iter, jetstream, up, busy, nats, handled, stream>>

\* The connection is closed: nothing arrives any more, and what was on its way is lost
Disconnected ==
    /\ up' = FALSE
    /\ alive' = [g \in Loops |-> FALSE]
    /\ open' = [g \in Loops |-> FALSE]
    /\ sent' = {}

\* release()
Release == jetstream' = FALSE /\ iter' = None

\* The handlers are idle, or GRACE_PERIOD is over: close() closes the connection
CloseEnds ==
    /\ closing /\ jetstream
    /\ Disconnected /\ Release
    /\ UNCHANGED <<loop, closes, failed, buffer, current, taken, closing, busy, stored, count, handled, stream>>

\* nats.js closes the connection for good
CloseForGood ==
    /\ up
    /\ Disconnected
    /\ UNCHANGED <<loop, closes, failed, buffer, current, taken, iter, jetstream, closing,
                   busy, stored, count, handled, stream>>

\* reconnect(): it stops the iterator; Bind is its next attempt
Reconnect ==
    /\ jetstream /\ ~up /\ ~closing
    /\ StopIterator
    /\ Release
    /\ UNCHANGED <<loop, alive, closes, failed, buffer, current, taken, up, closing, busy, nats, handled, stream>>

-----------------------------------------------------------------------------
(* NATS.                                                                   *)

Deliver(g, m) ==
    /\ open[g] /\ alive[g] /\ Len(buffer[g]) < Limit
    /\ stored[m] = "ready" /\ count[m] < MaxDeliver
    /\ stored' = [stored EXCEPT ![m] = "out"]
    /\ count' = [count EXCEPT ![m] = @ + 1]
    /\ buffer' = [buffer EXCEPT ![g] = Append(@, [msg |-> m, n |-> count[m] + 1])]
    /\ UNCHANGED <<loop, alive, closes, open, failed, current, taken, server, busy, sent, handled, stream>>

\* ack_wait is over, also while the message waits in a buffer or is in processing
AckWaitEnds(m) ==
    /\ stored[m] = "out" /\ count[m] < MaxDeliver
    /\ stored' = [stored EXCEPT ![m] = "ready"]
    /\ UNCHANGED <<loops, server, busy, count, sent, handled, stream>>

\* An acknowledgement reaches NATS; the first ack or term settles the message
Acknowledged(a) ==
    /\ a \in sent
    /\ sent' = sent \ {a}
    /\ stored' = [stored EXCEPT ![a.msg] =
                    IF @ \in {"acked", "termed"} THEN @
                    ELSE CASE a.kind = "ack" -> "acked" [] a.kind = "term" -> "termed"
                           [] a.kind = "nak" -> "ready"]
    /\ UNCHANGED <<loops, server, busy, count, handled, stream>>

\* The consumer fails: the heartbeats are missed, or it was deleted
IteratorFails(g) ==
    /\ open[g] /\ alive[g]
    /\ open' = [open EXCEPT ![g] = FALSE]
    /\ failed' = [failed EXCEPT ![g] = TRUE]
    /\ UNCHANGED <<loop, alive, closes, buffer, current, taken, server, busy, nats, handled, stream>>

-----------------------------------------------------------------------------
Next ==
    \/ \E g \in Loops :
          \/ Bind(g) \/ ConsumeOk(g) \/ ConsumeFails(g) \/ TakeNext(g) \/ Proceed(g)
          \/ IteratorEnds(g) \/ PauseEnds(g) \/ IteratorFails(g)
          \/ \E m \in Messages : Deliver(g, m)
    \/ \E b \in busy, kind \in Kinds : Respond(b, kind) \/ StreamValue(b, kind)
    \/ Close \/ CloseEnds \/ CloseForGood \/ Reconnect
    \/ \E m \in Messages : AckWaitEnds(m)
    \/ \E a \in sent : Acknowledged(a)

Spec == Init /\ [][Next]_vars

\* What NATS does to a consumer that it does not serve
NatsFails == CloseForGood \/ \E g \in Loops : IteratorFails(g) \/ ConsumeFails(g)

(* Promises settle and timers fire, handlers end, and NATS is back at last and
   delivers: without these nothing has to happen.                           *)
Fairness ==
    /\ \A g \in Loops :
          /\ WF_vars(ConsumeOk(g) \/ ConsumeFails(g)) /\ WF_vars(TakeNext(g)) /\ WF_vars(Proceed(g))
          /\ WF_vars(IteratorEnds(g)) /\ WF_vars(PauseEnds(g)) /\ WF_vars(~closing /\ Bind(g))
          /\ \A m \in Messages : WF_vars(Deliver(g, m))
    /\ \A d \in Deliveries, g \in Loops :
          WF_vars(\E kind \in Kinds : Respond([delivery |-> d, loop |-> g], kind))
    /\ WF_vars(CloseEnds) /\ WF_vars(Reconnect)
    /\ \A m \in Messages :
          /\ WF_vars(AckWaitEnds(m))
          /\ \A kind \in Kinds : WF_vars(Acknowledged([msg |-> m, kind |-> kind]))
    /\ <>[][~NatsFails]_vars

LiveSpec == Spec /\ Fairness

-----------------------------------------------------------------------------
(* Safety.                                                                 *)

(* A slot of the mutex is taken for every message in processing and for the one
   that the loop has taken, and none besides, less those that the values of a
   stream have given back early: unlock() is called once a message, and once more
   for every packet before its last, on every path, also when the connection is gone. *)
MutexBalanced ==
    \A g \in Loops : loop[g] \in {"iterating", "waiting", "granted", "paused"} =>
        current[g] = Cardinality(Busy(g)) + (IF taken[g] = <<>> THEN 0 ELSE 1) - early[g]

(* A loop has more handlers running than max_handlers only by the slots that
   streams have given back before they were complete, and it waits only while it
   has that many: without a stream the handlers never exceed max_handlers, and a
   loop never waits with a slot free. *)
LoopLimit ==
    \A g \in Loops :
        /\ Cardinality(Busy(g)) <= MaxHandlers + early[g]
        /\ loop[g] = "waiting" => Cardinality(Busy(g)) = MaxHandlers + early[g]

(* One loop at a time pulls from the consumer over the connection in use: neither
   a restart nor a reconnect leaves a second one. *)
OneLoopPulls ==
    Cardinality({g \in Loops : alive[g] /\ ~closes[g] /\ loop[g] # "ended"}) <= 1

(* README, Concurrent Processing: no more than max_handlers handlers work
   simultaneously. *)
HandlerLimit == Cardinality(busy) <= MaxHandlers

(* Once close() has come, no message is taken for processing, also one that
   waited for a slot when it came. *)
NoHandlerAfterClose == [][\A b \in busy' \ busy : ~closing]_vars

(* Every message is settled, or delivered as often as max_deliver allows, unless
   the server is closed: no delivery is stuck behind a loop that has ended. *)
EventuallySettled ==
    \A m \in Messages :
        stored[m] \in {"ready", "out"} ~>
            stored[m] \in {"acked", "termed"} \/ count[m] = MaxDeliver \/ closing

-----------------------------------------------------------------------------
(* Refinement.                                                             *)

\* The deliveries in the buffer of a loop, or at its mutex.lock()
Waits(g, d) == taken[g] = d \/ \E i \in 1 .. Len(buffer[g]) : buffer[g][i] = d

Promise == INSTANCE DeliveryPromise WITH
    waiting    <- {d \in Deliveries : \E g \in Loops : Waits(g, d)},
    processing <- {b.delivery : b \in busy},
    streamed   <- {d.msg : d \in {e \in Deliveries : values[e] > 0}}

(* No delivery is processed twice, by one loop or by two, and NATS is told that a
   message is settled only after a delivery of it is over, by an ack only when a
   handler has completed it, whatever is redelivered, restarted or lost meanwhile.
   A stream settles its message with its first value: such a message may be
   settled, and by an ack, while its handler goes on, or before it fails.  The
   implementation of DeliveryPromise. *)
HandlesOnce == Promise!Spec
=============================================================================
