---------------------- MODULE JetStreamConsumerProofs ----------------------
(***************************************************************************)
(* The safety of a JetStream consumer, for any number of messages, loops,  *)
(* deliveries and handlers.                                                *)
(***************************************************************************)
EXTENDS JetStreamConsumer, FiniteSetTheorems, SequenceTheorems, TLAPS

TypeInv == TypeOK /\ IsFiniteSet(busy)

Running(g) == Cardinality(Busy(g))

(* Where a loop is says what its mutex counts, less the slots that streams have given
   back early.  A loop that close() has ended after mutex.lock() keeps a slot that nobody
   uses. *)
SlotsCounted(g) ==
    /\ early[g] \in Nat /\ Running(g) <= MaxHandlers + early[g]
    /\ loop[g] = "consuming" => current[g] = 0 /\ Running(g) = 0 /\ early[g] = 0
    /\ loop[g] \in {"iterating", "paused"} => current[g] = Running(g) - early[g]
    /\ loop[g] = "waiting" => current[g] = Running(g) + 1 - early[g] /\ Running(g) = MaxHandlers + early[g]
    /\ loop[g] = "granted" => current[g] = Running(g) + 1 - early[g] /\ Running(g) < MaxHandlers + early[g]
    /\ loop[g] = "ended" => current[g] \in {Running(g) - early[g], Running(g) + 1 - early[g]}

(* A loop has taken a delivery while it is at mutex.lock(), and has an iterator and
   its buffer only while it iterates. *)
TakenAtLock(g) ==
    /\ taken[g] = <<>> <=> loop[g] \notin {"waiting", "granted"}
    /\ loop[g] \in {"ended", "consuming", "paused"} => buffer[g] = <<>> /\ ~open[g]

(* NATS has made each delivery of a loop once: it is either in the buffer, or taken,
   or in processing. *)
DeliveredOnce(g) ==
    /\ \A i \in 1 .. Len(buffer[g]) :
          /\ buffer[g][i].n <= count[buffer[g][i].msg]
          /\ \A j \in 1 .. Len(buffer[g]) : buffer[g][i] = buffer[g][j] => i = j
    /\ taken[g] # <<>> =>
          /\ taken[g].n <= count[taken[g].msg]
          /\ \A i \in 1 .. Len(buffer[g]) : buffer[g][i] # taken[g]
    /\ \A b \in Busy(g) :
          /\ b.delivery.n <= count[b.delivery.msg]
          /\ b.delivery # taken[g]
          /\ \A i \in 1 .. Len(buffer[g]) : buffer[g][i] # b.delivery

LoopInv(g) == SlotsCounted(g) /\ TakenAtLock(g) /\ DeliveredOnce(g)

(* A loop that pulls from the consumer is alone; there is none without a connection,
   nor once close() has come. *)
Pulls(g) == alive[g] /\ ~closes[g] /\ loop[g] # "ended"

PullsAlone ==
    /\ \A g, h \in Loops : Pulls(g) /\ Pulls(h) => g = h
    /\ ~jetstream => ~up
    /\ ~up => \A g \in Loops : ~alive[g]
    /\ closing => \A g \in Loops : ~Pulls(g)

(* The messages that a handler has given a value of, before its last packet. *)
Streamed == {d.msg : d \in {e \in Deliveries : values[e] > 0}}

(* A message is removed from the stream by an ack only when a handler has completed it,
   or has given the first value of a stream, whatever is redelivered, restarted or lost
   meanwhile. *)
AckedWasHandled == \A m \in Messages : stored[m] = "acked" => m \in handled \cup Streamed

(* An ack is sent, and arrives, after a handler has completed the message or given a value. *)
HandledFirst ==
    /\ \A a \in sent : a.kind = "ack" => a.msg \in handled \cup Streamed
    /\ AckedWasHandled

(* What the steps of the consumer keep. *)
IInv ==
    /\ TypeInv
    /\ \A g \in Loops : LoopInv(g)
    /\ PullsAlone
    /\ HandledFirst

-----------------------------------------------------------------------------
(* Deliveries, buffers and the messages in processing.                     *)

USE DEF stream

(* A delivery is not the empty tuple that stands for none. *)
LEMMA DeliveryIsSome == ASSUME NEW d \in Deliveries PROVE d # <<>>
<1>1. "msg" \in DOMAIN d
  BY DEF Deliveries
<1>2. "msg" \notin DOMAIN <<>>
  OBVIOUS
<1> QED
  BY <1>1, <1>2

(* What is left of a buffer whose head has been taken. *)
LEMMA TakeHead ==
    ASSUME NEW s \in Seq(Deliveries), s # <<>>
    PROVE  /\ Head(s) \in Deliveries /\ Head(s) = s[1] /\ 1 \in 1 .. Len(s)
           /\ Tail(s) \in Seq(Deliveries) /\ Len(Tail(s)) = Len(s) - 1
           /\ \A i \in 1 .. Len(Tail(s)) : Tail(s)[i] = s[i + 1] /\ i + 1 \in 1 .. Len(s) /\ i + 1 # 1
  BY HeadTailProperties

(* The messages in processing of a loop are as many as a number says. *)
LEMMA BusyFinite ==
    ASSUME TypeInv, NEW g \in Loops
    PROVE  IsFiniteSet(Busy(g)) /\ Running(g) \in Nat
<1>1. IsFiniteSet(Busy(g))
  BY FS_Subset DEF TypeInv, Busy
<1> QED
  BY <1>1, FS_CardinalityType DEF Running

(* A loop has no message in processing when it runs none. *)
LEMMA BusyEmpty ==
    ASSUME TypeInv, NEW g \in Loops
    PROVE  Running(g) = 0 <=> Busy(g) = {}
  BY BusyFinite, FS_EmptySet DEF Running

(* A handler that starts is one more of its loop, and changes no other loop. *)
LEMMA BusyAdded ==
    ASSUME TypeInv, NEW g \in Loops, NEW b, b.loop = g, b \notin busy, busy' = busy \cup {b}
    PROVE  /\ IsFiniteSet(busy') /\ Running(g)' = Running(g) + 1
           /\ \A h \in Loops : h # g => Busy(h)' = Busy(h)
<1>1. IsFiniteSet(busy')
  BY FS_AddElement DEF TypeInv
<1>2. Busy(g)' = Busy(g) \cup {b} /\ b \notin Busy(g) /\ \A h \in Loops : h # g => Busy(h)' = Busy(h)
  BY DEF Busy
<1>3. Cardinality(Busy(g) \cup {b}) = Cardinality(Busy(g)) + 1
  BY <1>2, BusyFinite, FS_AddElement
<1> QED
  BY <1>1, <1>2, <1>3 DEF Running

(* A handler that ends is one less of its loop, and changes no other loop. *)
LEMMA BusyRemoved ==
    ASSUME TypeInv, NEW b \in busy, b.loop \in Loops, busy' = busy \ {b}
    PROVE  /\ IsFiniteSet(busy') /\ Running(b.loop)' = Running(b.loop) - 1 /\ Running(b.loop) > 0
           /\ \A h \in Loops : h # b.loop => Busy(h)' = Busy(h)
<1>1. IsFiniteSet(busy')
  BY FS_RemoveElement DEF TypeInv
<1>2. /\ Busy(b.loop)' = Busy(b.loop) \ {b} /\ b \in Busy(b.loop)
      /\ \A h \in Loops : h # b.loop => Busy(h)' = Busy(h)
  BY DEF Busy
<1>3. Cardinality(Busy(b.loop) \ {b}) = Cardinality(Busy(b.loop)) - 1
  BY <1>2, BusyFinite, FS_RemoveElement
<1>4. Running(b.loop) > 0
  BY <1>2, BusyFinite, BusyEmpty
<1> QED
  BY <1>1, <1>2, <1>3, <1>4 DEF Running

(* A step that leaves a loop, its mutex and its messages alone keeps what is said of it,
   also when the iterator of the loop is stopped or NATS delivers to another. *)
LEMMA LoopBeside ==
    ASSUME TypeInv, NEW g \in Loops, LoopInv(g),
           loop'[g] = loop[g], current'[g] = current[g], early'[g] = early[g],
           taken'[g] = taken[g], buffer'[g] = buffer[g],
           open'[g] => open[g], Busy(g)' = Busy(g),
           count' \in [Messages -> Nat], \A m \in Messages : count[m] <= count'[m]
    PROVE  LoopInv(g)'
<1>1. SlotsCounted(g)' /\ TakenAtLock(g)'
  BY DEF LoopInv, SlotsCounted, TakenAtLock, Running
<1>2. /\ \A i \in 1 .. Len(buffer[g]) : buffer[g][i].msg \in Messages /\ buffer[g][i].n \in Nat
      /\ taken[g] # <<>> => taken[g].msg \in Messages /\ taken[g].n \in Nat
      /\ \A b \in Busy(g) : b.delivery.msg \in Messages /\ b.delivery.n \in Nat
      /\ count \in [Messages -> Nat]
  <2>1. \A d \in Deliveries : d.msg \in Messages /\ d.n \in Nat
    BY LimitsAssumption DEF Deliveries
  <2>2. buffer[g] \in Seq(Deliveries) /\ taken[g] \in Deliveries \cup {<<>>} /\ count \in [Messages -> Nat]
    BY LimitsAssumption DEF TypeInv, TypeOK
  <2>3. \A i \in 1 .. Len(buffer[g]) : buffer[g][i] \in Deliveries
    BY <2>2, ElementOfSeq
  <2>4. \A b \in Busy(g) : b.delivery \in Deliveries
    BY DEF TypeInv, TypeOK, Busy
  <2> QED
    BY <2>1, <2>2, <2>3, <2>4
<1>3. DeliveredOnce(g)'
  BY <1>2 DEF LoopInv, DeliveredOnce
<1> QED
  BY <1>1, <1>3 DEF LoopInv

(* So does a step that NATS has no part in. *)
LEMMA LoopKept ==
    ASSUME TypeInv, NEW g \in Loops, LoopInv(g), count' = count,
           loop'[g] = loop[g], current'[g] = current[g], early'[g] = early[g],
           taken'[g] = taken[g], buffer'[g] = buffer[g],
           open'[g] => open[g], Busy(g)' = Busy(g)
    PROVE  LoopInv(g)'
<1>1. count' \in [Messages -> Nat] /\ \A m \in Messages : count[m] <= count'[m]
  BY LimitsAssumption DEF TypeInv, TypeOK
<1> QED
  BY <1>1, LoopBeside

(* A call of runSubscription() begins in a slot that nothing is left in. *)
LEMMA LoopBegins ==
    ASSUME TypeInv, NEW g \in Loops, Busy(g) = {}, busy' = busy,
           loop'[g] = "consuming", current'[g] = 0, early'[g] = 0, taken'[g] = <<>>, buffer'[g] = <<>>, ~open'[g]
    PROVE  LoopInv(g)'
<1>1. Busy(g)' = {} /\ Running(g)' = 0
  BY BusyEmpty DEF Busy, Running
<1>2. SlotsCounted(g)'
  BY <1>1, LimitsAssumption DEF SlotsCounted
<1> QED
  BY <1>1, <1>2 DEF LoopInv, TakenAtLock, DeliveredOnce

(* A loop ends, or pauses, without a delivery and with its buffer empty. *)
LEMMA LoopEnds ==
    ASSUME TypeInv, NEW g \in Loops, LoopInv(g), busy' = busy, count' = count,
           loop[g] \in {"consuming", "iterating", "paused"}, loop'[g] \in {"ended", "paused"},
           current'[g] = current[g], early'[g] = early[g], taken'[g] = taken[g], buffer'[g] = <<>>, ~open'[g]
    PROVE  LoopInv(g)'
<1>1. Busy(g)' = Busy(g) /\ Running(g)' = Running(g) /\ Running(g) \in Nat
  BY BusyFinite DEF Busy, Running
<1>2. SlotsCounted(g)'
  BY <1>1 DEF LoopInv, SlotsCounted
<1> QED
  BY <1>1, <1>2 DEF LoopInv, TakenAtLock, DeliveredOnce

(* What pulls, and the connection, are as they were, or a loop or an iterator has stopped. *)
LEMMA PullsKept ==
    ASSUME PullsAlone, \A g \in Loops : Pulls(g)' => Pulls(g), \A g \in Loops : alive'[g] => alive[g],
           UNCHANGED <<jetstream, up, closing>>
    PROVE  PullsAlone'
  BY DEF PullsAlone

(* Acknowledgements and messages are as they were. *)
LEMMA HandledKept == ASSUME HandledFirst, UNCHANGED <<nats, handled, values>> PROVE HandledFirst'
  BY DEF HandledFirst, AckedWasHandled, Streamed, nats

-----------------------------------------------------------------------------
(* Every operation of a loop keeps the invariant.                          *)

(* bindJetStreamEvents() finds no loop that pulls. *)
LEMMA BindStep == ASSUME IInv, NEW g \in Loops, Bind(g) PROVE IInv'
<1>1. TypeInv'
  <2>1. current' \in [Loops -> Int] /\ early' \in [Loops -> Nat]
    BY DEF IInv, TypeInv, TypeOK, Bind, StartLoop
  <2>2. loop' \in [Loops -> {"ended", "consuming", "iterating", "waiting", "granted", "paused"}]
    BY DEF IInv, TypeInv, TypeOK, Bind, StartLoop
  <2>3. alive' \in [Loops -> BOOLEAN] /\ closes' \in [Loops -> BOOLEAN]
    BY DEF IInv, TypeInv, TypeOK, Bind, StartLoop
  <2> QED
    BY <2>1, <2>2, <2>3 DEF IInv, TypeInv, TypeOK, Bind, StartLoop, nats
<1>2. ASSUME NEW h \in Loops PROVE LoopInv(h)'
  <2>1. CASE h = g
    BY <2>1, LoopBegins DEF IInv, TypeInv, TypeOK, LoopInv, TakenAtLock, Bind, StartLoop, Free
  <2>2. CASE h # g
    BY <2>2, LoopKept DEF IInv, TypeInv, TypeOK, Bind, StartLoop, nats, Busy
  <2> QED
    BY <2>1, <2>2
<1>3. PullsAlone'
  <2>1. \A h \in Loops : h # g => ~alive'[h]
    BY DEF IInv, TypeInv, TypeOK, PullsAlone, Bind, StartLoop
  <2> QED
    BY <2>1 DEF PullsAlone, Bind, Pulls
<1> QED
  BY <1>1, <1>2, <1>3, HandledKept DEF IInv, Bind

(* consume() has made the iterator. *)
LEMMA ConsumeOkStep == ASSUME IInv, NEW g \in Loops, ConsumeOk(g) PROVE IInv'
<1>1. TypeInv'
  BY DEF IInv, TypeInv, TypeOK, ConsumeOk, nats
<1>2. ASSUME NEW h \in Loops PROVE LoopInv(h)'
  <2>1. CASE h = g
    <3>1. Busy(g)' = Busy(g) /\ Running(g)' = Running(g) /\ loop'[g] = "iterating" /\ Running(g) \in Nat
      BY BusyFinite DEF IInv, TypeInv, TypeOK, ConsumeOk, Busy, Running
    <3> QED
      BY <2>1, <3>1 DEF IInv, LoopInv, SlotsCounted, TakenAtLock, DeliveredOnce, ConsumeOk, nats
  <2>2. CASE h # g
    BY <2>2, LoopKept DEF IInv, TypeInv, TypeOK, ConsumeOk, nats, Busy
  <2> QED
    BY <2>1, <2>2
<1>3. PullsAlone'
  BY PullsKept DEF IInv, TypeInv, TypeOK, ConsumeOk, Pulls
<1> QED
  BY <1>1, <1>2, <1>3, HandledKept DEF IInv, ConsumeOk

(* consume() has failed. *)
LEMMA ConsumeFailsStep == ASSUME IInv, NEW g \in Loops, ConsumeFails(g) PROVE IInv'
<1>1. TypeInv'
  BY DEF IInv, TypeInv, TypeOK, ConsumeFails, server, nats
<1>2. ASSUME NEW h \in Loops PROVE LoopInv(h)'
  <2>1. CASE h = g
    BY <2>1, LoopEnds DEF IInv, TypeInv, TypeOK, LoopInv, TakenAtLock, ConsumeFails, nats
  <2>2. CASE h # g
    BY <2>2, LoopKept DEF IInv, TypeInv, TypeOK, ConsumeFails, nats, Busy
  <2> QED
    BY <2>1, <2>2
<1>3. PullsAlone'
  BY PullsKept DEF IInv, TypeInv, TypeOK, ConsumeFails, server, Pulls
<1> QED
  BY <1>1, <1>2, <1>3, HandledKept DEF IInv, ConsumeFails

(* The loop takes a delivery: it waits exactly when the handlers have all the slots. *)
LEMMA TakeNextStep == ASSUME IInv, NEW g \in Loops, TakeNext(g) PROVE IInv'
<1> USE LimitsAssumption
<1>0. buffer[g] \in Seq(Deliveries) /\ buffer[g] # <<>>
  BY DEF IInv, TypeInv, TypeOK, TakeNext
<1>1. TypeInv'
  <2>1. \A h \in Loops : buffer'[h] \in Seq(Deliveries)
    BY <1>0, TakeHead DEF IInv, TypeInv, TypeOK, TakeNext
  <2>2. taken' \in [Loops -> Deliveries \cup {<<>>}]
    BY <1>0, TakeHead DEF IInv, TypeInv, TypeOK, TakeNext
  <2>3. current' \in [Loops -> Int] /\ loop' \in [Loops -> {"ended", "consuming", "iterating", "waiting", "granted", "paused"}]
    BY DEF IInv, TypeInv, TypeOK, TakeNext
  <2>4. buffer' \in [Loops -> Seq(Deliveries)]
    BY <2>1 DEF IInv, TypeInv, TypeOK, TakeNext
  <2> QED
    BY <2>2, <2>3, <2>4 DEF IInv, TypeInv, TypeOK, TakeNext, server, nats
<1>2. ASSUME NEW h \in Loops PROVE LoopInv(h)'
  <2>1. CASE h = g
    <3>0. current[g] = Running(g) - early[g] /\ Running(g) <= MaxHandlers + early[g] /\ Running(g) \in Nat /\ early[g] \in Nat
      BY BusyFinite DEF IInv, LoopInv, SlotsCounted, TakeNext
    <3>1. /\ Busy(g)' = Busy(g) /\ Running(g)' = Running(g) /\ current'[g] = Running(g) - early[g] + 1
          /\ early'[g] = early[g] /\ taken'[g] = Head(buffer[g]) /\ buffer'[g] = Tail(buffer[g]) /\ count' = count
          /\ loop'[g] = IF Running(g) - early[g] + 1 <= MaxHandlers THEN "granted" ELSE "waiting"
      BY <3>0 DEF IInv, TypeInv, TypeOK, TakeNext, Busy, Running, nats
    <3>2. SlotsCounted(g)'
      BY <3>0, <3>1 DEF SlotsCounted
    <3>3. TakenAtLock(g)'
      BY <1>0, <3>1, TakeHead, DeliveryIsSome DEF TakenAtLock
    <3>4. DeliveredOnce(g)'
      BY <1>0, <3>1, TakeHead DEF IInv, LoopInv, DeliveredOnce
    <3> QED
      BY <2>1, <3>2, <3>3, <3>4 DEF LoopInv
  <2>2. CASE h # g
    BY <2>2, LoopKept DEF IInv, TypeInv, TypeOK, TakeNext, nats, Busy
  <2> QED
    BY <2>1, <2>2
<1>3. PullsAlone'
  BY PullsKept DEF IInv, TypeInv, TypeOK, TakeNext, server, Pulls
<1> QED
  BY <1>1, <1>2, <1>3, HandledKept DEF IInv, TakeNext

(* What comes after mutex.lock(): the handler that starts is a new one in a free slot. *)
LEMMA ProceedStep == ASSUME IInv, NEW g \in Loops, Proceed(g) PROVE IInv'
<1> USE LimitsAssumption
<1> DEFINE b == [delivery |-> taken[g], loop |-> g]
<1>0. /\ loop[g] = "granted" /\ taken[g] \in Deliveries /\ Running(g) \in Nat
      /\ current[g] = Running(g) + 1 - early[g] /\ Running(g) < MaxHandlers + early[g] /\ early[g] \in Nat
  BY BusyFinite DEF IInv, TypeInv, TypeOK, LoopInv, SlotsCounted, TakenAtLock, Proceed
<1>a. /\ taken' = [taken EXCEPT ![g] = <<>>] /\ count' = count /\ alive' = alive /\ closes' = closes
      /\ UNCHANGED <<server, nats, handled, values, early>>
  BY DEF Proceed, nats
<1>b. b \notin busy
  BY <1>0, DeliveryIsSome DEF IInv, LoopInv, DeliveredOnce, Busy
<1>1. CASE EndsByClose(g)
  <2>1. TypeInv'
    BY <1>1, <1>a DEF IInv, TypeInv, TypeOK, EndsByClose, server, nats
  <2>2. Busy(g)' = Busy(g) /\ Running(g)' = Running(g)
    BY <1>1 DEF EndsByClose, Busy, Running
  <2>3. LoopInv(g)'
    <3>1. /\ loop'[g] = "ended" /\ current'[g] = current[g] /\ taken'[g] = <<>>
          /\ buffer'[g] = <<>> /\ ~open'[g]
      BY <1>1, <1>a DEF IInv, TypeInv, TypeOK, EndsByClose
    <3>2. SlotsCounted(g)' /\ TakenAtLock(g)'
      BY <1>0, <1>a, <2>2, <3>1 DEF SlotsCounted, TakenAtLock
    <3>3. \A c \in Busy(g)' : c.delivery # <<>>
      BY <2>1, DeliveryIsSome DEF TypeInv, TypeOK, Busy
    <3>4. DeliveredOnce(g)'
      BY <1>a, <2>2, <3>1, <3>3 DEF IInv, LoopInv, DeliveredOnce
    <3> QED
      BY <3>2, <3>4 DEF LoopInv
  <2>4. \A h \in Loops : h # g => LoopInv(h)'
    BY <1>1, <1>a, LoopKept DEF IInv, TypeInv, TypeOK, EndsByClose, Busy
  <2>5. PullsAlone'
    BY <1>1, <1>a, PullsKept DEF IInv, TypeInv, TypeOK, EndsByClose, server, Pulls
  <2> QED
    BY <1>a, <2>1, <2>3, <2>4, <2>5, HandledKept DEF IInv
<1>2. CASE StartsHandler(g)
  <2>1. /\ IsFiniteSet(busy') /\ Running(g)' = Running(g) + 1 /\ Busy(g)' = Busy(g) \cup {b}
        /\ \A h \in Loops : h # g => Busy(h)' = Busy(h)
    BY <1>2, <1>b, BusyAdded DEF IInv, StartsHandler, Busy
  <2>2. TypeInv'
    <3>1. loop' \in [Loops -> {"ended", "consuming", "iterating", "waiting", "granted", "paused"}] /\ taken' \in [Loops -> Deliveries \cup {<<>>}]
      BY <1>2, <1>a DEF IInv, TypeInv, TypeOK, StartsHandler
    <3>2. busy' \subseteq [delivery : Deliveries, loop : Loops]
      BY <1>0, <1>2 DEF IInv, TypeInv, TypeOK, StartsHandler
    <3> QED
      BY <1>2, <1>a, <2>1, <3>1, <3>2 DEF IInv, TypeInv, TypeOK, StartsHandler, server, nats
  <2>3. LoopInv(g)'
    <3>1. /\ loop'[g] = "iterating" /\ current'[g] = current[g] /\ taken'[g] = <<>>
          /\ buffer' = buffer /\ open' = open
      BY <1>2, <1>a DEF IInv, TypeInv, TypeOK, StartsHandler
    <3>2. SlotsCounted(g)' /\ TakenAtLock(g)'
      BY <1>0, <1>a, <2>1, <3>1 DEF SlotsCounted, TakenAtLock
    <3>3. \A c \in Busy(g)' : c.delivery # <<>>
      BY <2>2, DeliveryIsSome DEF TypeInv, TypeOK, Busy
    <3>4. DeliveredOnce(g)'
      BY <1>0, <1>a, <2>1, <3>1, <3>3, DeliveryIsSome DEF IInv, LoopInv, DeliveredOnce
    <3> QED
      BY <3>2, <3>4 DEF LoopInv
  <2>4. \A h \in Loops : h # g => LoopInv(h)'
    BY <1>2, <1>a, <2>1, LoopKept DEF IInv, TypeInv, TypeOK, StartsHandler
  <2>5. PullsAlone'
    BY <1>2, <1>0, <1>a, PullsKept DEF IInv, TypeInv, TypeOK, StartsHandler, server, Pulls
  <2> QED
    BY <1>a, <2>2, <2>3, <2>4, <2>5, HandledKept DEF IInv
<1>3. CASE Abandons(g)
  <2>1. /\ loop' = [loop EXCEPT ![g] = "iterating"] /\ current' = [current EXCEPT ![g] = @ - 1]
        /\ UNCHANGED <<busy, buffer, open, failed>>
    BY <1>3 DEF Abandons, Unlock
  <2>2. TypeInv'
    <3>1. loop' \in [Loops -> {"ended", "consuming", "iterating", "waiting", "granted", "paused"}] /\ taken' \in [Loops -> Deliveries \cup {<<>>}]
      BY <1>a, <2>1 DEF IInv, TypeInv, TypeOK
    <3>2. current' \in [Loops -> Int]
      BY <2>1 DEF IInv, TypeInv, TypeOK
    <3> QED
      BY <1>a, <2>1, <3>1, <3>2 DEF IInv, TypeInv, TypeOK, server, nats
  <2>3. LoopInv(g)'
    <3>1. /\ Busy(g)' = Busy(g) /\ Running(g)' = Running(g) /\ loop'[g] = "iterating"
          /\ current'[g] = Running(g) - early[g] /\ taken'[g] = <<>>
      BY <1>0, <1>a, <2>1 DEF IInv, TypeInv, TypeOK, Busy, Running
    <3>2. SlotsCounted(g)' /\ TakenAtLock(g)'
      BY <1>0, <1>a, <2>1, <3>1 DEF SlotsCounted, TakenAtLock
    <3>3. \A c \in Busy(g)' : c.delivery # <<>>
      BY <2>2, DeliveryIsSome DEF TypeInv, TypeOK, Busy
    <3>4. DeliveredOnce(g)'
      BY <1>a, <2>1, <3>1, <3>3 DEF IInv, LoopInv, DeliveredOnce
    <3> QED
      BY <3>2, <3>4 DEF LoopInv
  <2>4. \A h \in Loops : h # g => LoopInv(h)'
    BY <1>a, <2>1, LoopKept DEF IInv, TypeInv, TypeOK, Busy
  <2>5. PullsAlone'
    BY <1>0, <1>a, <2>1, PullsKept DEF IInv, TypeInv, TypeOK, server, Pulls
  <2> QED
    BY <1>a, <2>2, <2>3, <2>4, <2>5, HandledKept DEF IInv
<1> QED
  BY <1>1, <1>2, <1>3 DEF Proceed

(* What a restart, or the end of a loop without one, does to the loops. *)
LEMMA RestartStep ==
    ASSUME IInv, NEW g \in Loops, NEW r \in Loops, Restart(g, r), loop[g] \in {"iterating", "paused"},
           buffer[g] = <<>>, ~open[g], failed' \in [Loops -> BOOLEAN],
           UNCHANGED <<open, buffer, taken, server, busy, nats, handled, values>>
    PROVE  IInv'
<1>0. taken[g] = <<>>
  BY DEF IInv, LoopInv, TakenAtLock
<1>1. CASE jetstream /\ ~closes[g]
  <2>1. /\ loop[r] = "ended" \/ r = g
        /\ Busy(r) = {} /\ taken[r] = <<>> /\ buffer[r] = <<>> /\ ~open[r]
        /\ loop' = [loop EXCEPT ![g] = "ended", ![r] = "consuming"]
        /\ alive' = [alive EXCEPT ![r] = alive[g]] /\ closes' = [closes EXCEPT ![r] = closes[g]]
        /\ current' = [current EXCEPT ![r] = 0] /\ early' = [early EXCEPT ![r] = 0]
    BY <1>0, <1>1 DEF IInv, LoopInv, TakenAtLock, Restart
  <2>2. TypeInv'
    <3>1. current' \in [Loops -> Int] /\ early' \in [Loops -> Nat]
      BY <2>1 DEF IInv, TypeInv, TypeOK
    <3>2. loop' \in [Loops -> {"ended", "consuming", "iterating", "waiting", "granted", "paused"}]
      BY <2>1 DEF IInv, TypeInv, TypeOK
    <3>3. alive' \in [Loops -> BOOLEAN] /\ closes' \in [Loops -> BOOLEAN]
      BY <2>1 DEF IInv, TypeInv, TypeOK
    <3> QED
      BY <3>1, <3>2, <3>3 DEF IInv, TypeInv, TypeOK, server, nats
  <2>3. /\ loop'[r] = "consuming" /\ current'[r] = 0 /\ early'[r] = 0
        /\ \A h \in Loops : h # r => current'[h] = current[h] /\ early'[h] = early[h]
    BY <2>1 DEF IInv, TypeInv, TypeOK
  <2>4. /\ g # r => loop'[g] = "ended"
        /\ \A h \in Loops : h # g /\ h # r => loop'[h] = loop[h]
    BY <2>1 DEF IInv, TypeInv, TypeOK
  <2>5. LoopInv(r)'
    BY <2>1, <2>3, LoopBegins DEF IInv
  <2>6. g # r => LoopInv(g)'
    BY <1>0, <2>3, <2>4, LoopEnds DEF IInv, nats
  <2>7. \A h \in Loops : h # g /\ h # r => LoopInv(h)'
    BY <2>3, <2>4, LoopKept DEF IInv, nats, Busy
  <2>8. PullsAlone'
    <3>1. \A h \in Loops : Pulls(h)' => (h = r /\ Pulls(g)) \/ (h # g /\ h # r /\ Pulls(h))
      BY <2>1, <2>3, <2>4 DEF IInv, TypeInv, TypeOK, Pulls
    <3>2. \A h \in Loops : alive'[h] => alive[h] \/ alive[g]
      BY <2>1 DEF IInv, TypeInv, TypeOK
    <3> QED
      BY <3>1, <3>2 DEF IInv, PullsAlone, server
  <2> QED
    BY <2>2, <2>5, <2>6, <2>7, <2>8, HandledKept DEF IInv
<1>2. CASE ~(jetstream /\ ~closes[g])
  <2>1. loop' = [loop EXCEPT ![g] = "ended"] /\ UNCHANGED <<alive, closes, current, early>>
    BY <1>2 DEF Restart
  <2>2. TypeInv'
    BY <2>1 DEF IInv, TypeInv, TypeOK, server, nats
  <2>3. loop'[g] = "ended" /\ \A h \in Loops : h # g => loop'[h] = loop[h]
    BY <2>1 DEF IInv, TypeInv, TypeOK
  <2>4. LoopInv(g)'
    BY <1>0, <2>1, <2>3, LoopEnds DEF IInv, nats
  <2>5. \A h \in Loops : h # g => LoopInv(h)'
    BY <2>1, <2>3, LoopKept DEF IInv, nats, Busy
  <2>6. PullsAlone'
    BY <2>1, <2>3, PullsKept DEF IInv, server, Pulls
  <2> QED
    BY <2>2, <2>4, <2>5, <2>6, HandledKept DEF IInv
<1> QED
  BY <1>1, <1>2

(* The iterator has ended. *)
LEMMA IteratorEndsStep == ASSUME IInv, NEW g \in Loops, IteratorEnds(g) PROVE IInv'
<1>1. CASE failed[g]
  <2>0. /\ loop[g] = "iterating" /\ buffer[g] = <<>> /\ ~open[g]
        /\ loop' = [loop EXCEPT ![g] = "paused"]
        /\ failed' = [failed EXCEPT ![g] = FALSE]
        /\ UNCHANGED <<alive, closes, current, open, buffer, taken, server, busy, nats, handled, stream>>
    BY <1>1 DEF IteratorEnds
  <2>1. TypeInv'
    BY <2>0 DEF IInv, TypeInv, TypeOK, server, nats
  <2>2. loop'[g] = "paused" /\ \A h \in Loops : h # g => loop'[h] = loop[h]
    BY <2>0 DEF IInv, TypeInv, TypeOK
  <2>3. LoopInv(g)'
    BY <2>0, <2>2, LoopEnds DEF IInv, nats
  <2>4. \A h \in Loops : h # g => LoopInv(h)'
    BY <2>0, <2>2, LoopKept DEF IInv, nats, Busy
  <2>5. PullsAlone'
    BY <2>0, <2>2, PullsKept DEF IInv, server, Pulls
  <2> QED
    BY <2>0, <2>1, <2>3, <2>4, <2>5, HandledKept DEF IInv
<1>2. CASE ~failed[g]
  BY <1>2, RestartStep DEF IteratorEnds, IInv, TypeInv, TypeOK
<1> QED
  BY <1>1, <1>2

(* The pause after a failure is over. *)
LEMMA PauseEndsStep == ASSUME IInv, NEW g \in Loops, PauseEnds(g) PROVE IInv'
<1>1. buffer[g] = <<>> /\ ~open[g] /\ loop[g] = "paused"
  BY DEF IInv, LoopInv, TakenAtLock, PauseEnds
<1> QED
  BY <1>1, RestartStep DEF PauseEnds, IInv, TypeInv, TypeOK

(* The handler has ended: its slot goes to the delivery that waits for one. *)
LEMMA RespondStep == ASSUME IInv, NEW b \in busy, NEW kind \in Kinds, Respond(b, kind) PROVE IInv'
<1> DEFINE g == b.loop
<1>0. /\ g \in Loops /\ b.delivery.msg \in Messages
      /\ busy' = busy \ {b} /\ current' = [current EXCEPT ![g] = @ - 1]
      /\ loop' = [loop EXCEPT ![g] = IF loop[g] = "waiting" THEN "granted" ELSE loop[g]]
      /\ UNCHANGED <<alive, closes, open, failed, buffer, taken, server, stored, count, values, early>>
  BY DEF IInv, TypeInv, TypeOK, Deliveries, Respond, Unlock
<1>1. /\ IsFiniteSet(busy') /\ Running(g)' = Running(g) - 1 /\ Running(g) > 0 /\ Running(g) \in Nat
      /\ \A h \in Loops : h # g => Busy(h)' = Busy(h)
  BY <1>0, BusyRemoved, BusyFinite DEF IInv
<1>2. /\ current[g] \in Int /\ current'[g] = current[g] - 1 /\ early'[g] = early[g]
      /\ loop'[g] = IF loop[g] = "waiting" THEN "granted" ELSE loop[g]
      /\ \A h \in Loops : h # g => loop'[h] = loop[h] /\ current'[h] = current[h]
  BY <1>0 DEF IInv, TypeInv, TypeOK
<1>3. TypeInv'
  <2>1. handled' \subseteq Messages /\ sent' \subseteq [msg : Messages, kind : Kinds]
    BY <1>0 DEF IInv, TypeInv, TypeOK, Respond, Acknowledges
  <2>2. current' \in [Loops -> Int]
    BY <1>0 DEF IInv, TypeInv, TypeOK
  <2>3. loop' \in [Loops -> {"ended", "consuming", "iterating", "waiting", "granted", "paused"}]
    BY <1>0, <1>2 DEF IInv, TypeInv, TypeOK
  <2> QED
    BY <1>0, <1>1, <2>1, <2>2, <2>3 DEF IInv, TypeInv, TypeOK, server
<1>4. LoopInv(g)'
  <2>1. SlotsCounted(g)'
    BY <1>0, <1>1, <1>2, LimitsAssumption DEF IInv, LoopInv, SlotsCounted
  <2>2. TakenAtLock(g)'
    BY <1>0, <1>2 DEF IInv, LoopInv, TakenAtLock
  <2>3. Busy(g)' \subseteq Busy(g)
    BY <1>0 DEF Busy
  <2>4. DeliveredOnce(g)'
    BY <1>0, <2>3 DEF IInv, LoopInv, DeliveredOnce
  <2> QED
    BY <2>1, <2>2, <2>4 DEF LoopInv
<1>5. \A h \in Loops : h # g => LoopInv(h)'
  BY <1>0, <1>1, <1>2, LoopKept DEF IInv
<1>6. PullsAlone'
  BY <1>0, <1>2, PullsKept DEF IInv, server, Pulls
<1>7. HandledFirst'
  BY <1>0 DEF IInv, HandledFirst, AckedWasHandled, Streamed, Respond, Acknowledges
<1> QED
  BY <1>0, <1>3, <1>4, <1>5, <1>6, <1>7 DEF IInv

(* What a packet before the last one adds to what the handlers have given. *)
LEMMA ValueGiven ==
    ASSUME IInv, NEW b \in busy, NEW kind \in Kinds, StreamValue(b, kind)
    PROVE  /\ values' \in [Deliveries -> Nat] /\ b.delivery.msg \in Messages
           /\ Streamed' = Streamed \cup {b.delivery.msg}
<1>1. b.delivery \in Deliveries /\ b.delivery.msg \in Messages
  BY DEF IInv, TypeInv, TypeOK, Deliveries
<1>2. values \in [Deliveries -> Nat] /\ values' = [values EXCEPT ![b.delivery] = values[b.delivery] + 1]
  BY DEF IInv, TypeInv, TypeOK, StreamValue
<1>3. {e \in Deliveries : values'[e] > 0} = {e \in Deliveries : values[e] > 0} \cup {b.delivery}
  BY <1>1, <1>2
<1>4. values' \in [Deliveries -> Nat]
  BY <1>1, <1>2
<1> QED
  BY <1>1, <1>3, <1>4 DEF Streamed

(* The handler goes on after a packet: its slot goes to the delivery that waits for one
   all the same, and is counted as given back early. *)
LEMMA StreamValueStep == ASSUME IInv, NEW b \in busy, NEW kind \in Kinds, StreamValue(b, kind) PROVE IInv'
<1> DEFINE g == b.loop
<1>0. /\ g \in Loops /\ current' = [current EXCEPT ![g] = @ - 1] /\ early' = [early EXCEPT ![g] = @ + 1]
      /\ loop' = [loop EXCEPT ![g] = IF loop[g] = "waiting" THEN "granted" ELSE loop[g]]
      /\ UNCHANGED <<alive, closes, open, failed, buffer, taken, server, busy, stored, count, handled>>
  BY DEF IInv, TypeInv, TypeOK, StreamValue, Unlock
<1>1. /\ \A h \in Loops : Busy(h)' = Busy(h) /\ Running(h)' = Running(h)
      /\ b \in Busy(g) /\ Running(g) # 0 /\ Running(g) \in Nat
  BY <1>0, BusyFinite, BusyEmpty DEF IInv, Busy, Running
<1>2. /\ current[g] \in Int /\ current'[g] = current[g] - 1 /\ early[g] \in Nat /\ early'[g] = early[g] + 1
      /\ loop'[g] = IF loop[g] = "waiting" THEN "granted" ELSE loop[g]
      /\ \A h \in Loops : h # g => loop'[h] = loop[h] /\ current'[h] = current[h] /\ early'[h] = early[h]
  BY <1>0 DEF IInv, TypeInv, TypeOK
<1>3. TypeInv'
  <2>0. [msg |-> b.delivery.msg, kind |-> kind] \in [msg : Messages, kind : Kinds]
    BY ValueGiven
  <2>1. sent' \subseteq [msg : Messages, kind : Kinds]
    BY <2>0 DEF IInv, TypeInv, TypeOK, StreamValue, Acknowledges
  <2>2. current' \in [Loops -> Int] /\ early' \in [Loops -> Nat]
    BY <1>0 DEF IInv, TypeInv, TypeOK
  <2>3. loop' \in [Loops -> {"ended", "consuming", "iterating", "waiting", "granted", "paused"}]
    BY <1>0, <1>2 DEF IInv, TypeInv, TypeOK
  <2> QED
    BY <1>0, <2>1, <2>2, <2>3, ValueGiven DEF IInv, TypeInv, TypeOK, server
<1>4. LoopInv(g)'
  <2>0. Running(g)' = Running(g) /\ SlotsCounted(g)
    BY <1>0, <1>1 DEF IInv, LoopInv
  <2> HIDE DEF g
  <2>1. SlotsCounted(g)'
    BY <1>1, <1>2, <2>0, LimitsAssumption DEF SlotsCounted
  <2>2. TakenAtLock(g)'
    BY <1>0, <1>2 DEF IInv, LoopInv, TakenAtLock
  <2>3. DeliveredOnce(g)'
    BY <1>0, <1>1 DEF IInv, LoopInv, DeliveredOnce
  <2> QED
    BY <2>1, <2>2, <2>3 DEF LoopInv
<1>5. \A h \in Loops : h # g => LoopInv(h)'
  BY <1>0, <1>1, <1>2, LoopKept DEF IInv
<1>6. PullsAlone'
  BY <1>0, <1>2, PullsKept DEF IInv, server, Pulls
<1>7. HandledFirst'
  <2>1. Streamed' = Streamed \cup {b.delivery.msg} /\ handled' = handled /\ stored' = stored
    BY <1>0, ValueGiven
  <2>2. sent' \subseteq sent \cup {[msg |-> b.delivery.msg, kind |-> kind]}
    BY DEF StreamValue, Acknowledges
  <2>3. \A a \in sent' : a.kind = "ack" => a.msg \in handled \cup Streamed \cup {b.delivery.msg}
    BY <2>2 DEF IInv, HandledFirst
  <2> QED
    BY <2>1, <2>3 DEF IInv, HandledFirst, AckedWasHandled
<1> QED
  BY <1>3, <1>4, <1>5, <1>6, <1>7 DEF IInv

-----------------------------------------------------------------------------
(* Every operation of the server, and of NATS, keeps the invariant.        *)

(* Iterators stop, connections close and acknowledgements are lost or arrive: the loops,
   their mutexes and their messages are as they were. *)
LEMMA LoopsKept ==
    ASSUME IInv, UNCHANGED <<loop, current, early, taken, buffer, busy, count>>, \A g \in Loops : open'[g] => open[g]
    PROVE  \A g \in Loops : LoopInv(g)'
  BY LoopKept DEF IInv, Busy

(* close(), up to its wait. *)
LEMMA CloseStep == ASSUME IInv, Close PROVE IInv'
<1>1. TypeInv'
  BY DEF IInv, TypeInv, TypeOK, Close, StopIterator, nats
<1>2. \A g \in Loops : LoopInv(g)'
  BY LoopsKept DEF Close, StopIterator, nats
<1>3. PullsAlone'
  BY DEF IInv, PullsAlone, Close, Pulls
<1> QED
  BY <1>1, <1>2, <1>3, HandledKept DEF IInv, Close

(* The connection is closed, by close() or by nats.js. *)
LEMMA DisconnectedStep == ASSUME IInv, CloseEnds \/ CloseForGood PROVE IInv'
<1>1. TypeInv'
  BY DEF IInv, TypeInv, TypeOK, CloseEnds, CloseForGood, Disconnected, Release
<1>2. \A g \in Loops : LoopInv(g)'
  BY LoopsKept DEF CloseEnds, CloseForGood, Disconnected
<1>3. PullsAlone'
  BY DEF IInv, PullsAlone, CloseEnds, CloseForGood, Disconnected, Release, Pulls
<1>4. HandledFirst'
  BY DEF IInv, HandledFirst, AckedWasHandled, Streamed, CloseEnds, CloseForGood, Disconnected
<1> QED
  BY <1>1, <1>2, <1>3, <1>4 DEF IInv

(* reconnect() forgets a connection that is closed. *)
LEMMA ReconnectStep == ASSUME IInv, Reconnect PROVE IInv'
<1>1. TypeInv'
  BY DEF IInv, TypeInv, TypeOK, Reconnect, StopIterator, Release, nats
<1>2. \A g \in Loops : LoopInv(g)'
  BY LoopsKept DEF Reconnect, StopIterator, nats
<1>3. PullsAlone'
  BY DEF IInv, PullsAlone, Reconnect, Release, Pulls
<1> QED
  BY <1>1, <1>2, <1>3, HandledKept DEF IInv, Reconnect

(* NATS delivers a message: as often as this, for the first time. *)
LEMMA DeliverStep == ASSUME IInv, NEW g \in Loops, NEW m \in Messages, Deliver(g, m) PROVE IInv'
<1> USE LimitsAssumption
<1> DEFINE d == [msg |-> m, n |-> count[m] + 1]
<1>0. /\ d \in Deliveries /\ buffer[g] \in Seq(Deliveries) /\ count[m] \in Nat /\ count[m] < MaxDeliver
      /\ count' = [count EXCEPT ![m] = count[m] + 1] /\ buffer' = [buffer EXCEPT ![g] = Append(buffer[g], d)]
      /\ stored' = [stored EXCEPT ![m] = "out"] /\ open[g]
      /\ UNCHANGED <<loop, alive, closes, open, failed, current, taken, server, busy, sent, handled, stream>>
  <2>1. count[m] \in 0 .. MaxDeliver /\ count[m] < MaxDeliver
    BY DEF IInv, TypeInv, TypeOK, Deliver
  <2>2. d \in Deliveries /\ count[m] \in Nat
    BY <2>1 DEF Deliveries
  <2> QED
    BY <2>1, <2>2 DEF IInv, TypeInv, TypeOK, Deliver
<1>1. TypeInv'
  <2>1. \A h \in Loops : buffer'[h] \in Seq(Deliveries)
    BY <1>0, AppendProperties DEF IInv, TypeInv, TypeOK
  <2>2. count' \in [Messages -> 0 .. MaxDeliver]
    BY <1>0 DEF IInv, TypeInv, TypeOK
  <2> QED
    BY <1>0, <2>1, <2>2 DEF IInv, TypeInv, TypeOK, server
<1>2. count' \in [Messages -> Nat] /\ \A k \in Messages : count[k] <= count'[k]
  BY <1>0 DEF IInv, TypeInv, TypeOK
<1>3. ASSUME NEW h \in Loops, h # g PROVE LoopInv(h)'
  BY <1>0, <1>2, <1>3, LoopBeside DEF IInv, TypeInv, TypeOK, Busy
<1>4. LoopInv(g)'
  <2>1. Busy(g)' = Busy(g) /\ Running(g)' = Running(g)
    BY <1>0 DEF Busy, Running
  <2>2. SlotsCounted(g)' /\ TakenAtLock(g)'
    BY <1>0, <2>1 DEF IInv, LoopInv, SlotsCounted, TakenAtLock
  <2>3. DeliveredOnce(g)'
    <3>1. /\ buffer'[g] = Append(buffer[g], d) /\ Len(buffer'[g]) = Len(buffer[g]) + 1
          /\ \A i \in 1 .. Len(buffer[g]) : buffer'[g][i] = buffer[g][i]
          /\ buffer'[g][Len(buffer[g]) + 1] = d /\ Len(buffer[g]) \in Nat
      BY <1>0, AppendProperties, LenProperties DEF IInv, TypeInv, TypeOK
    <3>2. \A e \in Deliveries : e.msg \in Messages /\ e.n \in Nat /\ (e.n <= count[e.msg] => e # d /\ e.n <= count'[e.msg])
      BY <1>0, <1>2 DEF IInv, TypeInv, TypeOK, Deliveries
    <3>3. /\ \A i \in 1 .. Len(buffer[g]) : buffer[g][i] \in Deliveries
          /\ taken[g] # <<>> => taken[g] \in Deliveries
          /\ \A b \in Busy(g) : b.delivery \in Deliveries
      BY <1>0, ElementOfSeq DEF IInv, TypeInv, TypeOK, Busy
    <3>4. d.n <= count'[d.msg]
      BY <1>0 DEF IInv, TypeInv, TypeOK
    <3>5. \A i \in 1 .. Len(buffer'[g]) : i \in 1 .. Len(buffer[g]) \/ i = Len(buffer[g]) + 1
      BY <3>1
    <3>6. DeliveredOnce(g)
      BY DEF IInv, LoopInv
    <3>7. /\ \A i \in 1 .. Len(buffer[g]) : buffer[g][i] # d
          /\ taken[g] # <<>> => taken[g] # d
          /\ \A b \in Busy(g) : b.delivery # d
      BY <3>2, <3>3, <3>6 DEF DeliveredOnce
    <3>8. \A i \in 1 .. Len(buffer'[g]) :
             /\ buffer'[g][i].n <= count'[buffer'[g][i].msg]
             /\ \A j \in 1 .. Len(buffer'[g]) : buffer'[g][i] = buffer'[g][j] => i = j
      BY <3>1, <3>2, <3>3, <3>4, <3>5, <3>6, <3>7 DEF DeliveredOnce
    <3>9. taken'[g] # <<>> =>
             /\ taken'[g].n <= count'[taken'[g].msg]
             /\ \A i \in 1 .. Len(buffer'[g]) : buffer'[g][i] # taken'[g]
      BY <1>0, <3>1, <3>2, <3>3, <3>5, <3>6, <3>7 DEF DeliveredOnce
    <3>10. \A b \in Busy(g)' :
             /\ b.delivery.n <= count'[b.delivery.msg]
             /\ b.delivery # taken'[g]
             /\ \A i \in 1 .. Len(buffer'[g]) : buffer'[g][i] # b.delivery
      BY <1>0, <2>1, <3>1, <3>2, <3>3, <3>5, <3>6, <3>7 DEF DeliveredOnce
    <3> QED
      BY <3>8, <3>9, <3>10 DEF DeliveredOnce
  <2> QED
    BY <2>2, <2>3 DEF LoopInv
<1>5. PullsAlone'
  BY <1>0, PullsKept DEF IInv, server, Pulls
<1>6. HandledFirst'
  BY <1>0 DEF IInv, TypeInv, TypeOK, HandledFirst, AckedWasHandled, Streamed
<1> QED
  BY <1>1, <1>3, <1>4, <1>5, <1>6 DEF IInv

(* ack_wait ends: NATS may deliver the message again. *)
LEMMA AckWaitStep == ASSUME IInv, NEW m \in Messages, AckWaitEnds(m) PROVE IInv'
<1>1. TypeInv'
  BY DEF IInv, TypeInv, TypeOK, AckWaitEnds, loops, server
<1>2. \A g \in Loops : LoopInv(g)'
  BY LoopsKept DEF AckWaitEnds, loops
<1>3. PullsAlone'
  BY DEF IInv, PullsAlone, AckWaitEnds, loops, server, Pulls
<1>4. HandledFirst'
  BY DEF IInv, TypeInv, TypeOK, HandledFirst, AckedWasHandled, Streamed, AckWaitEnds
<1> QED
  BY <1>1, <1>2, <1>3, <1>4 DEF IInv

(* An acknowledgement reaches NATS. *)
LEMMA AcknowledgedStep == ASSUME IInv, NEW a \in sent, Acknowledged(a) PROVE IInv'
<1>0. a.msg \in Messages /\ a.kind \in {"ack", "nak", "term"}
  BY DEF IInv, TypeInv, TypeOK, Kinds
<1>1. /\ stored' \in [Messages -> {"ready", "out", "acked", "termed"}]
      /\ \A m \in Messages : stored'[m] = "acked" => stored[m] = "acked" \/ (m = a.msg /\ a.kind = "ack")
  BY <1>0 DEF IInv, TypeInv, TypeOK, Acknowledged
<1>2. TypeInv'
  BY <1>1 DEF IInv, TypeInv, TypeOK, Acknowledged, loops, server
<1>3. \A g \in Loops : LoopInv(g)'
  BY LoopsKept DEF Acknowledged, loops
<1>4. PullsAlone'
  BY DEF IInv, PullsAlone, Acknowledged, loops, server, Pulls
<1>5. HandledFirst'
  BY <1>1 DEF IInv, HandledFirst, AckedWasHandled, Streamed, Acknowledged
<1> QED
  BY <1>2, <1>3, <1>4, <1>5 DEF IInv

(* The iterator of a loop fails. *)
LEMMA IteratorFailsStep == ASSUME IInv, NEW g \in Loops, IteratorFails(g) PROVE IInv'
<1>1. TypeInv'
  BY DEF IInv, TypeInv, TypeOK, IteratorFails, server, nats
<1>2. \A h \in Loops : LoopInv(h)'
  BY LoopsKept DEF IInv, TypeInv, TypeOK, IteratorFails, nats
<1>3. PullsAlone'
  BY PullsKept DEF IInv, IteratorFails, server, Pulls
<1> QED
  BY <1>1, <1>2, <1>3, HandledKept DEF IInv, IteratorFails

-----------------------------------------------------------------------------
(* The theorems.                                                           *)

(* Before the first listen() there is no loop and no delivery. *)
LEMMA InitInv == Init => IInv
<1> SUFFICES ASSUME Init PROVE IInv
  OBVIOUS
<1>1. TypeInv
  <2>1. <<>> \in Seq(Deliveries) /\ 0 \in 0 .. MaxDeliver
    BY LimitsAssumption
  <2>2. values \in [Deliveries -> Nat] /\ early \in [Loops -> Nat] /\ current \in [Loops -> Int]
    BY DEF Init
  <2> QED
    BY <2>1, <2>2, FS_EmptySet DEF Init, TypeInv, TypeOK
<1>2. ASSUME NEW g \in Loops PROVE LoopInv(g)
  <2>1. Busy(g) = {} /\ Running(g) = 0
    BY <1>1, BusyEmpty DEF Init, Busy
  <2> QED
    BY <2>1, LimitsAssumption DEF Init, LoopInv, SlotsCounted, TakenAtLock, DeliveredOnce
<1>3. PullsAlone /\ HandledFirst
  BY DEF Init, PullsAlone, Pulls, HandledFirst, AckedWasHandled
<1> QED
  BY <1>1, <1>2, <1>3 DEF IInv

(* Every step of the consumer keeps the invariant. *)
LEMMA StepInv == IInv /\ [Next]_vars => IInv'
<1> SUFFICES ASSUME IInv, [Next]_vars PROVE IInv'
  OBVIOUS
<1>1. CASE UNCHANGED vars
  <2>1. TypeInv'
    BY <1>1 DEF IInv, TypeInv, TypeOK, vars, loops, server, nats
  <2>2. \A g \in Loops : LoopInv(g)'
    BY <1>1, LoopsKept DEF vars, loops, nats
  <2>3. PullsAlone' /\ HandledFirst'
    BY <1>1, PullsKept, HandledKept DEF IInv, vars, loops, server, Pulls
  <2> QED
    BY <2>1, <2>2, <2>3 DEF IInv
<1> QED
  BY <1>1, BindStep, ConsumeOkStep, ConsumeFailsStep, TakeNextStep, ProceedStep, IteratorEndsStep, PauseEndsStep,
     IteratorFailsStep, DeliverStep, RespondStep, StreamValueStep, CloseStep, DisconnectedStep, ReconnectStep,
     AckWaitStep, AcknowledgedStep DEF Next

(* The inductive invariant of the consumer. *)
THEOREM Invariance == Spec => []IInv
  BY InitInv, StepInv, PTL DEF Spec

(* The types of the consumer's state.  mutex.current, a counter that nothing guards, is
   negative only by the slots that streams have given back early: without streams never. *)
THEOREM TypeCorrect == Spec => [](TypeOK /\ \A g \in Loops : current[g] + early[g] \in Nat)
<1>1. IInv => TypeOK /\ \A g \in Loops : current[g] + early[g] \in Nat
  <2> SUFFICES ASSUME IInv, NEW g \in Loops PROVE current[g] + early[g] \in Nat
    BY DEF IInv, TypeInv
  <2>1. loop[g] \in {"ended", "consuming", "iterating", "waiting", "granted", "paused"} /\ current[g] \in Int
    BY DEF IInv, TypeInv, TypeOK
  <2>2. Running(g) \in Nat /\ SlotsCounted(g)
    BY BusyFinite DEF IInv, LoopInv
  <2> QED
    BY <2>1, <2>2 DEF SlotsCounted
<1> QED
  BY Invariance, <1>1, PTL

(* mutex.unlock() is called once for every mutex.lock(), and once more for every packet of
   a stream before its last, on every path: the mutex counts the messages in processing and
   the one that the loop has taken, less the slots that streams have given back early. *)
THEOREM SlotsBalance == Spec => []MutexBalanced
<1>1. IInv => MutexBalanced
  <2> SUFFICES ASSUME IInv, NEW g \in Loops, loop[g] \in {"iterating", "waiting", "granted", "paused"}
               PROVE  current[g] = Cardinality(Busy(g)) + (IF taken[g] = <<>> THEN 0 ELSE 1) - early[g]
    BY DEF MutexBalanced
  <2>1. Running(g) \in Nat /\ SlotsCounted(g) /\ TakenAtLock(g)
    BY BusyFinite DEF IInv, LoopInv
  <2> QED
    BY <2>1 DEF SlotsCounted, TakenAtLock, Running
<1> QED
  BY Invariance, <1>1, PTL

(* A loop runs max_handlers handlers at most, and one more for every slot that a stream has
   given back early; it waits only while it runs as many. *)
THEOREM HandlersLimited == Spec => []LoopLimit
<1>1. IInv => LoopLimit
  BY DEF IInv, LoopInv, SlotsCounted, LoopLimit, Running
<1> QED
  BY Invariance, <1>1, PTL

(* Neither a restart nor a reconnect leaves a second loop that pulls. *)
THEOREM NoSecondLoop == Spec => []OneLoopPulls
<1>1. IInv => OneLoopPulls
  <2> SUFFICES ASSUME IInv PROVE OneLoopPulls
    OBVIOUS
  <2> DEFINE pulling == {g \in Loops : alive[g] /\ ~closes[g] /\ loop[g] # "ended"}
  <2>1. pulling = {} \/ \E g \in pulling : pulling = {g}
    BY DEF IInv, PullsAlone, Pulls
  <2>2. Cardinality(pulling) \in {0, 1}
    BY <2>1, FS_EmptySet, FS_Singleton
  <2> QED
    BY <2>2 DEF OneLoopPulls
<1> QED
  BY Invariance, <1>1, PTL

(* Only a message that a handler has completed, or has given the first value of a stream of,
   is removed from the stream by an ack. *)
THEOREM AckFollowsHandler == Spec => []AckedWasHandled
<1>1. IInv => AckedWasHandled
  BY DEF IInv, HandledFirst
<1> QED
  BY Invariance, <1>1, PTL

(* No message is taken for processing once close() has come. *)
THEOREM NoneTakenAfterClose == Spec => NoHandlerAfterClose
<1>1. IInv /\ [Next]_vars => [\A b \in busy' \ busy : ~closing]_vars
  <2> SUFFICES ASSUME IInv, Next, NEW b \in busy' \ busy PROVE ~closing
    OBVIOUS
  <2>1. \E g \in Loops : Proceed(g) /\ StartsHandler(g)
    <3>1. ASSUME NEW g \in Loops,
                 \/ Bind(g) \/ ConsumeOk(g) \/ ConsumeFails(g) \/ TakeNext(g) \/ IteratorEnds(g)
                 \/ PauseEnds(g) \/ IteratorFails(g) \/ \E m \in Messages : Deliver(g, m)
          PROVE  busy' = busy
      BY <3>1 DEF Bind, ConsumeOk, ConsumeFails, TakeNext, IteratorEnds, PauseEnds, IteratorFails, Deliver
    <3>2. ASSUME NEW c \in busy, NEW kind \in Kinds, Respond(c, kind) \/ StreamValue(c, kind)
          PROVE  busy' \subseteq busy
      BY <3>2 DEF Respond, StreamValue
    <3>3. ASSUME Close \/ CloseEnds \/ CloseForGood \/ Reconnect \/ (\E m \in Messages : AckWaitEnds(m))
                 \/ \E a \in sent : Acknowledged(a)
          PROVE  busy' = busy
      BY <3>3 DEF Close, CloseEnds, CloseForGood, Reconnect, AckWaitEnds, Acknowledged
    <3>4. ASSUME NEW g \in Loops, Proceed(g), ~StartsHandler(g) PROVE busy' = busy
      BY <3>4 DEF Proceed, EndsByClose, Abandons
    <3> QED
      BY <3>1, <3>2, <3>3, <3>4 DEF Next
  <2>2. PICK g \in Loops : alive[g] /\ ~closes[g] /\ loop[g] = "granted"
    BY <2>1 DEF Proceed, StartsHandler
  <2> QED
    BY <2>2 DEF IInv, PullsAlone, Pulls
<1> QED
  BY Invariance, <1>1, PTL DEF Spec, NoHandlerAfterClose

-----------------------------------------------------------------------------
(* The refinement of DeliveryPromise.                                      *)

Waiting == {d \in Deliveries : \E g \in Loops : Waits(g, d)}

Processing == {b.delivery : b \in busy}

Holds(g, d) == Waits(g, d) \/ \E b \in busy : b.loop = g /\ b.delivery = d

(* A delivery is of one loop. *)
HeldOnce == \A g, h \in Loops, d \in Deliveries : Holds(g, d) /\ Holds(h, d) => g = h

IsOver(m, n) == n \in 1 .. count[m] /\ [msg |-> m, n |-> n] \notin Waiting \cup Processing

(* An acknowledgement is sent when a delivery of the message is over, or a stream has begun. *)
AnswersOver == \A a \in sent : a.msg \in Streamed \/ \E n \in 1 .. MaxDeliver : IsOver(a.msg, n)

PromiseInv == HeldOnce /\ AnswersOver

(* A delivery that a loop holds has been made. *)
LEMMA HeldIsMade ==
    ASSUME IInv, NEW g \in Loops, NEW d \in Deliveries, Holds(g, d)
    PROVE  d.n \in 1 .. count[d.msg]
<1>1. d.n <= count[d.msg]
  <2>1. DeliveredOnce(g)
    BY DEF IInv, LoopInv
  <2>2. CASE Waits(g, d)
    BY <2>1, <2>2, DeliveryIsSome DEF DeliveredOnce, Waits
  <2>3. CASE \E b \in busy : b.loop = g /\ b.delivery = d
    BY <2>1, <2>3 DEF DeliveredOnce, Busy
  <2> QED
    BY <2>2, <2>3 DEF Holds
<1>2. d.n \in 1 .. MaxDeliver /\ d.msg \in Messages
  BY DEF Deliveries
<1>3. count[d.msg] \in 0 .. MaxDeliver
  BY <1>2 DEF IInv, TypeInv, TypeOK
<1> QED
  BY <1>1, <1>2, <1>3, LimitsAssumption

(* A delivery in processing does not wait in its loop any more. *)
LEMMA BusyWaitsNot ==
    ASSUME IInv, NEW b \in busy
    PROVE  b.loop \in Loops /\ b.delivery \in Deliveries /\ ~Waits(b.loop, b.delivery)
<1>1. b.loop \in Loops /\ b.delivery \in Deliveries /\ b \in Busy(b.loop)
  BY DEF IInv, TypeInv, TypeOK, Busy
<1>2. DeliveredOnce(b.loop)
  BY <1>1 DEF IInv, LoopInv
<1> QED
  BY <1>1, <1>2 DEF DeliveredOnce, Waits

(* Nor anywhere else. *)
LEMMA WaitingOrProcessing == ASSUME IInv, HeldOnce PROVE Waiting \cap Processing = {}
<1> SUFFICES ASSUME NEW b \in busy, b.delivery \in Waiting PROVE FALSE
  BY DEF Processing
<1>1. b.loop \in Loops /\ b.delivery \in Deliveries /\ ~Waits(b.loop, b.delivery)
  BY BusyWaitsNot
<1>2. PICK g \in Loops : Waits(g, b.delivery)
  BY DEF Waiting
<1>3. g = b.loop
  BY <1>1, <1>2 DEF HeldOnce, Holds
<1> QED
  BY <1>1, <1>2, <1>3

(* A delivery that is over stays over, since it is neither held again nor forgotten. *)
LEMMA OverStays ==
    ASSUME IInv, count' \in [Messages -> 0 .. MaxDeliver], \A m \in Messages : count[m] <= count'[m],
           \A d \in Waiting' \cup Processing' : d \in Waiting \cup Processing \/ d.n > count[d.msg],
           NEW m \in Messages, NEW n, IsOver(m, n)
    PROVE  n \in 1 .. MaxDeliver /\ IsOver(m, n)'
<1> DEFINE d == [msg |-> m, n |-> n]
<1>1. n \in 1 .. count[m] /\ count[m] \in 0 .. MaxDeliver /\ count'[m] \in 0 .. MaxDeliver /\ count[m] <= count'[m]
  BY DEF IInv, TypeInv, TypeOK, IsOver
<1>2. n \in 1 .. MaxDeliver /\ n \in 1 .. count'[m] /\ ~(n > count[m])
  BY <1>1, LimitsAssumption
<1>3. d \notin Waiting \cup Processing /\ d.n = n /\ d.msg = m
  BY DEF IsOver
<1>4. d \notin Waiting' \cup Processing'
  BY <1>2, <1>3
<1> QED
  BY <1>2, <1>4 DEF IsOver

(* What a step of the consumer has to be, as NATS sees it. *)
PromiseStep == [Promise!Next]_<<stored, count, Waiting, Processing, handled, Streamed>>

(* A step that gives a loop no delivery and starts no handler keeps deliveries apart. *)
LEMMA HeldKept ==
    ASSUME IInv, PromiseInv, busy' \subseteq busy,
           \A g \in Loops, d \in Deliveries : Waits(g, d)' => Waits(g, d),
           UNCHANGED <<count, values>>, sent' \subseteq sent
    PROVE  /\ PromiseInv' /\ Waiting' \subseteq Waiting /\ Processing' \subseteq Processing
           /\ Streamed' = Streamed
<1>1. Waiting' \subseteq Waiting /\ Processing' \subseteq Processing
  BY DEF Waiting, Processing
<1>2. HeldOnce'
  BY DEF PromiseInv, HeldOnce, Holds
<1>3. count' \in [Messages -> 0 .. MaxDeliver] /\ \A m \in Messages : count[m] <= count'[m]
  BY LimitsAssumption DEF IInv, TypeInv, TypeOK
<1>4. \A m \in Messages : \A n : IsOver(m, n) => n \in 1 .. MaxDeliver /\ IsOver(m, n)'
  BY <1>1, <1>3, OverStays
<1>5. \A a \in sent : a.msg \in Messages
  BY DEF IInv, TypeInv, TypeOK
<1>6. Streamed' = Streamed
  BY DEF Streamed
<1>7. AnswersOver'
  BY <1>4, <1>5, <1>6 DEF PromiseInv, AnswersOver
<1> QED
  BY <1>1, <1>2, <1>6, <1>7 DEF PromiseInv

(* Loops, iterators and connections come and go: NATS sees nothing of it. *)
LEMMA UnseenStep ==
    ASSUME IInv, PromiseInv, UNCHANGED <<taken, buffer, busy, stored, count, handled, values>>, sent' \subseteq sent
    PROVE  PromiseInv' /\ PromiseStep
<1>1. \A g \in Loops, d \in Deliveries : Waits(g, d)' <=> Waits(g, d)
  BY DEF Waits
<1>2. Waiting' = Waiting /\ Processing' = Processing
  BY <1>1 DEF Waiting, Processing
<1>3. PromiseInv' /\ Streamed' = Streamed
  BY <1>1, HeldKept
<1> QED
  BY <1>2, <1>3 DEF PromiseStep

(* The loop takes the first delivery of its buffer: it waits on, at mutex.lock(). *)
LEMMA TakeNextSeen ==
    ASSUME IInv, PromiseInv, NEW g \in Loops, TakeNext(g)
    PROVE  PromiseInv' /\ PromiseStep
<1>0. /\ buffer[g] \in Seq(Deliveries) /\ buffer[g] # <<>> /\ taken[g] = <<>>
      /\ UNCHANGED <<busy, stored, count, sent, handled, values>>
  BY DEF IInv, TypeInv, TypeOK, LoopInv, TakenAtLock, TakeNext, nats
<1>1. ASSUME NEW h \in Loops, NEW d \in Deliveries PROVE Waits(h, d)' <=> Waits(h, d)
  <2>1. CASE h # g
    BY <2>1 DEF IInv, TypeInv, TypeOK, TakeNext, Waits
  <2>2. CASE h = g
    <3>1. taken'[g] = Head(buffer[g]) /\ buffer'[g] = Tail(buffer[g])
      BY DEF IInv, TypeInv, TypeOK, TakeNext
    <3>2. /\ Head(buffer[g]) = buffer[g][1] /\ 1 \in 1 .. Len(buffer[g])
          /\ Len(Tail(buffer[g])) = Len(buffer[g]) - 1 /\ Len(buffer[g]) \in Nat
          /\ \A i \in 1 .. Len(Tail(buffer[g])) : Tail(buffer[g])[i] = buffer[g][i + 1] /\ i + 1 \in 1 .. Len(buffer[g])
      BY <1>0, TakeHead, LenProperties
    <3>3. \A i \in 1 .. Len(buffer[g]) : i = 1 \/ (i - 1 \in 1 .. Len(Tail(buffer[g])) /\ (i - 1) + 1 = i)
      BY <3>2
    <3>4. d # <<>>
      BY DeliveryIsSome
    <3>5. ASSUME Waits(g, d) PROVE Waits(g, d)'
      <4>1. PICK i \in 1 .. Len(buffer[g]) : buffer[g][i] = d
        BY <1>0, <3>4, <3>5 DEF Waits
      <4>2. i # 1 => Tail(buffer[g])[i - 1] = d
        BY <3>2, <3>3, <4>1
      <4> QED
        BY <3>1, <3>2, <3>3, <4>1, <4>2 DEF Waits
    <3>6. ASSUME Waits(g, d)' PROVE Waits(g, d)
      BY <3>1, <3>2, <3>6 DEF Waits
    <3> QED
      BY <2>2, <3>5, <3>6
  <2> QED
    BY <2>1, <2>2
<1>2. Waiting' = Waiting /\ Processing' = Processing
  BY <1>0, <1>1 DEF Waiting, Processing
<1>3. PromiseInv' /\ Streamed' = Streamed
  BY <1>0, <1>1, HeldKept
<1> QED
  BY <1>0, <1>2, <1>3 DEF PromiseStep

(* The loop gives up what it has taken, and its buffer when close() has come. *)
LEMMA LoseSeen ==
    ASSUME IInv, PromiseInv, NEW g \in Loops, Proceed(g), EndsByClose(g) \/ Abandons(g)
    PROVE  PromiseInv' /\ PromiseStep
<1>0. UNCHANGED <<busy, stored, count, sent, handled, values>> /\ taken' = [taken EXCEPT ![g] = <<>>]
  BY DEF Proceed, EndsByClose, Abandons, nats
<1>1. \A h \in Loops : buffer'[h] = buffer[h] \/ buffer'[h] = <<>>
  BY DEF IInv, TypeInv, TypeOK, EndsByClose, Abandons
<1>2. ASSUME NEW h \in Loops, NEW d \in Deliveries, Waits(h, d)' PROVE Waits(h, d)
  <2>1. d # <<>> /\ (taken'[h] = taken[h] \/ taken'[h] = <<>>)
    BY <1>0, DeliveryIsSome DEF IInv, TypeInv, TypeOK
  <2>2. buffer'[h] = <<>> => ~ \E i \in 1 .. Len(buffer'[h]) : buffer'[h][i] = d
    OBVIOUS
  <2> QED
    BY <1>1, <1>2, <2>1, <2>2 DEF Waits
<1>3. PromiseInv' /\ Waiting' \subseteq Waiting /\ Streamed' = Streamed
  BY <1>0, <1>2, HeldKept
<1>4. Processing' = Processing
  BY <1>0 DEF Processing
<1>5. Waiting' \in SUBSET Waiting
  BY <1>3
<1>6. Promise!Lose
  BY <1>0, <1>3, <1>4, <1>5 DEF Promise!Lose, Waiting, Processing, Streamed
<1> QED
  BY <1>3, <1>6 DEF PromiseStep, Promise!Next

(* The handler of a delivery starts: no other loop has the delivery, nor has the buffer. *)
LEMMA StartSeen ==
    ASSUME IInv, PromiseInv, NEW g \in Loops, Proceed(g), StartsHandler(g)
    PROVE  PromiseInv' /\ PromiseStep
<1> DEFINE d == taken[g]
<1>0. /\ d \in Deliveries /\ taken' = [taken EXCEPT ![g] = <<>>]
      /\ UNCHANGED <<buffer, stored, count, sent, handled, values>>
      /\ busy' = busy \cup {[delivery |-> d, loop |-> g]}
  BY DEF IInv, TypeInv, TypeOK, LoopInv, TakenAtLock, Proceed, StartsHandler, nats
<1>1. Waits(g, d) /\ DeliveredOnce(g)
  BY DEF Waits, IInv, LoopInv
<1>2. ASSUME NEW h \in Loops, NEW e \in Deliveries
      PROVE  Waits(h, e)' <=> Waits(h, e) /\ e # d
  <2>1. CASE h # g
    <3>1. Waits(h, d) => FALSE
      BY <1>0, <1>1, <2>1 DEF PromiseInv, HeldOnce, Holds
    <3>2. taken'[h] = taken[h] /\ buffer'[h] = buffer[h]
      BY <1>0, <2>1 DEF IInv, TypeInv, TypeOK
    <3> QED
      BY <3>1, <3>2 DEF Waits
  <2>2. CASE h = g
    <3>1. taken'[g] = <<>> /\ buffer'[g] = buffer[g] /\ e # <<>> /\ d # <<>>
      BY <1>0, DeliveryIsSome DEF IInv, TypeInv, TypeOK
    <3>2. \A i \in 1 .. Len(buffer[g]) : buffer[g][i] # d
      BY <1>1, <3>1 DEF DeliveredOnce
    <3> QED
      BY <2>2, <3>1, <3>2 DEF Waits
  <2> QED
    BY <2>1, <2>2
<1>3. Waiting' = Waiting \ {d} /\ d \in Waiting
  BY <1>0, <1>1, <1>2 DEF Waiting
<1>4. Processing' = Processing \cup {d}
  <2> DEFINE c == [delivery |-> d, loop |-> g]
  <2>1. c.delivery = d /\ busy' = busy \cup {c}
    BY <1>0
  <2> HIDE DEF c, d
  <2> QED
    BY <2>1 DEF Processing
<1>s. Streamed' = Streamed
  BY <1>0 DEF Streamed
<1>5. HeldOnce'
  <2>1. ASSUME NEW h \in Loops, NEW e \in Deliveries, Holds(h, e)' PROVE Holds(h, e)
    BY <1>0, <1>1, <1>2, <2>1 DEF Holds
  <2> QED
    BY <2>1 DEF PromiseInv, HeldOnce
<1>6. AnswersOver'
  <2>1. count' \in [Messages -> 0 .. MaxDeliver] /\ \A m \in Messages : count[m] <= count'[m]
    BY <1>0, LimitsAssumption DEF IInv, TypeInv, TypeOK
  <2>2. Waiting' \cup Processing' \subseteq Waiting \cup Processing
    BY <1>3, <1>4
  <2>3. \A m \in Messages : \A n : IsOver(m, n) => n \in 1 .. MaxDeliver /\ IsOver(m, n)'
    BY <2>1, <2>2, OverStays
  <2>4. \A a \in sent : a.msg \in Messages
    BY DEF IInv, TypeInv, TypeOK
  <2> QED
    BY <1>0, <1>s, <2>3, <2>4 DEF PromiseInv, AnswersOver
<1> HIDE DEF d
<1>7. PICK e \in Waiting : e = d
  BY <1>3
<1>8. Promise!Next
  <2>1. Promise!Start(e)
    BY <1>0, <1>3, <1>4, <1>7, <1>s DEF Promise!Start, Waiting, Processing, Streamed
  <2> QED
    BY <2>1 DEF Promise!Next, Waiting
<1> QED
  BY <1>5, <1>6, <1>8 DEF PromiseInv, PromiseStep

(* A handler ends: the delivery is over, which is what its acknowledgement rests on. *)
LEMMA FinishSeen ==
    ASSUME IInv, PromiseInv, NEW b \in busy, NEW kind \in Kinds, Respond(b, kind)
    PROVE  PromiseInv' /\ PromiseStep
<1> DEFINE d == b.delivery
<1>0. /\ busy' = busy \ {b} /\ UNCHANGED <<taken, buffer, stored, count, values>>
      /\ handled' \in {handled, handled \cup {d.msg}}
      /\ sent' \subseteq sent \cup {[msg |-> d.msg, kind |-> kind]}
  BY DEF Respond, Acknowledges
<1>1. b.loop \in Loops /\ d \in Deliveries /\ d.msg \in Messages /\ d.n \in 1 .. MaxDeliver /\ ~Waits(b.loop, d)
  BY BusyWaitsNot DEF Deliveries
<1>2. \A g \in Loops, e \in Deliveries : Waits(g, e)' <=> Waits(g, e)
  BY <1>0 DEF Waits
<1>3. ASSUME NEW c \in busy, c # b PROVE c.delivery # d
  <2>1. ASSUME c.delivery = d PROVE FALSE
    <3>1. c.loop \in Loops /\ c.delivery \in Deliveries
      BY BusyWaitsNot
    <3>2. c.loop = b.loop
      BY <1>1, <2>1, <3>1 DEF PromiseInv, HeldOnce, Holds
    <3>3. b \in [delivery : Deliveries, loop : Loops] /\ c \in [delivery : Deliveries, loop : Loops]
      BY DEF IInv, TypeInv, TypeOK
    <3>4. b = [delivery |-> b.delivery, loop |-> b.loop] /\ c = [delivery |-> c.delivery, loop |-> c.loop]
      BY <3>3
    <3> HIDE DEF d
    <3>5. b.delivery = c.delivery
      BY <2>1 DEF d
    <3>6. b = c
      BY <3>2, <3>4, <3>5
    <3> QED
      BY <1>3, <3>6
  <2> QED
    BY <2>1
<1>4. Waiting' = Waiting
  BY <1>2 DEF Waiting
<1>5. Processing' = Processing \ {d} /\ d \in Processing
  BY <1>0, <1>3 DEF Processing
<1>6. d \notin Waiting
  BY <1>5, WaitingOrProcessing DEF PromiseInv
<1>7. IsOver(d.msg, d.n)'
  <2>1. d.n \in 1 .. count[d.msg]
    BY <1>1, HeldIsMade DEF Holds
  <2>2. d = [msg |-> d.msg, n |-> d.n]
    BY <1>1 DEF Deliveries
  <2> HIDE DEF d
  <2>3. [msg |-> d.msg, n |-> d.n] \notin Waiting' \cup Processing'
    BY <1>4, <1>5, <1>6, <2>2
  <2> QED
    BY <1>0, <2>1, <2>3 DEF IsOver
<1>s. Streamed' = Streamed
  BY <1>0 DEF Streamed
<1>8. HeldOnce'
  BY <1>0, <1>2 DEF PromiseInv, HeldOnce, Holds
<1>9. AnswersOver'
  <2>1. count' \in [Messages -> 0 .. MaxDeliver] /\ \A m \in Messages : count[m] <= count'[m]
    BY <1>0, LimitsAssumption DEF IInv, TypeInv, TypeOK
  <2>2. Waiting' \cup Processing' \subseteq Waiting \cup Processing
    BY <1>4, <1>5
  <2>3. \A m \in Messages : \A n : IsOver(m, n) => n \in 1 .. MaxDeliver /\ IsOver(m, n)'
    BY <2>1, <2>2, OverStays
  <2>4. ASSUME NEW a \in sent' PROVE a.msg \in Streamed' \/ \E n \in 1 .. MaxDeliver : IsOver(a.msg, n)'
    <3>1. CASE a \in sent
      <4>1. a.msg \in Messages
        BY <3>1 DEF IInv, TypeInv, TypeOK
      <4> QED
        BY <1>s, <2>3, <3>1, <4>1 DEF PromiseInv, AnswersOver
    <3>2. CASE a = [msg |-> d.msg, kind |-> kind]
      <4>1. a.msg = d.msg
        BY <3>2
      <4> QED
        BY <1>1, <1>7, <4>1
    <3> QED
      BY <1>0, <3>1, <3>2
  <2> QED
    BY <2>4 DEF AnswersOver
<1> HIDE DEF d
<1>10. Promise!Finish(d)
  BY <1>0, <1>4, <1>5, <1>s DEF Promise!Finish, Waiting, Processing, Streamed
<1>11. Promise!Next
  BY <1>5, <1>10 DEF Promise!Next, Processing
<1> QED
  BY <1>8, <1>9, <1>11 DEF PromiseInv, PromiseStep

(* A packet before the last one: from now on the message may be settled. *)
LEMMA ValueSeen ==
    ASSUME IInv, PromiseInv, NEW b \in busy, NEW kind \in Kinds, StreamValue(b, kind)
    PROVE  PromiseInv' /\ PromiseStep
<1> DEFINE d == b.delivery
<1>0. /\ UNCHANGED <<taken, buffer, busy, stored, count, handled>>
      /\ sent' \subseteq sent \cup {[msg |-> d.msg, kind |-> kind]}
  BY DEF StreamValue, Acknowledges
<1>1. \A g \in Loops, e \in Deliveries : Waits(g, e)' <=> Waits(g, e)
  BY <1>0 DEF Waits
<1>2. Waiting' = Waiting /\ Processing' = Processing /\ d \in Processing
  BY <1>0, <1>1 DEF Waiting, Processing
<1>3. Streamed' = Streamed \cup {d.msg}
  BY ValueGiven
<1>4. HeldOnce'
  BY <1>0, <1>1 DEF PromiseInv, HeldOnce, Holds
<1>5. AnswersOver'
  <2>1. \A m \in Messages : \A n : IsOver(m, n)' <=> IsOver(m, n)
    BY <1>0, <1>2 DEF IsOver
  <2>2. \A a \in sent : a.msg \in Messages
    BY DEF IInv, TypeInv, TypeOK
  <2>3. \A a \in sent' : a \in sent \/ a.msg = d.msg
    BY <1>0
  <2> QED
    BY <1>3, <2>1, <2>2, <2>3 DEF PromiseInv, AnswersOver
<1> HIDE DEF d
<1>6. Promise!Value(d)
  BY <1>0, <1>2, <1>3 DEF Promise!Value, Waiting, Processing, Streamed
<1>7. Promise!Next
  BY <1>2, <1>6 DEF Promise!Next, Processing
<1> QED
  BY <1>4, <1>5, <1>7 DEF PromiseInv, PromiseStep

(* NATS makes another delivery, which no loop has. *)
LEMMA DeliverSeen ==
    ASSUME IInv, PromiseInv, NEW g \in Loops, NEW m \in Messages, Deliver(g, m)
    PROVE  PromiseInv' /\ PromiseStep
<1> DEFINE d == [msg |-> m, n |-> count[m] + 1]
<1>0. /\ count[m] \in 0 .. MaxDeliver /\ count[m] < MaxDeliver /\ buffer[g] \in Seq(Deliveries)
      /\ stored[m] = "ready" /\ stored' = [stored EXCEPT ![m] = "out"]
      /\ count' = [count EXCEPT ![m] = count[m] + 1]
      /\ buffer' = [buffer EXCEPT ![g] = Append(buffer[g], d)]
      /\ UNCHANGED <<taken, busy, sent, handled, values>>
  BY DEF IInv, TypeInv, TypeOK, Deliver
<1>1. d \in Deliveries /\ d.msg = m /\ d.n = count[m] + 1 /\ d.n > count[d.msg]
  BY <1>0, LimitsAssumption DEF Deliveries
<1>2. \A h \in Loops : ~Holds(h, d)
  <2>1. ~(d.n \in 1 .. count[d.msg])
    BY <1>0, <1>1
  <2> HIDE DEF d
  <2> QED
    BY <1>1, <2>1, HeldIsMade
<1>3. ASSUME NEW h \in Loops, NEW e \in Deliveries
      PROVE  Waits(h, e)' <=> Waits(h, e) \/ (h = g /\ e = d)
  <2>1. CASE h # g
    BY <1>0, <2>1 DEF IInv, TypeInv, TypeOK, Waits
  <2>2. CASE h = g
    <3>1. /\ buffer'[g] = Append(buffer[g], d) /\ Len(buffer'[g]) = Len(buffer[g]) + 1
          /\ \A i \in 1 .. Len(buffer[g]) : buffer'[g][i] = buffer[g][i]
          /\ buffer'[g][Len(buffer[g]) + 1] = d /\ Len(buffer[g]) \in Nat
      BY <1>0, <1>1, AppendProperties, LenProperties DEF IInv, TypeInv, TypeOK
    <3>2. \A i \in 1 .. Len(buffer'[g]) : i \in 1 .. Len(buffer[g]) \/ i = Len(buffer[g]) + 1
      BY <3>1
    <3>3. \A i \in 1 .. Len(buffer[g]) : i \in 1 .. Len(buffer'[g])
      BY <3>1
    <3>4. Len(buffer[g]) + 1 \in 1 .. Len(buffer'[g])
      BY <3>1
    <3> HIDE DEF d
    <3>5. (\E i \in 1 .. Len(buffer'[g]) : buffer'[g][i] = e) <=> (\E i \in 1 .. Len(buffer[g]) : buffer[g][i] = e) \/ e = d
      BY <3>1, <3>2, <3>3, <3>4
    <3> QED
      BY <1>0, <2>2, <3>5 DEF Waits
  <2> QED
    BY <2>1, <2>2
<1> HIDE DEF d
<1>4. Waiting' = Waiting \cup {d}
  BY <1>1, <1>3 DEF Waiting
<1>5. Processing' = Processing
  BY <1>0 DEF Processing
<1>s. Streamed' = Streamed
  BY <1>0 DEF Streamed
<1>6. HeldOnce'
  <2>1. ASSUME NEW h \in Loops, NEW e \in Deliveries, Holds(h, e)' PROVE Holds(h, e) \/ (h = g /\ e = d)
    BY <1>0, <1>3, <2>1 DEF Holds
  <2> QED
    BY <1>2, <2>1 DEF PromiseInv, HeldOnce
<1>7. AnswersOver'
  <2>1. count' \in [Messages -> 0 .. MaxDeliver] /\ \A k \in Messages : count[k] <= count'[k]
    BY <1>0, LimitsAssumption DEF IInv, TypeInv, TypeOK
  <2>2. \A e \in Waiting' \cup Processing' : e \in Waiting \cup Processing \/ e.n > count[e.msg]
    BY <1>1, <1>4, <1>5
  <2>3. \A k \in Messages : \A n : IsOver(k, n) => n \in 1 .. MaxDeliver /\ IsOver(k, n)'
    BY <2>1, <2>2, OverStays
  <2>4. \A a \in sent : a.msg \in Messages
    BY DEF IInv, TypeInv, TypeOK
  <2> QED
    BY <1>0, <1>s, <2>3, <2>4 DEF PromiseInv, AnswersOver
<1>8. Promise!Deliver(m)
  BY <1>0, <1>4, <1>5, <1>s DEF Promise!Deliver, Waiting, Processing, Streamed, d
<1>9. Promise!Next
  BY <1>8 DEF Promise!Next
<1> QED
  BY <1>6, <1>7, <1>9 DEF PromiseInv, PromiseStep

(* ack_wait ends: the message is NATS's again. *)
LEMMA ReturnSeen ==
    ASSUME IInv, PromiseInv, NEW m \in Messages, AckWaitEnds(m)
    PROVE  PromiseInv' /\ PromiseStep
<1>0. /\ stored[m] = "out" /\ stored' = [stored EXCEPT ![m] = "ready"]
      /\ UNCHANGED <<taken, buffer, busy, count, sent, handled, values>>
  BY DEF AckWaitEnds, loops
<1>1. \A g \in Loops, d \in Deliveries : Waits(g, d)' <=> Waits(g, d)
  BY <1>0 DEF Waits
<1>2. Waiting' = Waiting /\ Processing' = Processing
  BY <1>0, <1>1 DEF Waiting, Processing
<1>s. Streamed' = Streamed
  BY <1>0 DEF Streamed
<1>3. Promise!Return(m)
  BY <1>0, <1>2, <1>s DEF Promise!Return, Waiting, Processing, Streamed
<1>4. Promise!Next
  BY <1>3 DEF Promise!Next
<1> QED
  BY <1>0, <1>1, <1>4, HeldKept DEF PromiseStep

(* An acknowledgement arrives: it settles the message, returns it or comes too late. *)
LEMMA SettleSeen ==
    ASSUME IInv, PromiseInv, NEW a \in sent, Acknowledged(a)
    PROVE  PromiseInv' /\ PromiseStep
<1> DEFINE m == a.msg
<1>0. /\ m \in Messages /\ a.kind \in {"ack", "nak", "term"} /\ sent' = sent \ {a}
      /\ stored[m] \in {"ready", "out", "acked", "termed"} /\ stored \in [Messages -> {"ready", "out", "acked", "termed"}]
      /\ UNCHANGED <<taken, buffer, busy, count, handled, values>>
  BY DEF IInv, TypeInv, TypeOK, Kinds, Acknowledged, loops
<1>1. \A g \in Loops, d \in Deliveries : Waits(g, d)' <=> Waits(g, d)
  BY <1>0 DEF Waits
<1>2. Waiting' = Waiting /\ Processing' = Processing
  BY <1>0, <1>1 DEF Waiting, Processing
<1>3. PromiseInv' /\ Streamed' = Streamed
  BY <1>0, <1>1, HeldKept
<1>4. m \in Streamed \/ \E n \in 1 .. MaxDeliver : Promise!IsOver(m, n)
  BY DEF PromiseInv, AnswersOver, IsOver, Promise!IsOver, Waiting, Processing
<1>5. a.kind = "ack" => m \in handled \cup Streamed
  BY DEF IInv, HandledFirst
<1>6. /\ stored[m] \in {"acked", "termed"} => stored' = [stored EXCEPT ![m] = stored[m]]
      /\ stored[m] \in {"ready", "out"} =>
            /\ a.kind = "ack" => stored' = [stored EXCEPT ![m] = "acked"]
            /\ a.kind = "term" => stored' = [stored EXCEPT ![m] = "termed"]
            /\ a.kind = "nak" => stored' = [stored EXCEPT ![m] = "ready"]
  BY DEF Acknowledged
<1> HIDE DEF m
<1>7. CASE stored[m] \in {"acked", "termed"} \/ (stored[m] = "ready" /\ a.kind = "nak")
  <2>1. stored' = stored
    BY <1>0, <1>6, <1>7
  <2> QED
    BY <1>0, <1>2, <1>3, <2>1 DEF PromiseStep
<1>8. CASE stored[m] = "out" /\ a.kind = "nak"
  <2>1. Promise!Return(m)
    BY <1>0, <1>2, <1>3, <1>6, <1>8 DEF Promise!Return, Waiting, Processing, Streamed
  <2>2. Promise!Next
    BY <1>0, <2>1 DEF Promise!Next
  <2> QED
    BY <1>3, <2>2 DEF PromiseStep
<1>9. CASE stored[m] \in {"ready", "out"} /\ a.kind # "nak"
  <2>1. /\ stored[m] \in {"ready", "out"}
        /\ \/ m \in handled \cup Streamed /\ stored' = [stored EXCEPT ![m] = "acked"]
           \/ stored' = [stored EXCEPT ![m] = "termed"]
    BY <1>0, <1>5, <1>6, <1>9
  <2>2. Promise!Settle(m)
    BY <1>0, <1>2, <1>3, <1>4, <2>1 DEF Promise!Settle, Waiting, Processing, Streamed
  <2>3. Promise!Next
    BY <1>0, <2>2 DEF Promise!Next
  <2> QED
    BY <1>3, <2>3 DEF PromiseStep
<1> QED
  BY <1>0, <1>7, <1>8, <1>9

(* Every step of the consumer is one of DeliveryPromise, or NATS does not see it. *)
LEMMA StepSeen == IInv /\ PromiseInv /\ [Next]_vars => PromiseInv' /\ PromiseStep
<1> SUFFICES ASSUME IInv, PromiseInv, [Next]_vars PROVE PromiseInv' /\ PromiseStep
  OBVIOUS
<1>1. ASSUME NEW g \in Loops,
             \/ Bind(g) \/ ConsumeOk(g) \/ ConsumeFails(g) \/ IteratorEnds(g) \/ PauseEnds(g) \/ IteratorFails(g)
      PROVE  PromiseInv' /\ PromiseStep
  <2>1. UNCHANGED <<taken, buffer, busy, stored, count, handled, sent, values>>
    BY <1>1 DEF Bind, StartLoop, ConsumeOk, ConsumeFails, IteratorEnds, PauseEnds, IteratorFails, nats
  <2> QED
    BY <2>1, UnseenStep
<1>2. ASSUME Close \/ CloseEnds \/ CloseForGood \/ Reconnect \/ UNCHANGED vars
      PROVE  PromiseInv' /\ PromiseStep
  <2>1. UNCHANGED <<taken, buffer, busy, stored, count, handled, values>> /\ sent' \subseteq sent
    BY <1>2 DEF Close, CloseEnds, CloseForGood, Disconnected, Reconnect, vars, loops, nats
  <2> QED
    BY <2>1, UnseenStep
<1>3. ASSUME NEW g \in Loops, Proceed(g) PROVE PromiseInv' /\ PromiseStep
  BY <1>3, LoseSeen, StartSeen DEF Proceed
<1> QED
  BY <1>1, <1>2, <1>3, TakeNextSeen, DeliverSeen, FinishSeen, ValueSeen, ReturnSeen, SettleSeen DEF Next

(* At first there is no delivery. *)
LEMMA InitSeen == Init => PromiseInv /\ Promise!Init
<1> SUFFICES ASSUME Init PROVE PromiseInv /\ Promise!Init
  OBVIOUS
<1>1. \A g \in Loops, d \in Deliveries : ~Holds(g, d) /\ ~Waits(g, d)
  BY DeliveryIsSome DEF Init, Holds, Waits
<1>2. {d \in Deliveries : \E g \in Loops : Waits(g, d)} = {} /\ {b.delivery : b \in busy} = {}
  BY <1>1 DEF Init
<1>3. {d.msg : d \in {e \in Deliveries : values[e] > 0}} = {}
  BY DEF Init
<1> QED
  BY <1>1, <1>2, <1>3 DEF Init, PromiseInv, HeldOnce, AnswersOver, Promise!Init

(* No delivery is processed twice, by one loop or by two; a message is settled after a
   delivery of it is over, by an ack when a handler has completed it, and before only when
   a handler has answered it with the first value of a stream. *)
THEOREM DeliveriesHandledOnce == Spec => HandlesOnce
<1>1. PromiseStep => [Promise!Next]_<<stored, count, {d \in Deliveries : \E g \in Loops : Waits(g, d)},
                                      {b.delivery : b \in busy}, handled,
                                      {d.msg : d \in {e \in Deliveries : values[e] > 0}}>>
  BY DEF PromiseStep, Waiting, Processing, Streamed
<1> QED
  BY Invariance, InitSeen, StepSeen, <1>1, PTL DEF Spec, HandlesOnce, Promise!Spec

(* A delivery that is over, lost or processed, is over for good: nothing of it comes back,
   although its message may be delivered again. *)
OverForGood == [][\A m \in Messages : \A n : IsOver(m, n) => IsOver(m, n)']_vars

(* It follows from what NATS sees of a step alone. *)
THEOREM NothingComesBack == Spec => OverForGood
<1>1. IInv /\ IInv' /\ PromiseStep => \A m \in Messages : \A n : IsOver(m, n) => IsOver(m, n)'
  <2> SUFFICES ASSUME IInv, IInv', PromiseStep PROVE \A m \in Messages : \A n : IsOver(m, n) => IsOver(m, n)'
    OBVIOUS
  <2> DEFINE Grows == \A m \in Messages : count[m] <= count'[m]
             Fresh == \A d \in Waiting' \cup Processing' : d \in Waiting \cup Processing \/ d.n > count[d.msg]
  <2>0. count \in [Messages -> 0 .. MaxDeliver] /\ count' \in [Messages -> 0 .. MaxDeliver]
    BY DEF IInv, TypeInv, TypeOK
  <2>1. ASSUME count' = count PROVE Grows
    BY <2>0, <2>1, LimitsAssumption
  <2>2. ASSUME NEW m \in Messages, Promise!Deliver(m) PROVE Grows /\ Fresh
    <3> DEFINE d == [msg |-> m, n |-> count[m] + 1]
    <3>1. Processing' = Processing /\ Waiting' = Waiting \cup {d} /\ count' = [count EXCEPT ![m] = count[m] + 1]
      BY <2>2 DEF Promise!Deliver, Waiting, Processing
    <3>2. d.n > count[d.msg]
      BY <2>0, LimitsAssumption
    <3> HIDE DEF d
    <3>3. Fresh
      BY <3>1, <3>2
    <3>4. Grows
      BY <2>0, <3>1, LimitsAssumption
    <3> QED
      BY <3>3, <3>4
  <2>3. ASSUME NEW m \in Messages, Promise!Return(m) \/ Promise!Settle(m) PROVE Grows /\ Fresh
    <3>1. count' = count /\ Waiting' = Waiting /\ Processing' = Processing
      BY <2>3 DEF Promise!Return, Promise!Settle, Waiting, Processing
    <3> QED
      BY <2>1, <3>1
  <2>4. ASSUME NEW d \in Waiting, Promise!Start(d) PROVE Grows /\ Fresh
    <3>1. count' = count /\ Waiting' = Waiting \ {d} /\ Processing' = Processing \cup {d}
      BY <2>4 DEF Promise!Start, Waiting, Processing
    <3> QED
      BY <2>1, <3>1
  <2>5. ASSUME NEW d \in Processing, Promise!Finish(d) PROVE Grows /\ Fresh
    <3>1. count' = count /\ Waiting' = Waiting /\ Processing' = Processing \ {d}
      BY <2>5 DEF Promise!Finish, Waiting, Processing
    <3> QED
      BY <2>1, <3>1
  <2>v. ASSUME NEW d \in Processing, Promise!Value(d) PROVE Grows /\ Fresh
    <3>1. count' = count /\ Waiting' = Waiting /\ Processing' = Processing
      BY <2>v DEF Promise!Value, Waiting, Processing
    <3> QED
      BY <2>1, <3>1
  <2>6. ASSUME Promise!Lose PROVE Grows /\ Fresh
    <3>1. count' = count /\ Waiting' \in SUBSET Waiting /\ Processing' = Processing
      BY <2>6 DEF Promise!Lose, Waiting, Processing
    <3> QED
      BY <2>1, <3>1
  <2>7. ASSUME UNCHANGED <<count, Waiting, Processing>> PROVE Grows /\ Fresh
    BY <2>1, <2>7
  <2>8. Promise!Next => \/ \E m \in Messages : Promise!Deliver(m) \/ Promise!Return(m) \/ Promise!Settle(m)
                        \/ \E d \in Waiting : Promise!Start(d)
                        \/ \E d \in Processing : Promise!Finish(d) \/ Promise!Value(d)
                        \/ Promise!Lose
    BY DEF Promise!Next, Waiting, Processing
  <2>9. Grows /\ Fresh
    BY <2>2, <2>3, <2>4, <2>5, <2>v, <2>6, <2>7, <2>8 DEF PromiseStep
  <2> QED
    BY <2>0, <2>9, OverStays
<1>2. IInv /\ IInv' /\ PromiseStep => [\A m \in Messages : \A n : IsOver(m, n) => IsOver(m, n)']_vars
  BY <1>1
<1> QED
  BY Invariance, InitSeen, StepSeen, <1>2, PTL DEF Spec, OverForGood
=============================================================================
