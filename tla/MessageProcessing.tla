------------------------- MODULE MessageProcessing -------------------------
(***************************************************************************)
(* A message from its arrival to its answer, on the three paths of         *)
(* ServerNats: a NATS event, a JetStream message and a request.  The start *)
(* hook, the handler and the stream it returns are code of the user that   *)
(* may do anything in any order; sendWithHooks() runs them and answers,    *)
(* and track() and `processing` tell close() what it still has to wait for.*)
(***************************************************************************)
EXTENDS Integers, Sequences, FiniteSets

CONSTANTS
    Msgs,       \* messages
    Arrivals,   \* how they arrive: functions of Msgs to Paths
    MaxPackets  \* bound: packets that the stream of a handler makes, the last one included

\* handleNatsEvent(), handleNatsJetStreamEvent(), handleNatsRequest()
Paths == {"event", "jetstream", "request"}

ASSUME ArrivalsAssumption   == Arrivals \subseteq [Msgs -> Paths]
ASSUME MaxPacketsAssumption == MaxPackets \in Nat \ {0}

VARIABLES
    path,       \* the handler of the message: of an event, a JetStream event or an RPC
    streams,    \* the messages whose handler has returned a stream; others return a value
    pc,         \* where the message is
    hook,       \* the start hook: it may fail or return before or after it calls done
    started,    \* `started` of sendWithHooks()
    runs,       \* calls of the handler
    packets,    \* what the stream of the handler has made and respond() has not had
    emitted,    \* how many packets the stream has made
    ends,       \* calls of the end hook
    result,     \* what the processing came to
    answers,    \* the replies, or the acknowledgements
    unlocks,    \* mutex.unlock() calls for the message
    processing, \* this.processing, by message and promise
    close,      \* how far close() is
    waitsOn     \* the promises of the Promise.all() of idle()

incoming == <<path, streams>>
replies  == <<answers, unlocks>>
message  == <<incoming, pc, hook, started, runs, packets, emitted, ends, result, replies>>
waiting  == <<close, waitsOn>>
vars     == <<message, processing, waiting>>

Results == {"ok", "term", "error"}
Packet  == [result : Results, last : BOOLEAN]
Promises == Msgs \X {"work", "hooks"}

TypeOK ==
    /\ path \in [Msgs -> Paths] /\ streams \subseteq Msgs
    /\ pc \in [Msgs -> {"new", "deserializing", "rejected", "starting", "producing",
                        "streaming", "responding", "finished"}]
    /\ hook \in [Msgs -> {"none", "running", "returned", "failed"}]
    /\ started \in [Msgs -> BOOLEAN] /\ runs \in [Msgs -> 0 .. 1]
    /\ packets \in [Msgs -> Seq(Packet)]
    /\ emitted \in [Msgs -> 0 .. MaxPackets]
    /\ ends \in [Msgs -> Nat]
    /\ result \in [Msgs -> Results \cup {"none"}]
    /\ answers \in [Msgs -> Seq(Results)]
    /\ unlocks \in [Msgs -> Nat]
    /\ processing \subseteq Promises
    /\ close \in {"open", "draining", "idle", "quiet", "abandoned"}
    /\ waitsOn \subseteq Promises

Init ==
    /\ path \in Arrivals /\ streams = {}
    /\ pc = [m \in Msgs |-> "new"] /\ hook = [m \in Msgs |-> "none"]
    /\ started = [m \in Msgs |-> FALSE] /\ runs = [m \in Msgs |-> 0]
    /\ packets = [m \in Msgs |-> <<>>] /\ emitted = [m \in Msgs |-> 0]
    /\ ends = [m \in Msgs |-> 0]
    /\ result = [m \in Msgs |-> "none"] /\ answers = [m \in Msgs |-> <<>>]
    /\ unlocks = [m \in Msgs |-> 0]
    /\ processing = {} /\ close = "open" /\ waitsOn = {}

-----------------------------------------------------------------------------
(* A message arrives and is deserialized.                                  *)

\* The subscription callback, or the body of the consumer loop: track() counts the message
Arrive(m) ==
    /\ pc[m] = "new"
    /\ close = "open" \/ (close = "draining" /\ path[m] # "jetstream")
    /\ pc' = [pc EXCEPT ![m] = "deserializing"]
    /\ processing' = processing \cup {<<m, "work">>}
    /\ UNCHANGED <<incoming, hook, started, runs, packets, emitted, ends, result, replies, waiting>>

\* deserialize() rejects: a request gets an error reply, a JetStream message a term()
RejectMessage(m) ==
    /\ pc[m] = "deserializing"
    /\ pc' = [pc EXCEPT ![m] = "rejected"]
    /\ LET r == IF path[m] = "jetstream" THEN "term" ELSE "error" IN
          /\ result' = [result EXCEPT ![m] = r]
          /\ packets' = [packets EXCEPT ![m] = <<[result |-> r, last |-> TRUE]>>]
    /\ UNCHANGED <<incoming, hook, started, runs, emitted, ends, replies, processing, waiting>>

\* sendWithHooks(): the message is in processing until its last answer, and the start hook runs
StartHook(m) ==
    /\ pc[m] = "deserializing"
    /\ pc' = [pc EXCEPT ![m] = "starting"]
    /\ hook' = [hook EXCEPT ![m] = "running"]
    /\ processing' = processing \cup {<<m, "hooks">>}
    /\ UNCHANGED <<incoming, started, runs, packets, emitted, ends, result, replies, waiting>>

-----------------------------------------------------------------------------
(* The start hook.                                                         *)

\* fail(): an error packet for respond()
FailPackets(m) == packets' = [packets EXCEPT ![m] = Append(@, [result |-> "error", last |-> TRUE])]

\* Mutant: the promise of track() stays in `processing`
WorkStays(m) == UNCHANGED processing

\* The promise of sendWithHooks() resolves, and the one of track() with it
WorkEnds(m) == processing' = processing \ {<<m, "work">>}

\* The hook calls `done`, in its call or later, once or again: the handler runs once
CallDone(m) ==
    /\ hook[m] # "none"
    /\ ~started[m]
    /\ started' = [started EXCEPT ![m] = TRUE]
    /\ pc' = [pc EXCEPT ![m] = "producing"]
    /\ runs' = [runs EXCEPT ![m] = @ + 1]
    /\ UNCHANGED <<incoming, hook, packets, emitted, ends, result, replies, processing, waiting>>

\* Mutant: the failure of the hook is answered also after `done`
HookFailsAgain(m) ==
    /\ hook[m] = "running"
    /\ hook' = [hook EXCEPT ![m] = "failed"]
    /\ started' = [started EXCEPT ![m] = TRUE]
    /\ FailPackets(m)
    /\ UNCHANGED <<incoming, pc, runs, emitted, ends, result, replies, processing, waiting>>

\* The hook throws or rejects: after `done` that is only logged
HookFails(m) ==
    /\ hook[m] = "running"
    /\ hook' = [hook EXCEPT ![m] = "failed"]
    /\ \/ /\ started[m]
          /\ UNCHANGED <<pc, started, packets, result, processing>>
       \/ /\ ~started[m]
          /\ started' = [started EXCEPT ![m] = TRUE]
          /\ pc' = [pc EXCEPT ![m] = "responding"]
          /\ result' = [result EXCEPT ![m] = "error"]
          /\ FailPackets(m)
          /\ WorkEnds(m)
    /\ UNCHANGED <<incoming, runs, emitted, ends, replies, waiting>>

\* The hook returns; it may have kept `done` for later, or forgotten it
HookReturns(m) ==
    /\ hook[m] = "running"
    /\ hook' = [hook EXCEPT ![m] = "returned"]
    /\ UNCHANGED <<incoming, pc, started, runs, packets, emitted, ends, result, replies, processing, waiting>>

-----------------------------------------------------------------------------
(* The handler and its stream.                                             *)

End(m) == ends' = [ends EXCEPT ![m] = @ + 1]

\* Mutant: the end hook is not called for a handler that rejects
HandlerRejectsSilently(m) ==
    /\ pc[m] = "producing"
    /\ pc' = [pc EXCEPT ![m] = "responding"]
    /\ result' = [result EXCEPT ![m] = "error"]
    /\ FailPackets(m)
    /\ WorkEnds(m)
    /\ UNCHANGED <<incoming, hook, started, runs, emitted, ends, replies, waiting>>

\* produce() rejects
HandlerRejects(m) ==
    /\ pc[m] = "producing"
    /\ pc' = [pc EXCEPT ![m] = "responding"]
    /\ result' = [result EXCEPT ![m] = "error"]
    /\ End(m)
    /\ FailPackets(m)
    /\ WorkEnds(m)
    /\ UNCHANGED <<incoming, hook, started, runs, emitted, replies, waiting>>

\* send() subscribes to what the handler has returned: a value or a stream
HandlerReturns(m, isStream) ==
    /\ pc[m] = "producing"
    /\ pc' = [pc EXCEPT ![m] = "streaming"]
    /\ streams' = IF isStream THEN streams \cup {m} ELSE streams
    /\ WorkEnds(m)
    /\ UNCHANGED <<path, hook, started, runs, packets, emitted, ends, result, replies, waiting>>

\* The result makes a packet: a value and the completion in the same tick are one packet,
\* a stream may make more than one.  NAK and TERM are results of JetStream handlers
Emit(m, r, isLast) ==
    /\ pc[m] = "streaming" /\ (r = "term" => path[m] = "jetstream")
    /\ \/ isLast /\ emitted[m] < MaxPackets
       \/ ~isLast /\ m \in streams /\ emitted[m] + 1 < MaxPackets /\ r # "error"
    /\ emitted' = [emitted EXCEPT ![m] = @ + 1]
    /\ packets' = [packets EXCEPT ![m] = Append(@, [result |-> r, last |-> isLast])]
    /\ \/ /\ isLast  \* finalize(end)
          /\ pc' = [pc EXCEPT ![m] = "responding"]
          /\ result' = [result EXCEPT ![m] = r]
          /\ End(m)
       \/ /\ ~isLast
          /\ UNCHANGED <<pc, result, ends>>
    /\ UNCHANGED <<incoming, hook, started, runs, replies, processing, waiting>>

\* The stream completes before respond() has had its last value: that packet is the last
CompleteQueued(m) ==
    /\ pc[m] = "streaming" /\ packets[m] # <<>>
    /\ LET n == Len(packets[m]) IN
          /\ packets' = [packets EXCEPT ![m][n].last = TRUE]
          /\ result' = [result EXCEPT ![m] = packets[m][n].result]
    /\ pc' = [pc EXCEPT ![m] = "responding"]
    /\ End(m)
    /\ UNCHANGED <<incoming, hook, started, runs, emitted, replies, processing, waiting>>

-----------------------------------------------------------------------------
(* respond() of the three paths.                                           *)

\* What the sender gets for a packet: nothing for an event; a reply that cannot be
\* serialized becomes an error reply, and none when that fails too
Answers(m, r) ==
    IF path[m] = "event" THEN {answers[m]}
    ELSE IF path[m] = "jetstream" THEN {Append(answers[m], r)}
    ELSE {Append(answers[m], r), Append(answers[m], "error"), answers[m]}

\* The last packet ends the processing: its own promise, or that of a rejected message
Processed(m) ==
    processing' = processing \ {<<m, IF pc[m] = "rejected" THEN "work" ELSE "hooks">>}

Respond(m) ==
    /\ packets[m] # <<>>
    /\ packets' = [packets EXCEPT ![m] = Tail(@)]
    /\ \E a \in Answers(m, Head(packets[m]).result) : answers' = [answers EXCEPT ![m] = a]
    /\ unlocks' = IF path[m] = "jetstream" THEN [unlocks EXCEPT ![m] = @ + 1] ELSE unlocks
    /\ \/ /\ Head(packets[m]).last
          /\ pc' = [pc EXCEPT ![m] = "finished"]
          /\ Processed(m)
       \/ /\ ~Head(packets[m]).last
          /\ UNCHANGED <<pc, processing>>
    /\ UNCHANGED <<incoming, hook, started, runs, emitted, ends, result, waiting>>

-----------------------------------------------------------------------------
(* close() waits for the messages in processing.                           *)

\* The subscriptions drain: what NATS has routed to them still arrives
Close ==
    /\ close = "open"
    /\ close' = "draining"
    /\ UNCHANGED <<message, processing, waitsOn>>

\* The drains have ended; idle() waits for what is in processing
DrainsEnd ==
    /\ close = "draining"
    /\ close' = "idle"
    /\ waitsOn' = processing
    /\ UNCHANGED <<message, processing>>

\* Mutant: idle() waits once
LookOnce ==
    /\ close = "idle" /\ waitsOn \cap processing = {}
    /\ close' = "quiet"
    /\ UNCHANGED <<message, processing, waitsOn>>

\* What idle() has waited for is done: it looks again for what has come meanwhile
LookAgain ==
    /\ close = "idle" /\ waitsOn \cap processing = {}
    /\ \/ /\ processing # {}
          /\ waitsOn' = processing
          /\ UNCHANGED close
       \/ /\ processing = {}
          /\ close' = "quiet"
          /\ UNCHANGED waitsOn
    /\ UNCHANGED <<message, processing>>

\* GRACE_PERIOD is over, or nats.js has closed the connection: what is in processing is abandoned
GraceEnds ==
    /\ close \in {"draining", "idle"}
    /\ close' = "abandoned"
    /\ processing' = {}
    /\ UNCHANGED <<message, waitsOn>>

-----------------------------------------------------------------------------
Next ==
    \/ \E m \in Msgs :
          \/ Arrive(m) \/ RejectMessage(m) \/ StartHook(m)
          \/ CallDone(m) \/ HookFails(m) \/ HookReturns(m)
          \/ HandlerRejects(m) \/ \E isStream \in BOOLEAN : HandlerReturns(m, isStream)
          \/ \E r \in Results, isLast \in BOOLEAN : Emit(m, r, isLast)
          \/ CompleteQueued(m)
          \/ Respond(m)
    \/ Close \/ DrainsEnd \/ LookAgain \/ GraceEnds

Spec == Init /\ [][Next]_vars

\* Promises settle; the start hook calls `done` or fails, and the handler and its stream end
Fairness ==
    /\ \A m \in Msgs :
          /\ WF_vars(RejectMessage(m) \/ StartHook(m))
          /\ WF_vars(CallDone(m) \/ HookFails(m))
          /\ WF_vars(HandlerRejects(m) \/ \E isStream \in BOOLEAN : HandlerReturns(m, isStream))
          /\ WF_vars(\E r \in Results : Emit(m, r, TRUE))
          /\ WF_vars(Respond(m))
    /\ WF_vars(DrainsEnd) /\ WF_vars(LookAgain)

LiveSpec == Spec /\ Fairness

-----------------------------------------------------------------------------
(* Safety.                                                                 *)

(* When idle() ends, every message that has arrived has been answered: there is
   no moment between two promises of a message at which `processing` misses it. *)
QuietMeansAnswered ==
    close = "quiet" => \A m \in Msgs : pc[m] \in {"new", "finished"}

(* The slot of a JetStream message is given back once, when its processing ends:
   neither by two of the failure paths nor by none (respond() gives it back with
   every packet of a stream). *)
UnlockedOnce ==
    \A m \in Msgs : path[m] = "jetstream" /\ m \notin streams =>
        unlocks[m] = IF pc[m] = "finished" THEN 1 ELSE 0

(* The handler runs at most once, the end hook once for every handler that has run
   and for no message whose start hook has failed, whatever that calls afterwards. *)
EndHookOnce ==
    \A m \in Msgs :
        /\ runs[m] <= 1
        /\ pc[m] = "finished" => ends[m] = runs[m]

-----------------------------------------------------------------------------
(* Refinement and liveness.                                                *)

\* A sender or a stream waits for one answer of the message
Settling(m) == path[m] # "event" /\ m \notin streams

OnlyAnswer(m) ==
    CASE Len(answers[m]) = 0 \/ ~Settling(m) -> "none"
      [] Len(answers[m]) = 1 /\ Settling(m) -> answers[m][1]
      [] OTHER -> "several"

Promise == INSTANCE Settlement WITH
    result <- [m \in Msgs |-> IF Settling(m) THEN result[m] ELSE "none"],
    answer <- [m \in Msgs |-> OnlyAnswer(m)]

(* A request or a JetStream message whose handler returns a value is answered once,
   as its processing ends and after the end hook: the implementation of Settlement. *)
SettlesOnce == Promise!Spec

(* close() does not wait for GRACE_PERIOD when the handlers end, also when messages
   arrive while it waits: every path of a message to its end leaves `processing`. *)
CloseGetsQuiet == close = "draining" ~> close \in {"quiet", "abandoned"}
=============================================================================
