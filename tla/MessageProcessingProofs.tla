---------------------- MODULE MessageProcessingProofs ----------------------
(***************************************************************************)
(* The processing of messages is what Settlement promises, and close()     *)
(* misses none, for any number of messages and packets, whatever the start *)
(* hook and the handler do.                                                *)
(***************************************************************************)
EXTENDS MessageProcessing, SequenceTheorems, TLAPS

(* Where a message is says whether its hook has called `done` or failed, whether its
   handler has run, and whether the end hook has been called for that. *)
RunsFollow(m) ==
    /\ pc[m] \in {"new", "deserializing", "rejected"} => hook[m] = "none" /\ ~started[m] /\ runs[m] = 0
    /\ pc[m] = "starting" => ~started[m] /\ runs[m] = 0
    /\ pc[m] \in {"producing", "streaming"} => started[m] /\ runs[m] = 1
    /\ pc[m] = "responding" => started[m]
    /\ pc[m] = "finished" => started[m] \/ hook[m] = "none"
    /\ ends[m] = IF pc[m] \in {"responding", "finished"} THEN runs[m] ELSE 0

(* respond() gets one packet that is the last, after all others; a message without it has
   no result yet. *)
LastIsLast(m) ==
    /\ pc[m] \in {"new", "deserializing", "starting", "producing", "finished"} => packets[m] = <<>>
    /\ pc[m] = "streaming" => \A i \in 1 .. Len(packets[m]) : ~packets[m][i].last
    /\ pc[m] \in {"rejected", "responding"} =>
          packets[m] # <<>> /\ \A i \in 1 .. Len(packets[m]) : packets[m][i].last <=> i = Len(packets[m])
    /\ result[m] = "none" <=> pc[m] \notin {"rejected", "responding", "finished"}

(* A handler that returns a value makes one packet, its result, and that is answered and
   gives the slot back when the processing ends. *)
ValueIsAnswered(m) ==
    /\ pc[m] = "streaming" => packets[m] = <<>>
    /\ pc[m] \in {"rejected", "responding"} => Len(packets[m]) = 1 /\ packets[m][1].result = result[m]
    /\ pc[m] # "finished" => answers[m] = <<>> /\ unlocks[m] = 0
    /\ pc[m] = "finished" =>
          /\ unlocks[m] = IF path[m] = "jetstream" THEN 1 ELSE 0
          /\ Len(answers[m]) = 0 \/ (Len(answers[m]) = 1 /\ answers[m][1] \in {result[m], "error"})

MessageInv(m) ==
    /\ RunsFollow(m)
    /\ LastIsLast(m)
    /\ m \in streams => pc[m] \in {"streaming", "responding", "finished"}
    /\ m \notin streams => ValueIsAnswered(m)

(* Every message that has arrived and is not finished has a promise in `processing`,
   until close() gives up. *)
Tracked(m) ==
    close # "abandoned" =>
        /\ pc[m] \in {"deserializing", "rejected"} => <<m, "work">> \in processing
        /\ pc[m] \in {"starting", "producing", "streaming", "responding"} => <<m, "hooks">> \in processing

QuietIsEmpty == close = "quiet" => processing = {}

(* What the steps of the processing keep. *)
IInv ==
    /\ TypeOK
    /\ \A m \in Msgs : MessageInv(m) /\ Tracked(m)
    /\ QuietIsEmpty

-----------------------------------------------------------------------------
(* Packets and messages.                                                   *)

(* Packets of respond(): one more at the end, or the first one taken. *)
LEMMA AppendPacket ==
    ASSUME NEW S, NEW s \in Seq(S), NEW e \in S
    PROVE  /\ Append(s, e) \in Seq(S) /\ Append(s, e) # <<>> /\ Len(Append(s, e)) = Len(s) + 1 /\ Len(s) \in Nat
           /\ \A i \in 1 .. Len(s) : Append(s, e)[i] = s[i]
           /\ Append(s, e)[Len(s) + 1] = e
  BY AppendProperties, LenProperties

(* The packets that follow the first one. *)
LEMMA TakePacket ==
    ASSUME NEW S, NEW s \in Seq(S), s # <<>>
    PROVE  /\ Head(s) \in S /\ Head(s) = s[1] /\ Len(s) \in Nat /\ Len(s) >= 1
           /\ Tail(s) \in Seq(S) /\ Len(Tail(s)) = Len(s) - 1 /\ (Len(s) = 1 => Tail(s) = <<>>)
           /\ (Len(s) # 1 => Tail(s) # <<>>)
           /\ \A i \in 1 .. Len(Tail(s)) : Tail(s)[i] = s[i + 1] /\ i + 1 \in 1 .. Len(s)
<1>1. /\ Head(s) \in S /\ Tail(s) \in Seq(S) /\ Len(Tail(s)) = Len(s) - 1
      /\ \A i \in 1 .. Len(Tail(s)) : Tail(s)[i] = s[i + 1]
  BY HeadTailProperties
<1>2. Len(s) \in Nat /\ Len(s) >= 1 /\ Head(s) = s[1]
  BY EmptySeq
<1>3. Tail(s) = <<>> <=> Len(Tail(s)) = 0
  BY <1>1, EmptySeq
<1> QED
  BY <1>1, <1>2, <1>3

(* What a message has, its place in `processing` aside, is as it was. *)
Untouched(m) ==
    /\ path'[m] = path[m] /\ (m \in streams' <=> m \in streams)
    /\ pc'[m] = pc[m] /\ hook'[m] = hook[m] /\ started'[m] = started[m] /\ runs'[m] = runs[m]
    /\ packets'[m] = packets[m] /\ ends'[m] = ends[m] /\ result'[m] = result[m]
    /\ answers'[m] = answers[m] /\ unlocks'[m] = unlocks[m]

(* A message that a step leaves alone keeps its part of the invariant. *)
LEMMA MessageKept == ASSUME NEW m, MessageInv(m), Untouched(m) PROVE MessageInv(m)'
  BY DEF MessageInv, RunsFollow, LastIsLast, ValueIsAnswered, Untouched

(* A step of one message that keeps the others, and removes none of their promises, keeps
   the invariant. *)
LEMMA OneMessage ==
    ASSUME IInv, TypeOK', NEW m \in Msgs, MessageInv(m)', Tracked(m)', UNCHANGED waiting,
           \A n \in Msgs : n # m => Untouched(n),
           \A n \in Msgs, w \in {"work", "hooks"} : n # m => (<<n, w>> \in processing <=> <<n, w>> \in processing'),
           close # "quiet" \/ pc[m] \notin {"new", "finished"} \/ processing' = processing
    PROVE  IInv'
<1>1. \A n \in Msgs : MessageInv(n)'
  BY MessageKept DEF IInv
<1>2. \A n \in Msgs : Tracked(n)'
  BY DEF IInv, Tracked, Untouched, waiting
<1>3. ASSUME close = "quiet" PROVE processing' = {}
  <2>1. pc[m] \in {"new", "finished"}
    BY <1>3 DEF IInv, TypeOK, Tracked, QuietIsEmpty
  <2> QED
    BY <1>3, <2>1 DEF IInv, QuietIsEmpty
<1>4. QuietIsEmpty'
  BY <1>3 DEF QuietIsEmpty, waiting
<1> QED
  BY <1>1, <1>2, <1>4 DEF IInv

-----------------------------------------------------------------------------
(* Every operation of a message keeps the invariant.                       *)

(* A message arrives, and is in processing from then on. *)
LEMMA ArriveStep == ASSUME IInv, NEW m \in Msgs, Arrive(m) PROVE IInv'
<1>1. TypeOK'
  BY DEF IInv, TypeOK, Arrive, incoming, replies, waiting, Promises
<1>2. MessageInv(m)'
  BY DEF IInv, TypeOK, Arrive, incoming, replies, MessageInv, RunsFollow, LastIsLast, ValueIsAnswered
<1>3. Tracked(m)'
  BY DEF IInv, TypeOK, Arrive, Tracked
<1>4. \A n \in Msgs : n # m => Untouched(n)
  BY DEF IInv, TypeOK, Arrive, incoming, replies, Untouched
<1> QED
  BY <1>1, <1>2, <1>3, <1>4, OneMessage DEF Arrive

(* A message that cannot be deserialized has its only packet. *)
LEMMA RejectMessageStep == ASSUME IInv, NEW m \in Msgs, RejectMessage(m) PROVE IInv'
<1>0. PICK r \in {"term", "error"} :
         /\ result' = [result EXCEPT ![m] = r]
         /\ packets' = [packets EXCEPT ![m] = <<[result |-> r, last |-> TRUE]>>]
  BY DEF RejectMessage
<1>1. TypeOK'
  BY <1>0 DEF IInv, TypeOK, RejectMessage, incoming, replies, waiting, Packet, Results
<1>2. MessageInv(m)'
  BY <1>0 DEF IInv, TypeOK, RejectMessage, incoming, replies, MessageInv, RunsFollow, LastIsLast, ValueIsAnswered
<1>3. Tracked(m)'
  BY DEF IInv, TypeOK, RejectMessage, waiting, Tracked
<1>4. \A n \in Msgs : n # m => Untouched(n)
  BY <1>0 DEF IInv, TypeOK, RejectMessage, incoming, replies, Untouched
<1> QED
  BY <1>1, <1>2, <1>3, <1>4, OneMessage DEF RejectMessage

(* sendWithHooks() begins: the message is in processing twice. *)
LEMMA StartHookStep == ASSUME IInv, NEW m \in Msgs, StartHook(m) PROVE IInv'
<1>1. TypeOK'
  BY DEF IInv, TypeOK, StartHook, incoming, replies, waiting, Promises
<1>2. MessageInv(m)'
  BY DEF IInv, TypeOK, StartHook, incoming, replies, MessageInv, RunsFollow, LastIsLast, ValueIsAnswered
<1>3. Tracked(m)'
  BY DEF IInv, TypeOK, StartHook, Tracked
<1>4. \A n \in Msgs : n # m => Untouched(n)
  BY DEF IInv, TypeOK, StartHook, incoming, replies, Untouched
<1> QED
  BY <1>1, <1>2, <1>3, <1>4, OneMessage DEF StartHook

(* The hook calls `done`: a message whose hook has not is starting. *)
LEMMA CallDoneStep == ASSUME IInv, NEW m \in Msgs, CallDone(m) PROVE IInv'
<1>0. pc[m] = "starting" /\ runs[m] = 0
  BY DEF IInv, TypeOK, MessageInv, RunsFollow, CallDone
<1>1. TypeOK'
  BY <1>0 DEF IInv, TypeOK, CallDone, incoming, replies, waiting
<1>2. MessageInv(m)'
  BY <1>0 DEF IInv, TypeOK, CallDone, incoming, replies, MessageInv, RunsFollow, LastIsLast, ValueIsAnswered
<1>3. Tracked(m)'
  BY <1>0 DEF IInv, TypeOK, CallDone, waiting, Tracked
<1>4. \A n \in Msgs : n # m => Untouched(n)
  BY DEF IInv, TypeOK, CallDone, incoming, replies, Untouched
<1> QED
  BY <1>1, <1>2, <1>3, <1>4, OneMessage DEF CallDone

(* A failure of the hook or of the handler becomes the only packet of its message. *)
LEMMA OnlyPacket ==
    ASSUME IInv, NEW m \in Msgs, packets[m] = <<>>, FailPackets(m)
    PROVE  packets' = [packets EXCEPT ![m] = <<[result |-> "error", last |-> TRUE]>>]
  BY DEF FailPackets

(* The hook fails: a message whose hook has not called `done` is answered with an error. *)
LEMMA HookFailsStep == ASSUME IInv, NEW m \in Msgs, HookFails(m) PROVE IInv'
<1>1. CASE started[m]
  <2>1. TypeOK'
    BY <1>1 DEF IInv, TypeOK, HookFails, incoming, replies, waiting
  <2>2. MessageInv(m)'
    BY <1>1 DEF IInv, TypeOK, HookFails, incoming, replies, MessageInv, RunsFollow, LastIsLast, ValueIsAnswered
  <2>3. Tracked(m)'
    BY <1>1 DEF IInv, HookFails, waiting, Tracked
  <2>4. \A n \in Msgs : n # m => Untouched(n)
    BY <1>1 DEF IInv, TypeOK, HookFails, incoming, replies, Untouched
  <2> QED
    BY <1>1, <2>1, <2>2, <2>3, <2>4, OneMessage DEF HookFails
<1>2. CASE ~started[m]
  <2>0. pc[m] = "starting" /\ packets[m] = <<>> /\ m \notin streams
    BY <1>2 DEF IInv, TypeOK, MessageInv, RunsFollow, LastIsLast, HookFails
  <2>1. packets' = [packets EXCEPT ![m] = <<[result |-> "error", last |-> TRUE]>>]
    BY <1>2, <2>0, OnlyPacket DEF HookFails
  <2>2. TypeOK'
    <3>1. packets' \in [Msgs -> Seq(Packet)]
      BY <2>1 DEF IInv, TypeOK, Packet, Results
    <3> QED
      BY <1>2, <3>1 DEF IInv, TypeOK, HookFails, incoming, replies, waiting, WorkEnds, Results
  <2>3. MessageInv(m)'
    BY <1>2, <2>0, <2>1 DEF IInv, TypeOK, HookFails, incoming, replies, MessageInv, RunsFollow, LastIsLast, ValueIsAnswered
  <2>4. Tracked(m)'
    BY <1>2, <2>0 DEF IInv, TypeOK, HookFails, waiting, WorkEnds, Tracked
  <2>5. \A n \in Msgs : n # m => Untouched(n)
    BY <1>2, <2>1 DEF IInv, TypeOK, HookFails, incoming, replies, Untouched
  <2> QED
    BY <1>2, <2>0, <2>2, <2>3, <2>4, <2>5, OneMessage DEF HookFails, WorkEnds
<1> QED
  BY <1>1, <1>2

(* The hook returns. *)
LEMMA HookReturnsStep == ASSUME IInv, NEW m \in Msgs, HookReturns(m) PROVE IInv'
<1>1. TypeOK'
  BY DEF IInv, TypeOK, HookReturns, incoming, replies, waiting
<1>2. MessageInv(m)'
  BY DEF IInv, TypeOK, HookReturns, incoming, replies, MessageInv, RunsFollow, LastIsLast, ValueIsAnswered
<1>3. Tracked(m)'
  BY DEF IInv, HookReturns, waiting, Tracked
<1>4. \A n \in Msgs : n # m => Untouched(n)
  BY DEF IInv, TypeOK, HookReturns, incoming, replies, Untouched
<1> QED
  BY <1>1, <1>2, <1>3, <1>4, OneMessage DEF HookReturns

(* The handler rejects. *)
LEMMA HandlerRejectsStep == ASSUME IInv, NEW m \in Msgs, HandlerRejects(m) PROVE IInv'
<1>0. packets[m] = <<>> /\ m \notin streams
  BY DEF IInv, MessageInv, LastIsLast, HandlerRejects
<1>1. packets' = [packets EXCEPT ![m] = <<[result |-> "error", last |-> TRUE]>>]
  BY <1>0, OnlyPacket DEF HandlerRejects
<1>2. TypeOK'
  BY <1>1 DEF IInv, TypeOK, HandlerRejects, incoming, replies, waiting, WorkEnds, End, Packet, Results
<1>3. MessageInv(m)'
  BY <1>0, <1>1 DEF IInv, TypeOK, HandlerRejects, End, incoming, replies, MessageInv, RunsFollow, LastIsLast, ValueIsAnswered
<1>4. Tracked(m)'
  BY DEF IInv, TypeOK, HandlerRejects, waiting, WorkEnds, Tracked
<1>5. \A n \in Msgs : n # m => Untouched(n)
  BY <1>1 DEF IInv, TypeOK, HandlerRejects, End, incoming, replies, Untouched
<1> QED
  BY <1>2, <1>3, <1>4, <1>5, OneMessage DEF HandlerRejects, WorkEnds

(* The handler returns a value or a stream. *)
LEMMA HandlerReturnsStep ==
    ASSUME IInv, NEW m \in Msgs, NEW isStream \in BOOLEAN, HandlerReturns(m, isStream)
    PROVE  IInv'
<1>0. packets[m] = <<>> /\ m \notin streams
  BY DEF IInv, MessageInv, LastIsLast, HandlerReturns
<1>1. TypeOK'
  BY DEF IInv, TypeOK, HandlerReturns, replies, waiting, WorkEnds
<1>2. MessageInv(m)'
  BY <1>0 DEF IInv, TypeOK, HandlerReturns, replies, MessageInv, RunsFollow, LastIsLast, ValueIsAnswered
<1>3. Tracked(m)'
  BY DEF IInv, TypeOK, HandlerReturns, waiting, WorkEnds, Tracked
<1>4. \A n \in Msgs : n # m => Untouched(n)
  BY DEF IInv, TypeOK, HandlerReturns, replies, Untouched
<1> QED
  BY <1>1, <1>2, <1>3, <1>4, OneMessage DEF HandlerReturns, WorkEnds

(* The result of the handler makes a packet: the last one only when it has no more. *)
LEMMA EmitStep ==
    ASSUME IInv, NEW m \in Msgs, NEW r \in Results, NEW isLast \in BOOLEAN, Emit(m, r, isLast)
    PROVE  IInv'
<1> DEFINE p == [result |-> r, last |-> isLast]
<1>0. /\ pc[m] = "streaming" /\ p \in Packet /\ packets[m] \in Seq(Packet) /\ runs[m] = 1 /\ ends[m] = 0
      /\ \A i \in 1 .. Len(packets[m]) : ~packets[m][i].last
      /\ m \notin streams => packets[m] = <<>> /\ isLast /\ answers[m] = <<>> /\ unlocks[m] = 0
  BY DEF IInv, TypeOK, MessageInv, RunsFollow, LastIsLast, ValueIsAnswered, Emit, Packet
<1>1. packets' = [packets EXCEPT ![m] = Append(packets[m], p)]
  BY DEF Emit
<1>2. /\ packets'[m] \in Seq(Packet) /\ packets'[m] # <<>> /\ Len(packets'[m]) = Len(packets[m]) + 1
      /\ Len(packets[m]) \in Nat /\ packets'[m][Len(packets[m]) + 1] = p
      /\ \A i \in 1 .. Len(packets[m]) : packets'[m][i] = packets[m][i]
  <2>1. packets'[m] = Append(packets[m], p)
    BY <1>1 DEF IInv, TypeOK
  <2> QED
    BY <1>0, <2>1, AppendPacket
<1>3. \A i \in 1 .. Len(packets'[m]) : packets'[m][i].last <=> (isLast /\ i = Len(packets'[m]))
  <2> SUFFICES ASSUME NEW i \in 1 .. Len(packets'[m])
               PROVE  packets'[m][i].last <=> (isLast /\ i = Len(packets'[m]))
    OBVIOUS
  <2>1. i \in 1 .. Len(packets[m]) \/ i = Len(packets[m]) + 1
    BY <1>2
  <2> QED
    BY <1>0, <1>2, <2>1
<1>4. TypeOK'
  <2>1. packets' \in [Msgs -> Seq(Packet)]
    BY <1>1, <1>2 DEF IInv, TypeOK
  <2>2. emitted' \in [Msgs -> 0 .. MaxPackets]
    BY MaxPacketsAssumption DEF IInv, TypeOK, Emit
  <2>3. ends' \in [Msgs -> Nat]
    BY <1>0 DEF IInv, TypeOK, Emit, End
  <2>5. result' \in [Msgs -> Results \cup {"none"}]
    BY DEF IInv, TypeOK, Emit
  <2>4. pc' \in [Msgs -> {"new", "deserializing", "rejected", "starting", "producing",
                          "streaming", "responding", "finished"}]
    BY DEF IInv, TypeOK, Emit
  <2> QED
    BY <2>1, <2>2, <2>3, <2>4, <2>5 DEF IInv, TypeOK, Emit, incoming, replies, waiting
<1>5. MessageInv(m)'
  <2>1. /\ UNCHANGED <<incoming, hook, started, runs, replies>>
        /\ isLast => pc'[m] = "responding" /\ result'[m] = r /\ ends'[m] = 1
        /\ ~isLast => UNCHANGED <<pc, result, ends>>
    BY <1>0 DEF IInv, TypeOK, Emit, End
  <2>2. RunsFollow(m)'
    BY <1>0, <2>1 DEF IInv, MessageInv, RunsFollow
  <2>3. LastIsLast(m)'
    BY <1>0, <1>2, <1>3, <2>1 DEF IInv, MessageInv, LastIsLast, Results
  <2>4. m \notin streams => ValueIsAnswered(m)'
    BY <1>0, <1>2, <2>1 DEF ValueIsAnswered, replies
  <2> QED
    BY <1>0, <2>1, <2>2, <2>3, <2>4 DEF IInv, MessageInv, incoming
<1>6. Tracked(m)'
  BY <1>0 DEF IInv, TypeOK, Emit, waiting, Tracked
<1>7. \A n \in Msgs : n # m => Untouched(n)
  BY <1>1 DEF IInv, TypeOK, Emit, End, incoming, replies, Untouched
<1> QED
  BY <1>4, <1>5, <1>6, <1>7, OneMessage DEF Emit

(* The stream completes while its last packet waits: that one becomes the last. *)
LEMMA CompleteQueuedStep == ASSUME IInv, NEW m \in Msgs, CompleteQueued(m) PROVE IInv'
<1> DEFINE n == Len(packets[m])
           p == [packets[m][n] EXCEPT !.last = TRUE]
<1>0. /\ pc[m] = "streaming" /\ packets[m] \in Seq(Packet) /\ packets[m] # <<>> /\ m \in streams
      /\ runs[m] = 1 /\ ends[m] = 0 /\ \A i \in 1 .. n : ~packets[m][i].last
  BY DEF IInv, TypeOK, MessageInv, RunsFollow, LastIsLast, ValueIsAnswered, CompleteQueued
<1>1. n \in 1 .. n /\ packets[m][n] \in Packet /\ p \in Packet /\ p.last /\ packets[m][n].result \in Results
  <2>1. n \in 1 .. n /\ packets[m][n] \in Packet
    BY <1>0, EmptySeq, ElementOfSeq
  <2> QED
    BY <2>1 DEF Packet
<1>2. packets' = [packets EXCEPT ![m] = [packets[m] EXCEPT ![n] = p]]
  BY DEF CompleteQueued
<1>3. /\ packets'[m] = [packets[m] EXCEPT ![n] = p] /\ packets'[m] \in Seq(Packet) /\ Len(packets'[m]) = n
      /\ \A i \in 1 .. n : packets'[m][i] = IF i = n THEN p ELSE packets[m][i]
  <2>1. packets'[m] = [packets[m] EXCEPT ![n] = p]
    BY <1>2 DEF IInv, TypeOK
  <2> QED
    BY <1>0, <1>1, <2>1, ExceptSeq
<1>4. TypeOK'
  <2>1. packets' \in [Msgs -> Seq(Packet)]
    BY <1>2, <1>3 DEF IInv, TypeOK
  <2> QED
    BY <1>1, <2>1 DEF IInv, TypeOK, CompleteQueued, End, incoming, replies, waiting
<1>5. MessageInv(m)'
  <2>1. /\ UNCHANGED <<incoming, hook, started, runs, replies>>
        /\ pc'[m] = "responding" /\ result'[m] \in Results /\ ends'[m] = 1
    BY <1>0, <1>1 DEF IInv, TypeOK, CompleteQueued, End
  <2>2. RunsFollow(m)'
    BY <1>0, <2>1 DEF IInv, MessageInv, RunsFollow
  <2>3. LastIsLast(m)'
    BY <1>0, <1>1, <1>3, <2>1 DEF LastIsLast, Results
  <2> QED
    BY <1>0, <2>1, <2>2, <2>3 DEF MessageInv, incoming
<1>6. Tracked(m)'
  BY <1>0 DEF IInv, TypeOK, CompleteQueued, waiting, Tracked
<1>7. \A k \in Msgs : k # m => Untouched(k)
  BY <1>2 DEF IInv, TypeOK, CompleteQueued, End, incoming, replies, Untouched
<1> QED
  BY <1>4, <1>5, <1>6, <1>7, OneMessage DEF CompleteQueued

(* What respond() finds: the last packet is the only one left, and the only one of a
   handler that has returned a value. *)
LEMMA RespondFinds ==
    ASSUME IInv, NEW m \in Msgs, Respond(m)
    PROVE  /\ packets[m] \in Seq(Packet) /\ packets[m] # <<>> /\ Head(packets[m]) = packets[m][1]
           /\ Head(packets[m]) \in Packet /\ pc[m] \in {"rejected", "streaming", "responding"}
           /\ Head(packets[m]).last => pc[m] # "streaming" /\ Len(packets[m]) = 1
           /\ ~Head(packets[m]).last => pc[m] # "rejected" /\ m \in streams
           /\ m \notin streams =>
                 Head(packets[m]).last /\ Head(packets[m]).result = result[m] /\ answers[m] = <<>> /\ unlocks[m] = 0
<1>1. packets[m] \in Seq(Packet) /\ packets[m] # <<>>
  BY DEF IInv, TypeOK, Respond
<1>2. Head(packets[m]) \in Packet /\ Head(packets[m]) = packets[m][1] /\ Len(packets[m]) \in Nat /\ 1 \in 1 .. Len(packets[m])
  BY <1>1, TakePacket
<1>3. pc[m] \in {"rejected", "streaming", "responding"}
  BY <1>1 DEF IInv, TypeOK, MessageInv, LastIsLast
<1>4. pc[m] = "streaming" => ~Head(packets[m]).last
  BY <1>2 DEF IInv, MessageInv, LastIsLast
<1>5. pc[m] \in {"rejected", "responding"} => (Head(packets[m]).last <=> Len(packets[m]) = 1)
  <2>1. LastIsLast(m)
    BY DEF IInv, MessageInv
  <2> QED
    BY <1>2, <2>1 DEF LastIsLast
<1>6. m \notin streams => pc[m] # "streaming" /\ Len(packets[m]) = 1 /\ packets[m][1].result = result[m]
                          /\ answers[m] = <<>> /\ unlocks[m] = 0
  BY <1>1, <1>3 DEF IInv, MessageInv, ValueIsAnswered
<1>7. m \in streams => pc[m] # "rejected"
  BY DEF IInv, MessageInv
<1> QED
  BY <1>1, <1>2, <1>3, <1>4, <1>5, <1>6, <1>7

(* The answer that respond() sends is that of the packet, an error, or none. *)
LEMMA AnswersAre ==
    ASSUME NEW m \in Msgs, answers[m] \in Seq(Results), NEW r \in Results, NEW a \in Answers(m, r)
    PROVE  a \in Seq(Results) /\ (a = answers[m] \/ \E e \in {r, "error"} : a = Append(answers[m], e))
<1>1. a = answers[m] \/ \E e \in {r, "error"} : a = Append(answers[m], e)
  BY DEF Answers
<1>2. "error" \in Results
  BY DEF Results
<1> QED
  BY <1>1, <1>2, AppendPacket

(* respond() answers a packet; the last one finishes the message. *)
LEMMA RespondStep == ASSUME IInv, NEW m \in Msgs, Respond(m) PROVE IInv'
<1> DEFINE r == Head(packets[m]).result
<1>0. /\ packets' = [packets EXCEPT ![m] = Tail(packets[m])]
      /\ unlocks' = IF path[m] = "jetstream" THEN [unlocks EXCEPT ![m] = @ + 1] ELSE unlocks
      /\ Head(packets[m]).last => pc' = [pc EXCEPT ![m] = "finished"] /\ Processed(m)
      /\ ~Head(packets[m]).last => UNCHANGED <<pc, processing>>
      /\ UNCHANGED <<incoming, hook, started, runs, emitted, ends, result, waiting>>
  BY DEF Respond
<1>1. r \in Results /\ Head(packets[m]).last \in BOOLEAN
  BY RespondFinds DEF Packet
<1>2. PICK a \in Answers(m, r) : answers' = [answers EXCEPT ![m] = a]
  BY DEF Respond
<1>3. a \in Seq(Results) /\ (a = answers[m] \/ \E e \in {r, "error"} : a = Append(answers[m], e))
  BY <1>1, AnswersAre DEF IInv, TypeOK
<1>4. TypeOK'
  <2>1. packets' \in [Msgs -> Seq(Packet)]
    BY <1>0, RespondFinds, TakePacket DEF IInv, TypeOK
  <2>2. answers' \in [Msgs -> Seq(Results)]
    BY <1>2, <1>3 DEF IInv, TypeOK
  <2>3. unlocks' \in [Msgs -> Nat] /\ processing' \subseteq Promises
    BY <1>0, <1>1 DEF IInv, TypeOK, Processed
  <2>4. pc' \in [Msgs -> {"new", "deserializing", "rejected", "starting", "producing",
                          "streaming", "responding", "finished"}]
    BY <1>0, <1>1 DEF IInv, TypeOK
  <2> QED
    BY <1>0, <2>1, <2>2, <2>3, <2>4 DEF IInv, TypeOK, incoming, waiting
<1>5. CASE Head(packets[m]).last
  <2>1. pc' = [pc EXCEPT ![m] = "finished"] /\ pc'[m] = "finished" /\ packets'[m] = <<>>
        /\ pc[m] \in {"rejected", "responding"}
    BY <1>0, <1>5, RespondFinds, TakePacket DEF IInv, TypeOK
  <2>2. RunsFollow(m)'
    BY <1>0, <2>1 DEF IInv, TypeOK, MessageInv, RunsFollow
  <2>3. LastIsLast(m)'
    BY <1>0, <2>1 DEF IInv, MessageInv, LastIsLast
  <2>4. ASSUME m \notin streams PROVE ValueIsAnswered(m)'
    <3>1. answers[m] = <<>> /\ unlocks[m] = 0 /\ r = result[m]
      BY <2>4, RespondFinds
    <3>2. unlocks'[m] = IF path[m] = "jetstream" THEN 1 ELSE 0
      BY <1>0, <3>1 DEF IInv, TypeOK
    <3>3. answers'[m] = <<>> \/ \E e \in {result[m], "error"} : answers'[m] = <<e>>
      BY <1>2, <1>3, <3>1 DEF IInv, TypeOK
    <3>4. Len(answers'[m]) = 0 \/ (Len(answers'[m]) = 1 /\ answers'[m][1] \in {result[m], "error"})
      <4>1. CASE answers'[m] = <<>>
        BY <4>1
      <4>2. ASSUME NEW e \in {result[m], "error"}, answers'[m] = <<e>>
            PROVE  Len(answers'[m]) = 1 /\ answers'[m][1] \in {result[m], "error"}
        BY <4>2
      <4> QED
        BY <3>3, <4>1, <4>2
    <3> QED
      BY <1>0, <2>1, <3>2, <3>4 DEF ValueIsAnswered, incoming
  <2>5. Tracked(m)'
    BY <2>1 DEF Tracked
  <2>6. \A n \in Msgs : n # m => Untouched(n)
    BY <1>0, <1>2, <2>1 DEF IInv, TypeOK, incoming, Untouched
  <2>7. \A n \in Msgs, w \in {"work", "hooks"} : n # m => (<<n, w>> \in processing <=> <<n, w>> \in processing')
    BY <1>0, <1>5 DEF Processed
  <2>8. MessageInv(m)'
    BY <1>0, <2>1, <2>2, <2>3, <2>4 DEF MessageInv, incoming
  <2> QED
    BY <1>0, <1>4, <2>1, <2>5, <2>6, <2>7, <2>8, OneMessage
<1>6. CASE ~Head(packets[m]).last
  <2>1. /\ pc' = pc /\ processing' = processing /\ pc[m] \in {"streaming", "responding"} /\ m \in streams
        /\ packets'[m] = Tail(packets[m])
    BY <1>0, <1>6, RespondFinds DEF IInv, TypeOK
  <2>2. /\ Len(packets'[m]) = Len(packets[m]) - 1 /\ Len(packets[m]) \in Nat
        /\ \A i \in 1 .. Len(packets'[m]) : packets'[m][i] = packets[m][i + 1] /\ i + 1 \in 1 .. Len(packets[m])
        /\ Len(packets[m]) # 1 => packets'[m] # <<>>
    BY <2>1, RespondFinds, TakePacket
  <2>3. pc[m] = "responding" => Len(packets[m]) # 1
    BY <1>6, <2>2, RespondFinds DEF IInv, MessageInv, LastIsLast
  <2>4. RunsFollow(m)'
    BY <1>0, <2>1 DEF IInv, MessageInv, RunsFollow
  <2>5. LastIsLast(m)'
    BY <1>0, <2>1, <2>2, <2>3 DEF IInv, MessageInv, LastIsLast
  <2>6. Tracked(m)'
    BY <1>0, <2>1 DEF IInv, Tracked, waiting
  <2>7. \A n \in Msgs : n # m => Untouched(n)
    BY <1>0, <1>2, <2>1 DEF IInv, TypeOK, incoming, Untouched
  <2>8. MessageInv(m)'
    BY <1>0, <2>1, <2>4, <2>5 DEF MessageInv, incoming
  <2> QED
    BY <1>0, <1>4, <2>1, <2>6, <2>7, <2>8, OneMessage
<1> QED
  BY <1>1, <1>5, <1>6

-----------------------------------------------------------------------------
(* Every step of close() keeps the invariant.                              *)

(* close() waits, or gives up: the messages are as they were. *)
LEMMA CloseStep == ASSUME IInv, Close \/ DrainsEnd \/ LookAgain \/ GraceEnds PROVE IInv'
<1>0. UNCHANGED message /\ (processing' = processing \/ (close' = "abandoned" /\ processing' = {}))
  BY DEF Close, DrainsEnd, LookAgain, GraceEnds
<1>1. TypeOK'
  <2>1. close' \in {"open", "draining", "idle", "quiet", "abandoned"} /\ waitsOn' \subseteq Promises
        /\ processing' \subseteq Promises
    BY <1>0 DEF IInv, TypeOK, Close, DrainsEnd, LookAgain, GraceEnds
  <2> QED
    BY <1>0, <2>1 DEF IInv, TypeOK, message, incoming, replies
<1>2. \A m \in Msgs : MessageInv(m)'
  BY <1>0, MessageKept DEF IInv, message, incoming, replies, Untouched
<1>3. \A m \in Msgs : Tracked(m)'
  BY <1>0 DEF IInv, Tracked, message, Close, DrainsEnd, LookAgain, GraceEnds
<1>4. QuietIsEmpty'
  BY DEF IInv, QuietIsEmpty, Close, DrainsEnd, LookAgain, GraceEnds
<1> QED
  BY <1>1, <1>2, <1>3, <1>4 DEF IInv

-----------------------------------------------------------------------------
(* The theorems.                                                           *)

(* Before the first message nothing has run. *)
LEMMA InitInv == Init => IInv
<1> SUFFICES ASSUME Init PROVE IInv
  OBVIOUS
<1>1. TypeOK
  <2>1. <<>> \in Seq(Packet) /\ <<>> \in Seq(Results) /\ 0 \in 0 .. MaxPackets
    BY MaxPacketsAssumption
  <2> QED
    BY <2>1, ArrivalsAssumption DEF Init, TypeOK
<1> QED
  BY <1>1 DEF Init, IInv, MessageInv, RunsFollow, LastIsLast, ValueIsAnswered, Tracked, QuietIsEmpty

(* Every step of the processing keeps the invariant. *)
LEMMA StepInv == IInv /\ [Next]_vars => IInv'
<1> SUFFICES ASSUME IInv, [Next]_vars PROVE IInv'
  OBVIOUS
<1>1. CASE UNCHANGED vars
  <2>1. TypeOK' /\ QuietIsEmpty'
    BY <1>1 DEF IInv, TypeOK, QuietIsEmpty, vars, message, incoming, replies, waiting
  <2>2. \A m \in Msgs : MessageInv(m)' /\ Tracked(m)'
    BY <1>1, MessageKept DEF IInv, Tracked, vars, message, incoming, replies, waiting, Untouched
  <2> QED
    BY <2>1, <2>2 DEF IInv
<1> QED
  BY <1>1, ArriveStep, RejectMessageStep, StartHookStep, CallDoneStep, HookFailsStep, HookReturnsStep,
     HandlerRejectsStep, HandlerReturnsStep, EmitStep, CompleteQueuedStep, RespondStep, CloseStep DEF Next

(* The inductive invariant of the processing. *)
THEOREM Invariance == Spec => []IInv
  BY InitInv, StepInv, PTL DEF Spec

(* The types of the state of the messages and of close(). *)
THEOREM TypeCorrect == Spec => []TypeOK
<1>1. IInv => TypeOK
  BY DEF IInv
<1> QED
  BY Invariance, <1>1, PTL

(* When idle() ends, no message is between its arrival and its last answer. *)
THEOREM IdleMissesNone == Spec => []QuietMeansAnswered
<1>1. IInv => QuietMeansAnswered
  <2> SUFFICES ASSUME IInv, close = "quiet", NEW m \in Msgs PROVE pc[m] \in {"new", "finished"}
    BY DEF QuietMeansAnswered
  <2> QED
    BY DEF IInv, TypeOK, Tracked, QuietIsEmpty
<1> QED
  BY Invariance, <1>1, PTL

(* The slot of a JetStream message is given back once, when its processing ends. *)
THEOREM SlotGivenBackOnce == Spec => []UnlockedOnce
<1>1. IInv => UnlockedOnce
  BY DEF IInv, MessageInv, ValueIsAnswered, UnlockedOnce
<1> QED
  BY Invariance, <1>1, PTL

(* The handler runs at most once, and the end hook once for every run. *)
THEOREM EndHookFollowsRun == Spec => []EndHookOnce
<1>1. IInv => EndHookOnce
  BY DEF IInv, TypeOK, MessageInv, RunsFollow, EndHookOnce
<1> QED
  BY Invariance, <1>1, PTL

-----------------------------------------------------------------------------
(* The refinement of Settlement.                                           *)

Outcome(m) == IF Settling(m) THEN result[m] ELSE "none"

(* What a step does to one message, seen from Settlement: it comes to its result, it is
   answered, or nothing. *)
Completes(m) ==
    /\ Outcome(m) = "none" /\ Outcome(m)' \in {"ok", "term", "error"}
    /\ OnlyAnswer(m)' = OnlyAnswer(m)

IsAnswered(m) ==
    /\ OnlyAnswer(m) = "none" /\ Outcome(m) # "none" /\ OnlyAnswer(m)' \in {Outcome(m), "error"}
    /\ Outcome(m)' = Outcome(m)

Unseen(m) == Outcome(m)' = Outcome(m) /\ OnlyAnswer(m)' = OnlyAnswer(m)

(* A message that is left alone looks as before. *)
LEMMA UntouchedUnseen == ASSUME NEW m, Untouched(m) PROVE Unseen(m)
  BY DEF Untouched, Unseen, Outcome, OnlyAnswer, Settling

(* A step of one message that leaves the others alone is a step of Settlement or a stutter. *)
LEMMA OneSettles ==
    ASSUME NEW m \in Msgs, Completes(m) \/ IsAnswered(m) \/ Unseen(m), \A n \in Msgs : n # m => Untouched(n)
    PROVE  [Promise!Next]_<<[n \in Msgs |-> Outcome(n)], [n \in Msgs |-> OnlyAnswer(n)]>>
<1> DEFINE outcomes == [n \in Msgs |-> Outcome(n)]
           only     == [n \in Msgs |-> OnlyAnswer(n)]
<1>1. \A n \in Msgs : n # m => Outcome(n)' = Outcome(n) /\ OnlyAnswer(n)' = OnlyAnswer(n)
  BY UntouchedUnseen DEF Unseen
<1>2. CASE Unseen(m)
  <2>1. outcomes' = outcomes /\ only' = only
    BY <1>1, <1>2 DEF Unseen
  <2> QED
    BY <2>1
<1>3. CASE Completes(m)
  <2>1. only' = only /\ outcomes' = [outcomes EXCEPT ![m] = Outcome(m)'] /\ outcomes[m] = "none"
    BY <1>1, <1>3 DEF Completes
  <2>2. Promise!Complete(m)
    BY <1>3, <2>1 DEF Completes, Promise!Complete, Outcome
  <2> QED
    BY <2>2 DEF Promise!Next
<1>4. CASE IsAnswered(m)
  <2>1. outcomes' = outcomes /\ only' = [only EXCEPT ![m] = OnlyAnswer(m)']
        /\ outcomes[m] = Outcome(m) /\ only[m] = "none"
    BY <1>1, <1>4 DEF IsAnswered
  <2>2. Promise!Answer(m)
    BY <1>4, <2>1 DEF IsAnswered, Promise!Answer, Outcome
  <2> QED
    BY <2>2 DEF Promise!Next
<1> QED
  BY <1>2, <1>3, <1>4

(* A message without an answer has none for Settlement either. *)
LEMMA NotYetAnswered ==
    ASSUME IInv, NEW m \in Msgs, pc[m] # "finished"
    PROVE  /\ OnlyAnswer(m) = "none"
           /\ UNCHANGED answers /\ streams \subseteq streams' => OnlyAnswer(m)' = "none"
           /\ Settling(m) => answers[m] = <<>>
<1>1. CASE m \in streams
  BY <1>1 DEF OnlyAnswer, Settling
<1>2. CASE m \notin streams
  <2>1. answers[m] = <<>>
    BY <1>2 DEF IInv, MessageInv, ValueIsAnswered
  <2> QED
    BY <2>1 DEF OnlyAnswer
<1> QED
  BY <1>1, <1>2

(* The processing of a message comes to a result, before its answer. *)
LEMMA ResultCompletes ==
    ASSUME IInv, NEW m \in Msgs, result[m] = "none", result'[m] \in Results, UNCHANGED <<incoming, replies>>,
           pc[m] # "finished"
    PROVE  Completes(m) \/ Unseen(m)
<1>1. OnlyAnswer(m)' = OnlyAnswer(m)
  BY NotYetAnswered DEF replies, incoming, OnlyAnswer, Settling
<1>2. CASE Settling(m)
  BY <1>1, <1>2 DEF Completes, Outcome, Settling, incoming, Results
<1>3. CASE ~Settling(m)
  BY <1>1, <1>3 DEF Unseen, Outcome, Settling, incoming
<1> QED
  BY <1>2, <1>3

(* Result, answers and path of a message are as they were. *)
LEMMA NothingSettles ==
    ASSUME NEW m, UNCHANGED <<incoming, result, replies>>
    PROVE  Unseen(m)
  BY DEF Unseen, Outcome, OnlyAnswer, Settling, incoming, replies

(* A packet of respond() is the answer of a message that a sender or a stream waits on. *)
LEMMA RespondSettles ==
    ASSUME IInv, NEW m \in Msgs, Respond(m)
    PROVE  IsAnswered(m) \/ Unseen(m)
<1> DEFINE r == Head(packets[m]).result
<1>1. UNCHANGED <<incoming, result>>
  BY DEF Respond
<1>2. Outcome(m)' = Outcome(m)
  BY <1>1 DEF Outcome, Settling, incoming
<1>3. CASE ~Settling(m)
  BY <1>1, <1>2, <1>3 DEF Unseen, OnlyAnswer, Settling, incoming
<1>4. CASE Settling(m)
  <2>1. r = result[m] /\ answers[m] = <<>> /\ pc[m] \in {"rejected", "streaming", "responding"} /\ Head(packets[m]).last
    BY <1>4, RespondFinds DEF Settling
  <2>2. result[m] # "none" /\ Outcome(m) = result[m] /\ OnlyAnswer(m) = "none" /\ r \in Results
    BY <1>4, <2>1, RespondFinds, NotYetAnswered DEF IInv, MessageInv, LastIsLast, Outcome, Packet
  <2>3. PICK a \in Answers(m, r) : answers' = [answers EXCEPT ![m] = a]
    BY DEF Respond
  <2>4. answers'[m] = answers[m] \/ \E e \in {r, "error"} : answers'[m] = Append(answers[m], e)
    BY <2>2, <2>3, AnswersAre DEF IInv, TypeOK
  <2>5. ASSUME answers'[m] = <<>> PROVE OnlyAnswer(m)' = "none"
    BY <2>5 DEF OnlyAnswer
  <2>6. ASSUME NEW e \in {r, "error"}, answers'[m] = <<e>> PROVE OnlyAnswer(m)' = e
    <3>1. Len(answers'[m]) = 1 /\ answers'[m][1] = e /\ Settling(m)'
      BY <1>1, <1>4, <2>6 DEF Settling, incoming
    <3> QED
      BY <3>1 DEF OnlyAnswer
  <2>7. OnlyAnswer(m)' = "none" \/ OnlyAnswer(m)' \in {result[m], "error"}
    BY <2>1, <2>4, <2>5, <2>6
  <2> QED
    BY <1>2, <2>2, <2>7 DEF IsAnswered, Unseen
<1> QED
  BY <1>3, <1>4

(* The handler returns a stream before anything is answered. *)
LEMMA ReturnsUnseen ==
    ASSUME IInv, NEW m \in Msgs, NEW isStream \in BOOLEAN, HandlerReturns(m, isStream)
    PROVE  Unseen(m)
<1>1. result[m] = "none" /\ UNCHANGED <<path, result, replies>>
  BY DEF IInv, MessageInv, LastIsLast, HandlerReturns
<1>2. OnlyAnswer(m) = "none" /\ OnlyAnswer(m)' = "none"
  BY <1>1, NotYetAnswered DEF HandlerReturns, replies
<1> QED
  BY <1>1, <1>2 DEF Unseen, Outcome, Settling

(* What a step of a message is for Settlement. *)
Settles(m) == (Completes(m) \/ IsAnswered(m) \/ Unseen(m)) /\ \A n \in Msgs : n # m => Untouched(n)

(* The steps of one message leave the others alone, and settle at most that one. *)
LEMMA MessageSettles ==
    ASSUME IInv, NEW m \in Msgs,
           \/ Arrive(m) \/ RejectMessage(m) \/ StartHook(m)
           \/ CallDone(m) \/ HookFails(m) \/ HookReturns(m)
           \/ HandlerRejects(m) \/ \E isStream \in BOOLEAN : HandlerReturns(m, isStream)
           \/ \E r \in Results, isLast \in BOOLEAN : Emit(m, r, isLast)
           \/ CompleteQueued(m)
           \/ Respond(m)
    PROVE  Settles(m)
<1>0. LastIsLast(m) /\ RunsFollow(m)
  BY DEF IInv, MessageInv
<1>1. CASE Arrive(m) \/ StartHook(m) \/ CallDone(m) \/ HookReturns(m) \/ (HookFails(m) /\ started[m])
  BY <1>1, NothingSettles DEF IInv, TypeOK, Arrive, StartHook, CallDone, HookReturns, HookFails, Settles, Untouched,
     incoming, replies
<1>2. CASE HookFails(m) /\ ~started[m]
  <2>1. pc[m] = "starting" /\ result[m] = "none"
    BY <1>0, <1>2 DEF IInv, TypeOK, RunsFollow, LastIsLast, HookFails
  <2>2. Completes(m) \/ Unseen(m)
    BY <1>2, <2>1, ResultCompletes DEF IInv, TypeOK, HookFails, Results
  <2> QED
    BY <1>2, <2>2 DEF IInv, TypeOK, HookFails, FailPackets, Settles, Untouched, incoming, replies
<1>3. CASE RejectMessage(m)
  <2>1. Completes(m) \/ Unseen(m)
    BY <1>0, <1>3, ResultCompletes DEF IInv, TypeOK, RejectMessage, LastIsLast, Results
  <2> QED
    BY <1>3, <2>1 DEF IInv, TypeOK, RejectMessage, Settles, Untouched, incoming, replies
<1>4. CASE HandlerRejects(m)
  <2>1. Completes(m) \/ Unseen(m)
    BY <1>0, <1>4, ResultCompletes DEF IInv, TypeOK, HandlerRejects, LastIsLast, Results
  <2> QED
    BY <1>4, <2>1 DEF IInv, TypeOK, HandlerRejects, End, FailPackets, Settles, Untouched, incoming, replies
<1>5. ASSUME NEW isStream \in BOOLEAN, HandlerReturns(m, isStream) PROVE Settles(m)
  BY <1>5, ReturnsUnseen DEF IInv, TypeOK, HandlerReturns, Settles, Untouched, replies
<1>6. ASSUME NEW r \in Results, NEW isLast \in BOOLEAN, Emit(m, r, isLast) PROVE Settles(m)
  <2>1. CASE isLast
    BY <1>0, <1>6, <2>1, ResultCompletes DEF IInv, TypeOK, Emit, End, LastIsLast, Settles, Untouched, incoming, replies
  <2>2. CASE ~isLast
    BY <1>6, <2>2, NothingSettles DEF IInv, TypeOK, Emit, Settles, Untouched, incoming, replies
  <2> QED
    BY <2>1, <2>2
<1>7. CASE CompleteQueued(m)
  <2>1. m \in streams
    BY <1>7 DEF IInv, MessageInv, ValueIsAnswered, CompleteQueued
  <2>2. Unseen(m)
    BY <1>7, <2>1 DEF CompleteQueued, Unseen, Outcome, OnlyAnswer, Settling, incoming
  <2> QED
    BY <1>7, <2>2 DEF IInv, TypeOK, CompleteQueued, End, Settles, Untouched, incoming, replies
<1>8. CASE Respond(m)
  <2>1. IsAnswered(m) \/ Unseen(m)
    BY <1>8, RespondSettles
  <2>2. \A n \in Msgs : n # m => Untouched(n)
    BY <1>8 DEF IInv, TypeOK, Respond, Untouched, incoming
  <2> QED
    BY <2>1, <2>2 DEF Settles
<1> QED
  BY <1>1, <1>2, <1>3, <1>4, <1>5, <1>6, <1>7, <1>8

(* Every step of the processing is one of Settlement, or one that it does not see. *)
LEMMA SettlementNext ==
    ASSUME IInv, [Next]_vars
    PROVE  [Promise!Next]_<<[n \in Msgs |-> Outcome(n)], [n \in Msgs |-> OnlyAnswer(n)]>>
<1>1. CASE \E m \in Msgs : Settles(m)
  BY <1>1, OneSettles DEF Settles
<1>2. ASSUME \A m \in Msgs : Unseen(m)
      PROVE  [Promise!Next]_<<[n \in Msgs |-> Outcome(n)], [n \in Msgs |-> OnlyAnswer(n)]>>
  <2>1. [n \in Msgs |-> Outcome(n)]' = [n \in Msgs |-> Outcome(n)]
        /\ [n \in Msgs |-> OnlyAnswer(n)]' = [n \in Msgs |-> OnlyAnswer(n)]
    BY <1>2 DEF Unseen
  <2> QED
    BY <2>1
<1>3. CASE Close \/ DrainsEnd \/ LookAgain \/ GraceEnds \/ UNCHANGED vars
  <2>1. UNCHANGED <<incoming, result, replies>>
    BY <1>3 DEF Close, DrainsEnd, LookAgain, GraceEnds, vars, message
  <2> QED
    BY <1>2, <2>1, NothingSettles
<1> QED
  BY <1>1, <1>3, MessageSettles DEF Next

(* Before the first message there is neither a result nor an answer. *)
LEMMA SettlementInit == Init => Promise!Init
  BY DEF Init, Promise!Init, OnlyAnswer, Settling

(* The processing of messages keeps what Settlement promises: one result and then one answer
   for each that a sender or a stream waits on, a success only when the result is one. *)
THEOREM MessagesSettle == Spec => SettlesOnce
<1>1. IInv /\ [Next]_vars =>
        [Promise!Next]_<<[m \in Msgs |-> IF Settling(m) THEN result[m] ELSE "none"], [m \in Msgs |-> OnlyAnswer(m)]>>
  BY SettlementNext DEF Outcome
<1> QED
  BY Invariance, SettlementInit, <1>1, PTL DEF Spec, SettlesOnce, Promise!Spec
=============================================================================
