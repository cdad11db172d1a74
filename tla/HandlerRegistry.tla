--------------------------- MODULE HandlerRegistry ---------------------------
(***************************************************************************)
(* The handlers of one ServerNats and the options of its consumers: what   *)
(* addHandler() keeps, which handlers then run, when start() refuses to    *)
(* run them, and what bindJetStreamEvents() sends of their options.        *)
(*                                                                         *)
(* A handler is a record with a `pattern`, an `event` flag and `extras`,   *)
(* the options of its decorator.  Options are functions from the names     *)
(* that are written down to a value: "unset" for undefined and null,       *)
(* "falsy" for 0, "" and false, anything else for a value that is sent.    *)
(***************************************************************************)
EXTENDS Sequences, SequencesExt, Objects

Empty == [messageHandlers |-> <<>>, sharedRpcPatterns |-> {}]

Patterns(reg) == DOMAIN reg.messageHandlers
Chain(reg, p) == reg.messageHandlers[p]

(* Server.addHandler() of NestJS: an event handler is linked behind the    *)
(* handler that has the pattern (`next`), any other one takes its place.   *)
SuperAddHandler(reg, h) ==
  LET chain == IF h.pattern \in Patterns(reg) /\ h.event
               THEN Append(Chain(reg, h.pattern), h) ELSE <<h>>
  IN Put(reg.messageHandlers, h.pattern, chain)

(* Mutant: only the new handler is looked at, not the one it joins.        *)
AddHandlerHalf(reg, h) ==
  [messageHandlers |-> SuperAddHandler(reg, h),
   sharedRpcPatterns |-> reg.sharedRpcPatterns \cup
     {p \in Patterns(reg) : p = h.pattern /\ ~h.event}]
AddHandler(reg, h) ==
  [messageHandlers |-> SuperAddHandler(reg, h),
   sharedRpcPatterns |-> reg.sharedRpcPatterns \cup
     {p \in Patterns(reg) : p = h.pattern /\ ~(h.event /\ Head(Chain(reg, p)).event)}]

EventPatterns(reg) == {p \in Patterns(reg) : Head(Chain(reg, p)).event}

(* start() throws on the first, bindJetStreamEvents() on the second.       *)
Refused(reg, jetStream) ==
  \/ reg.sharedRpcPatterns # {}
  \/ jetStream /\ \E p \in EventPatterns(reg) : Len(Chain(reg, p)) > 1

(* The handlers that a message of pattern p calls: an event handler goes   *)
(* on to `next`, an RPC handler does not.                                  *)
Called(reg, p) ==
  IF p \notin Patterns(reg) THEN {}
  ELSE IF p \in EventPatterns(reg) THEN ToSet(Chain(reg, p)) ELSE {Head(Chain(reg, p))}

-----------------------------------------------------------------------------
(* Mutant: an option that is written down as undefined wins.               *)
BuildEventOptionsUnset(h, globalEventOptions) == Spread(globalEventOptions, h.extras)
BuildEventOptions(h, globalEventOptions) ==
  LET defined == {f \in DOMAIN h.extras : h.extras[f] # "unset"}
  IN [f \in DOMAIN globalEventOptions \cup defined |->
        IF f \in defined THEN h.extras[f] ELSE globalEventOptions[f]]

(* What the application may write down: options of the library itself,     *)
(* options that NATS takes when a consumer is made, and the options of     *)
(* ConsumerUpdateConfig that the code takes out one by one.                *)
LibraryOptions == {"max_handlers", "max_messages", "nak_strategy", "nak_delay", "nak_delay_max"}
CreationOnly == {"deliver_policy", "opt_start_seq", "opt_start_time"}
ConsumerOptions ==
  {"description", "ack_wait", "max_deliver", "sample_freq", "max_ack_pending", "max_waiting",
   "headers_only", "max_batch", "max_expires", "inactive_threshold", "backoff", "max_bytes",
   "num_replicas", "mem_storage", "filter_subject", "filter_subjects", "metadata"}

PickConsumerOptions(options) ==
  [f \in {g \in DOMAIN options \cap ConsumerOptions :
            options[g] \notin (IF g = "headers_only" THEN {"unset"} ELSE {"unset", "falsy"})}
     |-> options[f]]

(* Where a new consumer begins: at what is new, unless the options say.    *)
Position(options) ==
  [f \in {"deliver_policy"} \cup {g \in DOMAIN options \cap CreationOnly : options[g] # "unset"} |->
     IF f = "deliver_policy" /\ (f \notin DOMAIN options \/ options[f] \in {"unset", "falsy"})
     THEN "new" ELSE options[f]]

(* What consumers.add() is called with: the options of an update over      *)
(* those that count at creation only.                                      *)
CreationOptions(options) == Spread(Position(options), PickConsumerOptions(options))
=============================================================================
