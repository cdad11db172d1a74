---------------------------- MODULE ServiceSetup ----------------------------
(***************************************************************************)
(* How services come up on JetStream: each registers its handlers, and     *)
(* then its connect() lists the streams, adds or updates those of its      *)
(* configuration one after the other (setupStreams()), and finds, updates  *)
(* or adds the consumers of its handlers side by side                      *)
(* (bindJetStreamEvents()).  The streams and the consumers are in NATS and *)
(* shared by all services: replicas, and versions of one service during a  *)
(* deployment.  Every request is a step of its own, so the steps of other  *)
(* services come between what a service reads and what it writes.          *)
(*                                                                         *)
(* A service that fails tries again: its process restarts when listen()    *)
(* rejects, and connect() is scheduled again after a reconnect.            *)
(***************************************************************************)
EXTENDS Naturals, FiniteSets, HandlerRegistry

CONSTANTS
  Services,     \* the processes
  Versions,     \* the code and options they can run
  Deployed,     \* the version of each service at first
  StreamNames,
  Defaults,     \* the stream fields of NATS and their values when not configured
  MaxFaults,    \* bound: requests that fail, answers that are lost, connections closed for good
  MaxDeploys    \* bound: deployments of another version

ASSUME SetupAssumption ==
  /\ Deployed \in [Services -> Versions]
  /\ MaxFaults \in Nat /\ MaxDeploys \in Nat
  /\ \A v \in Versions :
       /\ v.streams \in Seq(ToSet(v.streams))
       /\ \A i \in DOMAIN v.streams :
            v.streams[i].name \in StreamNames /\ DOMAIN v.streams[i].config \subseteq DOMAIN Defaults

VARIABLES
  code,       \* the version each service runs
  unregistered, \* the handlers of that version addHandler() has yet to be called with
  registry,   \* messageHandlers and sharedRpcPatterns
  phase,      \* "registering", "listing", "streams", "binding", "started", "failed" or "refused"
  page,       \* what setupStreams() has read, as a function of the stream names
  next,       \* the stream of the configuration it is at
  binding,    \* per pattern, the request bindJetStreamEvents() is at
  streams,    \* in NATS: the configuration of the streams that exist
  consumers,  \* in NATS: the options of the consumers that exist
  faults, deploys,
  clobbered,  \* history: streams that were updated with what had changed since it was read
  writer      \* history: the service that wrote a consumer last

service == <<code, unregistered, registry, phase, page, next, binding>>
nats == <<streams, consumers, clobbered, writer>>
counters == <<faults, deploys>>
vars == <<service, nats, counters>>

Phases == {"registering", "listing", "streams", "binding", "started", "failed", "refused"}

(* The name that buildConsumerName() makes: the prefix of the service and  *)
(* the subject, told apart by its hash.                                    *)
ConsumerName(s, p) == <<code[s].consumerName, p>>
EventOptions(s, p) == BuildEventOptions(Head(Chain(registry[s], p)), code[s].globalEventOptions)
Config(s) == code[s].streams[next[s]]

Init ==
  /\ code = Deployed
  /\ unregistered = [s \in Services |-> code[s].handlers]
  /\ registry = [s \in Services |-> Empty]
  /\ phase = [s \in Services |-> "registering"]
  /\ page = [s \in Services |-> <<>>] /\ next = [s \in Services |-> 1]
  /\ binding = [s \in Services |-> <<>>]
  /\ streams = <<>> /\ consumers = <<>>
  /\ faults = 0 /\ deploys = 0
  /\ clobbered = {} /\ writer = <<>>

-----------------------------------------------------------------------------
(* The answers of NATS *)

(* A request fails without an effect, or its answer is lost.               *)
Fault(lost) == IF lost THEN faults < MaxFaults /\ faults' = faults + 1 ELSE UNCHANGED faults

Goto(s, p) == phase' = [phase EXCEPT ![s] = p]

(* Adding what exists is accepted when it is the same.                     *)
Accepts(existing, name, config) == name \notin DOMAIN existing \/ existing[name] = config

-----------------------------------------------------------------------------
(* Registration and start *)

(* NestJS calls addHandler() for every handler before listen().            *)
Register(s) ==
  /\ phase[s] = "registering"
  /\ \E h \in unregistered[s] :
       /\ registry' = [registry EXCEPT ![s] = AddHandler(registry[s], h)]
       /\ unregistered' = [unregistered EXCEPT ![s] = @ \ {h}]
  /\ UNCHANGED <<code, phase, page, next, binding, nats, counters>>

(* start(): refuses the registry, or goes on to the consumers and the      *)
(* subscriptions.  Without JetStream it only subscribes.                   *)
StartFrom(s) ==
  IF Refused(registry[s], code[s].jetStream)
  THEN Goto(s, "refused") /\ UNCHANGED binding
  ELSE IF code[s].jetStream /\ EventPatterns(registry[s]) # {}
  THEN /\ Goto(s, "binding")
       /\ binding' = [binding EXCEPT ![s] = [p \in EventPatterns(registry[s]) |-> "find"]]
  ELSE Goto(s, "started") /\ UNCHANGED binding

(* listen(): connect() sets streams up with JetStream only.                *)
Listen(s) ==
  /\ phase[s] = "registering" /\ unregistered[s] = {}
  /\ IF code[s].jetStream /\ code[s].streams # <<>>
     THEN Goto(s, "listing") /\ UNCHANGED binding ELSE StartFrom(s)
  /\ UNCHANGED <<code, unregistered, registry, page, next, nats, counters>>

-----------------------------------------------------------------------------
(* setupStreams() *)

(* streams.list().next() reads the first page of the list: NATS has fewer  *)
(* streams than a page, which is 256 of them.                              *)
List(s) ==
  /\ phase[s] = "listing"
  /\ page' = [page EXCEPT ![s] = streams]
  /\ next' = [next EXCEPT ![s] = 1]
  /\ Goto(s, "streams")
  /\ UNCHANGED <<code, unregistered, registry, binding, nats, counters>>

(* After the last stream of the configuration comes start().               *)
StreamDone(s) ==
  IF next[s] < Len(code[s].streams)
  THEN next' = [next EXCEPT ![s] = @ + 1] /\ UNCHANGED <<phase, binding>>
  ELSE StartFrom(s) /\ UNCHANGED next

AddStream(s) ==
  /\ phase[s] = "streams" /\ Config(s).name \notin DOMAIN page[s]
  /\ LET config == Spread(Defaults, Config(s).config)
         ok == Accepts(streams, Config(s).name, config)
     IN \E lost \in BOOLEAN :
          /\ Fault(lost)
          /\ streams' = IF ok THEN Put(streams, Config(s).name, config) ELSE streams
          /\ IF ok /\ ~lost THEN StreamDone(s) ELSE Goto(s, "failed") /\ UNCHANGED <<next, binding>>
  /\ UNCHANGED <<code, unregistered, registry, page, consumers, clobbered, writer, deploys>>

(* Mutant: the stream is updated to the configuration alone.               *)
MergedAlone(s) == Spread(Defaults, Config(s).config)

(* { ...stream.config, ...streamConfig } *)
Merged(s) == Spread(page[s][Config(s).name], Config(s).config)

UpdateStream(s) ==
  /\ phase[s] = "streams" /\ Config(s).name \in DOMAIN page[s]
  /\ LET n == Config(s).name
     IN /\ streams' = [streams EXCEPT ![n] = Merged(s)]
        /\ clobbered' = clobbered \cup {m \in {n} : streams[m] # page[s][m]}
  /\ \E lost \in BOOLEAN :
       /\ Fault(lost)
       /\ IF lost THEN Goto(s, "failed") /\ UNCHANGED <<next, binding>> ELSE StreamDone(s)
  /\ UNCHANGED <<code, unregistered, registry, page, consumers, writer, deploys>>

-----------------------------------------------------------------------------
(* bindJetStreamEvents() *)

(* The handlers go on side by side, also after one of them has failed.     *)
At(s, p, step) ==
  phase[s] \in {"binding", "failed"} /\ p \in DOMAIN binding[s] /\ binding[s][p] = step

Step(s, p, step) ==
  /\ binding' = [binding EXCEPT ![s][p] = step]
  /\ phase' = [phase EXCEPT ![s] =
       IF step = "failed" THEN "failed"
       ELSE IF @ = "binding" /\ \A q \in DOMAIN binding[s] : binding'[s][q] = "bound"
       THEN "started" ELSE @]

FindStream(s, p) ==
  /\ At(s, p, "find")
  /\ Step(s, p, IF \E n \in DOMAIN streams : p \in streams[n].subjects THEN "get" ELSE "failed")
  /\ UNCHANGED <<code, unregistered, registry, page, next, nats, counters>>

(* Only "consumer not found" makes it add one.                             *)
GetConsumer(s, p) ==
  /\ At(s, p, "get")
  /\ Step(s, p, IF ConsumerName(s, p) \in DOMAIN consumers THEN "update" ELSE "add")
  /\ UNCHANGED <<code, unregistered, registry, page, next, nats, counters>>

(* Mutant: the options of the creation are sent with every update.         *)
UpdateOptionsAll(s, p) == CreationOptions(EventOptions(s, p))
UpdateOptions(s, p) == PickConsumerOptions(EventOptions(s, p))

WriteConsumer(s, p, options, ok) ==
  LET c == ConsumerName(s, p)
  IN \E lost \in BOOLEAN :
       /\ Fault(lost)
       /\ consumers' = IF ok THEN Put(consumers, c, options) ELSE consumers
       /\ writer' = IF ok THEN Put(writer, c, s) ELSE writer
       /\ Step(s, p, IF ok /\ ~lost THEN "bound" ELSE "failed")

(* NATS keeps the options that an update does not name.                    *)
UpdateConsumer(s, p) ==
  /\ At(s, p, "update")
  /\ WriteConsumer(s, p, Spread(consumers[ConsumerName(s, p)], UpdateOptions(s, p)), TRUE)
  /\ UNCHANGED <<code, unregistered, registry, page, next, streams, clobbered, deploys>>

(* The consumer that was added is then found: nothing here deletes one.    *)
AddConsumer(s, p) ==
  /\ At(s, p, "add")
  /\ LET options == CreationOptions(EventOptions(s, p))
     IN WriteConsumer(s, p, options, Accepts(consumers, ConsumerName(s, p), options))
  /\ UNCHANGED <<code, unregistered, registry, page, next, streams, clobbered, deploys>>

-----------------------------------------------------------------------------
(* Failures, restarts and deployments *)

(* A request of the setup, or of one handler, fails without an effect.     *)
RequestFails(s) ==
  /\ Fault(TRUE)
  /\ \/ phase[s] \in {"listing", "streams"} /\ Goto(s, "failed") /\ UNCHANGED binding
     \/ \E p \in DOMAIN binding[s], step \in {"find", "get", "update", "add"} :
          At(s, p, step) /\ Step(s, p, "failed")
  /\ UNCHANGED <<code, unregistered, registry, page, next, nats, deploys>>

(* Mutant: the list of the streams is read once.                           *)
RetryFromList(s) ==
  /\ phase[s] = "failed"
  /\ binding' = [binding EXCEPT ![s] = <<>>]
  /\ next' = [next EXCEPT ![s] = 1]
  /\ Goto(s, "streams")
  /\ UNCHANGED <<code, unregistered, registry, page, nats, counters>>

(* The process is started again, or the next attempt of reconnect() runs.  *)
Retry(s) ==
  /\ phase[s] = "failed"
  /\ binding' = [binding EXCEPT ![s] = <<>>]
  /\ Goto(s, "registering")
  /\ UNCHANGED <<code, unregistered, registry, page, next, nats, counters>>

(* The connection was closed for good: connect() runs its setup again.     *)
Reconnect(s) ==
  /\ phase[s] = "started"
  /\ Fault(TRUE)
  /\ binding' = [binding EXCEPT ![s] = <<>>]
  /\ Goto(s, "registering")
  /\ UNCHANGED <<code, unregistered, registry, page, next, nats, deploys>>

(* Another version takes the place of the process.                         *)
Deploy(s) ==
  /\ deploys < MaxDeploys /\ deploys' = deploys + 1
  /\ \E v \in Versions \ {code[s]} :
       /\ code' = [code EXCEPT ![s] = v]
       /\ unregistered' = [unregistered EXCEPT ![s] = v.handlers]
  /\ registry' = [registry EXCEPT ![s] = Empty]
  /\ page' = [page EXCEPT ![s] = <<>>] /\ next' = [next EXCEPT ![s] = 1]
  /\ binding' = [binding EXCEPT ![s] = <<>>]
  /\ Goto(s, "registering")
  /\ UNCHANGED <<nats, faults>>

-----------------------------------------------------------------------------
Bind(s) ==
  \E p \in DOMAIN binding[s] :
    FindStream(s, p) \/ GetConsumer(s, p) \/ UpdateConsumer(s, p) \/ AddConsumer(s, p)

Setup(s) == Register(s) \/ Listen(s) \/ List(s) \/ AddStream(s) \/ UpdateStream(s) \/ Bind(s)

Next ==
  \E s \in Services : Setup(s) \/ RequestFails(s) \/ Retry(s) \/ Reconnect(s) \/ Deploy(s)

Spec == Init /\ [][Next]_vars

(* A process that runs goes on, and one that has failed is started again.  *)
Fairness == \A s \in Services : WF_vars(Setup(s)) /\ WF_vars(Retry(s))
FairSpec == Spec /\ Fairness

-----------------------------------------------------------------------------
Started(s) == phase[s] = "started"

(* The values of the variables. *)
TypeOK ==
  /\ code \in [Services -> Versions] /\ phase \in [Services -> Phases]
  /\ unregistered \in [Services -> SUBSET UNION {v.handlers : v \in Versions}]
  /\ \A s \in Services : unregistered[s] \subseteq code[s].handlers
  /\ DOMAIN registry = Services /\ DOMAIN page = Services /\ DOMAIN binding = Services
  /\ next \in [Services -> Nat]
  /\ DOMAIN streams \subseteq StreamNames
  /\ \A s \in Services : DOMAIN page[s] \subseteq StreamNames /\ (next[s] = 1 \/ next[s] \in DOMAIN code[s].streams)
  /\ \A n \in DOMAIN streams : DOMAIN streams[n] = DOMAIN Defaults
  /\ DOMAIN writer = DOMAIN consumers

(* A service that has started calls every handler it has registered, in    *)
(* whatever order NestJS has registered them, and one that was refused has *)
(* a handler that would not be called, or two on one acknowledgement.      *)
(* addHandler() sees one handler at a time and NestJS replaces or links    *)
(* them.                                                                   *)
NoHandlerHidden ==
  \A s \in Services :
    LET hidden == \E h \in code[s].handlers : h \notin Called(registry[s], h.pattern)
        shared == \E p \in EventPatterns(registry[s]) : Cardinality(Called(registry[s], p)) > 1
    IN /\ Started(s) => ~hidden /\ ~(code[s].jetStream /\ shared)
       /\ phase[s] = "refused" => hidden \/ (code[s].jetStream /\ shared)

(* Two versions configure the field differently: either may be in force.   *)
Contested(n, f) ==
  \E v, w \in Versions : \E i \in DOMAIN v.streams, j \in DOMAIN w.streams :
    /\ v.streams[i].name = n /\ w.streams[j].name = n
    /\ f \in DOMAIN v.streams[i].config \cap DOMAIN w.streams[j].config
    /\ v.streams[i].config[f] # w.streams[j].config[f]

ConfiguredFieldsHold(s, except) ==
  \A i \in DOMAIN code[s].streams :
    LET n == code[s].streams[i].name
        config == code[s].streams[i].config
    IN n \notin except =>
         /\ n \in DOMAIN streams
         /\ \A f \in DOMAIN config : Contested(n, f) \/ streams[n][f] = config[f]

(* The fields that a service with JetStream has configured stay on its     *)
(* streams while other services set up the same streams, whatever fails in *)
(* between, unless one of them has updated the stream from a list that was *)
(* out of date.                                                            *)
FieldsKept ==
  \A s \in Services : Started(s) /\ code[s].jetStream => ConfiguredFieldsHold(s, clobbered)

(* README.md:312 says that the new configuration is merged with the        *)
(* current one: then no update would drop a field of another service.      *)
NoFieldLost ==
  \A s \in Services : Started(s) /\ code[s].jetStream => ConfiguredFieldsHold(s, {})

(* The consumer options of README.md:2231-2243, NatsEventHandlerOptions.    *)
DocumentedOptions ==
  {"description", "ack_wait", "max_deliver", "filter_subject", "filter_subjects", "sample_freq",
   "max_ack_pending", "max_waiting", "headers_only", "max_batch", "max_expires",
   "inactive_threshold", "num_replicas", "mem_storage"}

(* A handler that is bound and whose service has written its consumer last *)
(* reads with the documented options of its decorator, and with the global *)
(* ones where the decorator has none, also when the consumer was made by   *)
(* another version; the options of the library are never sent to NATS      *)
(* (UT-14 in server-nats.spec.ts:227).                                     *)
OptionsInForce ==
  /\ \A s \in Services : \A p \in DOMAIN binding[s] :
       LET c == ConsumerName(s, p)
           extras == Head(Chain(registry[s], p)).extras
           written == {f \in DOMAIN extras : extras[f] # "unset"}
           wanted(f) == IF f \in written THEN extras[f] ELSE code[s].globalEventOptions[f]
       IN binding[s][p] = "bound" /\ writer[c] = s =>
            \A f \in (written \cup DOMAIN code[s].globalEventOptions) \cap DocumentedOptions :
              \/ wanted(f) = "unset" \/ (wanted(f) = "falsy" /\ f # "headers_only")
              \/ f \in DOMAIN consumers[c] /\ consumers[c][f] = wanted(f)
  /\ \A c \in DOMAIN consumers : DOMAIN consumers[c] \cap LibraryOptions = {}

(* No deployment moves a consumer that exists: where it began to deliver   *)
(* is never set again, and consumers and streams are never given up.       *)
PositionKept ==
  [][/\ DOMAIN streams \subseteq DOMAIN streams'
     /\ \A c \in DOMAIN consumers :
          /\ c \in DOMAIN consumers'
          /\ \A f \in CreationOnly :
               /\ f \in DOMAIN consumers'[c] <=> f \in DOMAIN consumers[c]
               /\ f \in DOMAIN consumers[c] => consumers'[c][f] = consumers[c][f]]_vars

(* Every service comes up once the subjects of its events stay stored,     *)
(* however the setups of the others come between, unless its handlers are  *)
(* refused.                                                                *)
Stored(s) ==
  \A p \in EventPatterns(registry[s]) : \E n \in DOMAIN streams : p \in streams[n].subjects
ComesUp ==
  \A s \in Services : <>[]Stored(s) => <>[](phase[s] \in {"started", "refused"})
=============================================================================
