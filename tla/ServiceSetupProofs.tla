------------------------- MODULE ServiceSetupProofs -------------------------
(***************************************************************************)
(* Proofs about ServiceSetup, for any services, versions and streams, and  *)
(* any number of faults and deployments.                                   *)
(*                                                                         *)
(* The inductive invariant has a part for each thing that is shared or     *)
(* read earlier than it is used: the registry against the handlers that    *)
(* have been registered, the phase against the registry, the list of the   *)
(* streams against NATS, and the consumers against what has bound them.    *)
(***************************************************************************)
EXTENDS ServiceSetup, SequenceTheorems, FiniteSetTheorems, TLAPS

(* The handlers of pattern p that addHandler() has been called with        *)
Candidates(s, p) == {h \in code[s].handlers \ unregistered[s] : h.pattern = p}

(* A chain that begins with an event handler has all of its pattern; with  *)
(* another one it is that handler alone, or the pattern is marked.         *)
ChainFollows(s, p) ==
  LET chain == Chain(registry[s], p)
      shared == p \in registry[s].sharedRpcPatterns
  IN /\ chain \in Seq(Candidates(s, p)) /\ chain # <<>>
     /\ \A i, j \in DOMAIN chain : chain[i] = chain[j] => i = j
     /\ Head(chain).event => ~shared /\ Candidates(s, p) \subseteq ToSet(chain)
     /\ ~Head(chain).event => (shared <=> Candidates(s, p) # {Head(chain)})

RegistryFollows ==
  \A s \in Services :
    /\ registry[s].sharedRpcPatterns \subseteq Patterns(registry[s])
    /\ \A h \in code[s].handlers \ unregistered[s] : h.pattern \in Patterns(registry[s])
    /\ \A p \in Patterns(registry[s]) : ChainFollows(s, p)

(* What has been decided by the time a service is in its phase             *)
PhaseFollows ==
  \A s \in Services :
    /\ phase[s] # "registering" => unregistered[s] = {}
    /\ phase[s] \in {"binding", "started"} => ~Refused(registry[s], code[s].jetStream)
    /\ phase[s] = "refused" => Refused(registry[s], code[s].jetStream)
    /\ phase[s] \in {"registering", "listing", "streams", "refused"} => DOMAIN binding[s] = {}
    /\ phase[s] = "listing" => code[s].streams # <<>>
    /\ phase[s] = "streams" => next[s] \in DOMAIN code[s].streams

(* NATS still has the streams of a list, and their fields.                 *)
PageFollows ==
  \A s \in Services :
    /\ DOMAIN page[s] \subseteq DOMAIN streams
    /\ \A n \in DOMAIN page[s] : DOMAIN page[s][n] = DOMAIN Defaults

(* A consumer that was found or written exists.                            *)
ConsumersFollow ==
  /\ \A c \in DOMAIN consumers : "deliver_policy" \in DOMAIN consumers[c]
  /\ \A s \in Services : \A p \in DOMAIN binding[s] :
       binding[s][p] \in {"update", "bound"} => ConsumerName(s, p) \in DOMAIN consumers

(* The options of a consumer serve the handler that is called for p.       *)
InForce(s, p, options) ==
  LET extras == Head(Chain(registry[s], p)).extras
      written == {f \in DOMAIN extras : extras[f] # "unset"}
      wanted(f) == IF f \in written THEN extras[f] ELSE code[s].globalEventOptions[f]
  IN \A f \in (written \cup DOMAIN code[s].globalEventOptions) \cap DocumentedOptions :
       \/ wanted(f) = "unset" \/ (wanted(f) = "falsy" /\ f # "headers_only")
       \/ f \in DOMAIN options /\ options[f] = wanted(f)

OptionsFollow ==
  /\ \A s \in Services : \A p \in DOMAIN binding[s] :
       binding[s][p] = "bound" /\ writer[ConsumerName(s, p)] = s =>
         InForce(s, p, consumers[ConsumerName(s, p)])
  /\ \A c \in DOMAIN consumers : DOMAIN consumers[c] \cap LibraryOptions = {}

(* Stream i of the configuration is as it was configured.                  *)
FieldsHold(s, i) ==
  LET n == code[s].streams[i].name
      config == code[s].streams[i].config
  IN n \notin clobbered =>
       n \in DOMAIN streams /\ \A f \in DOMAIN config : Contested(n, f) \/ streams[n][f] = config[f]

(* setupStreams() has got past stream i.                                   *)
IsSetUp(s, i) == phase[s] \in {"binding", "started"} \/ (phase[s] = "streams" /\ i < next[s])

FieldsFollow ==
  \A s \in Services : code[s].jetStream =>
    \A i \in DOMAIN code[s].streams : IsSetUp(s, i) => FieldsHold(s, i)

IInv ==
  /\ TypeOK /\ RegistryFollows /\ PhaseFollows /\ PageFollows
  /\ ConsumersFollow /\ OptionsFollow /\ FieldsFollow

-----------------------------------------------------------------------------
(* The operators the model is built from *)

(* The spread of two objects has the fields of both, and those of the      *)
(* second win: { ...object, ...fields }.                                   *)
LEMMA SpreadFields ==
  ASSUME NEW object, NEW fields
  PROVE  /\ DOMAIN Spread(object, fields) = DOMAIN object \cup DOMAIN fields
         /\ \A f \in DOMAIN fields : Spread(object, fields)[f] = fields[f]
         /\ \A f \in DOMAIN object \ DOMAIN fields : Spread(object, fields)[f] = object[f]
BY DEF Spread

(* A Map keeps its other keys when one is set.                             *)
LEMMA PutKeys ==
  ASSUME NEW map, NEW key, NEW value
  PROVE  /\ DOMAIN Put(map, key, value) = DOMAIN map \cup {key}
         /\ Put(map, key, value)[key] = value
         /\ \A k \in DOMAIN map \ {key} : Put(map, key, value)[k] = map[k]
BY DEF Put

(* The options of a decorator count where they are written down, and the   *)
(* global ones elsewhere: buildEventOptions().                             *)
LEMMA EventOptionsFields ==
  ASSUME NEW h, NEW globals, NEW f
  PROVE  LET written == {g \in DOMAIN h.extras : h.extras[g] # "unset"}
             options == BuildEventOptions(h, globals)
         IN /\ DOMAIN options = DOMAIN globals \cup written
            /\ f \in DOMAIN globals \cup written =>
                 options[f] = IF f \in written THEN h.extras[f] ELSE globals[f]
BY DEF BuildEventOptions

(* An update names only options on the list of pickConsumerOptions(), so   *)
(* none of the creation and none of the library, and every documented one  *)
(* that has a value.                                                       *)
LEMMA PickedFields ==
  ASSUME NEW options
  PROVE  LET picked == PickConsumerOptions(options)
         IN /\ DOMAIN picked \cap (CreationOnly \cup LibraryOptions) = {}
            /\ \A f \in DOMAIN options \cap DocumentedOptions :
                 \/ options[f] = "unset" \/ (options[f] = "falsy" /\ f # "headers_only")
                 \/ f \in DOMAIN picked /\ picked[f] = options[f]
<1> DEFINE D == {g \in DOMAIN options \cap ConsumerOptions :
                   options[g] \notin (IF g = "headers_only" THEN {"unset"} ELSE {"unset", "falsy"})}
<1>1. PickConsumerOptions(options) = [f \in D |-> options[f]]
  BY DEF PickConsumerOptions
<1>2. D \subseteq ConsumerOptions
  OBVIOUS
<1>3. ConsumerOptions \cap (CreationOnly \cup LibraryOptions) = {}
  BY DEF ConsumerOptions, CreationOnly, LibraryOptions
<1>4. DocumentedOptions \subseteq ConsumerOptions
  BY DEF DocumentedOptions, ConsumerOptions
<1>5. ASSUME NEW f \in DOMAIN options \cap DocumentedOptions,
             ~(options[f] = "unset" \/ (options[f] = "falsy" /\ f # "headers_only"))
      PROVE  f \in D
  BY <1>4, <1>5
<1> HIDE DEF D
<1> QED
  BY <1>1, <1>2, <1>3, <1>5

(* A creation names a deliver policy, what an update would name, and no    *)
(* option of the library.                                                  *)
LEMMA CreationFields ==
  ASSUME NEW options
  PROVE  LET picked == PickConsumerOptions(options)
             created == CreationOptions(options)
         IN /\ "deliver_policy" \in DOMAIN created
            /\ DOMAIN created \cap LibraryOptions = {}
            /\ \A f \in DOMAIN picked : f \in DOMAIN created /\ created[f] = picked[f]
<1> DEFINE picked == PickConsumerOptions(options)
           position == Position(options)
<1>1. CreationOptions(options) = Spread(position, picked)
  BY DEF CreationOptions
<1>2. "deliver_policy" \in DOMAIN position /\ DOMAIN position \subseteq CreationOnly
  BY DEF Position, CreationOnly
<1>3. CreationOnly \cap LibraryOptions = {}
  BY DEF CreationOnly, LibraryOptions
<1>4. DOMAIN picked \cap LibraryOptions = {}
  BY PickedFields
<1> HIDE DEF position, picked
<1>5. /\ DOMAIN Spread(position, picked) = DOMAIN position \cup DOMAIN picked
      /\ \A f \in DOMAIN picked : Spread(position, picked)[f] = picked[f]
  BY SpreadFields
<1> QED
  BY <1>1, <1>2, <1>3, <1>4, <1>5 DEF picked

-----------------------------------------------------------------------------
(* The chains of the registry *)

(* A set of the elements of a sequence with no duplicates has as many      *)
(* elements as the sequence, so more than one exactly when it is longer.   *)
LEMMA ManyInChain ==
  ASSUME NEW S, NEW chain \in Seq(S), chain # <<>>,
         \A i, j \in DOMAIN chain : chain[i] = chain[j] => i = j
  PROVE  Cardinality(ToSet(chain)) > 1 <=> Len(chain) > 1
<1>1. /\ Len(chain) \in Nat \ {0} /\ DOMAIN chain = 1 .. Len(chain)
      /\ chain \in [1 .. Len(chain) -> ToSet(chain)]
  <2>1. Len(chain) \in Nat /\ DOMAIN chain = 1 .. Len(chain) /\ chain \in [1 .. Len(chain) -> S]
    BY LenProperties
  <2>2. Len(chain) # 0
    BY EmptySeq, <2>1
  <2>3. \A i \in 1 .. Len(chain) : chain[i] \in ToSet(chain)
    BY <2>1 DEF ToSet
  <2> QED
    BY <2>1, <2>2, <2>3
<1>2. IsFiniteSet(1 .. Len(chain)) /\ Cardinality(1 .. Len(chain)) = Len(chain)
  BY <1>1, FS_Interval
<1>3. chain \in Surjection(1 .. Len(chain), ToSet(chain))
  BY <1>1 DEF Surjection, ToSet
<1>4. chain \in Injection(1 .. Len(chain), ToSet(chain))
  BY <1>1 DEF Injection, IsInjective
<1>5. Cardinality(ToSet(chain)) = Len(chain)
  BY <1>2, <1>3, <1>4, FS_Surjection
<1> QED
  BY <1>1, <1>5

(* addHandler() keeps the chains in step with the handlers it was called   *)
(* with.                                                                   *)
LEMMA RegisterFollows ==
  ASSUME TypeOK, RegistryFollows, NEW s \in Services, Register(s)
  PROVE  RegistryFollows'
<1>1. PICK h \in unregistered[s] :
        /\ registry' = [registry EXCEPT ![s] = AddHandler(registry[s], h)]
        /\ unregistered' = [unregistered EXCEPT ![s] = @ \ {h}]
  BY DEF Register
<1>2. /\ code' = code /\ h \in code[s].handlers
      /\ DOMAIN registry = Services /\ DOMAIN unregistered = Services
  BY DEF Register, TypeOK
<1>3. ASSUME NEW t \in Services, t # s
      PROVE  /\ registry'[t] = registry[t] /\ unregistered'[t] = unregistered[t]
             /\ \A p : Candidates(t, p)' = Candidates(t, p)
  <2>1. registry'[t] = registry[t] /\ unregistered'[t] = unregistered[t]
    BY <1>1, <1>2, <1>3
  <2> QED
    BY <2>1, <1>2 DEF Candidates
<1> DEFINE reg == registry[s]
           q == h.pattern
           old == Chain(reg, q)
           chain == IF q \in Patterns(reg) /\ h.event THEN Append(old, h) ELSE <<h>>
           mixed == q \in Patterns(reg) /\ ~(h.event /\ Head(old).event)
<1>4. /\ registry'[s] = AddHandler(reg, h)
      /\ unregistered'[s] = unregistered[s] \ {h}
  BY <1>1, <1>2
<1>5. /\ registry'[s].messageHandlers = Put(reg.messageHandlers, q, chain)
      /\ registry'[s].sharedRpcPatterns = reg.sharedRpcPatterns \cup (IF mixed THEN {q} ELSE {})
  BY <1>4 DEF AddHandler, SuperAddHandler
<1>6. /\ Patterns(registry'[s]) = Patterns(reg) \cup {q}
      /\ Chain(registry'[s], q) = chain
      /\ \A p \in Patterns(reg) \ {q} : Chain(registry'[s], p) = Chain(reg, p)
  <2> DEFINE map == reg.messageHandlers
             put == Put(map, q, chain)
  <2>1. registry'[s].messageHandlers = put
    BY <1>5
  <2> HIDE DEF chain, reg, put, map, q
  <2>2. DOMAIN put = DOMAIN map \cup {q} /\ put[q] = chain /\ \A p \in DOMAIN map \ {q} : put[p] = map[p]
    BY DEF put, Put
  <2> QED
    BY <2>1, <2>2 DEF Patterns, Chain, map
<1>7. /\ Candidates(s, q)' = Candidates(s, q) \cup {h}
      /\ h \notin Candidates(s, q)
      /\ \A p : p # q => Candidates(s, p)' = Candidates(s, p)
  BY <1>1, <1>2, <1>4 DEF Candidates
<1> HIDE DEF reg, old, chain, mixed
<1>8. q \notin Patterns(reg) => Candidates(s, q) = {}
  BY DEF RegistryFollows, Candidates, reg
<1>9. ChainFollows(s, q)'
  <2> DEFINE all == Candidates(s, q) \cup {h}
  <2>1. CASE q \in Patterns(reg) /\ h.event
    <3>1. chain = Append(old, h)
      BY <2>1 DEF chain
    <3>2. /\ old \in Seq(Candidates(s, q)) /\ old # <<>>
          /\ \A i, j \in DOMAIN old : old[i] = old[j] => i = j
          /\ Head(old).event => q \notin reg.sharedRpcPatterns /\ Candidates(s, q) \subseteq ToSet(old)
          /\ ~Head(old).event => (q \in reg.sharedRpcPatterns <=> Candidates(s, q) # {Head(old)})
      BY <2>1 DEF RegistryFollows, ChainFollows, reg, old
    <3>3. /\ Len(old) \in Nat \ {0} /\ DOMAIN old = 1 .. Len(old)
          /\ \A i \in DOMAIN old : old[i] \in Candidates(s, q)
          /\ Head(old) = old[1]
      BY <3>2
    <3>4. /\ chain \in Seq(all) /\ chain # <<>> /\ DOMAIN chain = 1 .. Len(old) + 1
          /\ \A i \in DOMAIN old : chain[i] = old[i]
          /\ chain[Len(old) + 1] = h
          /\ Head(chain) = Head(old)
      BY <3>1, <3>2, <3>3
    <3>5. \A i, j \in DOMAIN chain : chain[i] = chain[j] => i = j
      BY <3>2, <3>3, <3>4, <1>7
    <3>6. CASE Head(old).event
      <4>1. q \notin registry'[s].sharedRpcPatterns
        BY <1>5, <3>2, <3>6, <2>1 DEF mixed
      <4>2. all \subseteq ToSet(chain)
        BY <3>2, <3>3, <3>4, <3>6 DEF ToSet
      <4> QED
        BY <4>1, <4>2, <3>4, <3>5, <3>6, <1>6, <1>7 DEF ChainFollows
    <3>7. CASE ~Head(old).event
      <4>1. q \in registry'[s].sharedRpcPatterns
        BY <1>5, <2>1, <3>7 DEF mixed
      <4>2. all # {Head(chain)}
        BY <3>3, <3>4, <1>7
      <4> QED
        BY <4>1, <4>2, <3>4, <3>5, <3>7, <1>6, <1>7 DEF ChainFollows
    <3> QED
      BY <3>6, <3>7
  <2>2. CASE ~(q \in Patterns(reg) /\ h.event)
    <3>1. chain = <<h>>
      BY <2>2 DEF chain
    <3>2. /\ chain \in Seq(all) /\ chain # <<>> /\ Head(chain) = h
          /\ DOMAIN chain = {1} /\ chain[1] = h
      BY <3>1
    <3>3. CASE q \in Patterns(reg)
      <4>1. ~h.event /\ q \in registry'[s].sharedRpcPatterns
        BY <2>2, <3>3, <1>5 DEF mixed
      <4>2. Candidates(s, q) # {}
        BY <3>3 DEF RegistryFollows, ChainFollows, reg
      <4>3. all # {h}
        BY <4>2, <1>7
      <4> QED
        BY <4>1, <4>3, <3>2, <1>6, <1>7 DEF ChainFollows
    <3>4. CASE q \notin Patterns(reg)
      <4>1. all = {h}
        BY <1>8, <3>4
      <4>2. q \notin registry'[s].sharedRpcPatterns
        BY <1>5, <3>4 DEF mixed, RegistryFollows, reg
      <4>3. {h} \subseteq ToSet(chain)
        BY <3>2 DEF ToSet
      <4> QED
        BY <4>1, <4>2, <4>3, <3>2, <1>6, <1>7 DEF ChainFollows
    <3> QED
      BY <3>3, <3>4
  <2> QED
    BY <2>1, <2>2
<1>10. ASSUME NEW p \in Patterns(reg), p # q
       PROVE  ChainFollows(s, p)'
  <2>1. ChainFollows(s, p)
    BY <1>10 DEF RegistryFollows, reg
  <2>2. p \in registry'[s].sharedRpcPatterns <=> p \in registry[s].sharedRpcPatterns
    BY <1>5, <1>10 DEF reg
  <2>3. Chain(registry'[s], p) = Chain(registry[s], p)
    BY <1>6, <1>10 DEF reg
  <2> QED
    BY <2>1, <2>2, <2>3, <1>7, <1>10 DEF ChainFollows
<1>11. /\ registry'[s].sharedRpcPatterns \subseteq Patterns(registry'[s])
       /\ \A g \in code'[s].handlers \ unregistered'[s] : g.pattern \in Patterns(registry'[s])
  <2>1. registry'[s].sharedRpcPatterns \subseteq Patterns(registry'[s])
    BY <1>5, <1>6 DEF RegistryFollows, mixed, reg
  <2>2. \A g \in code'[s].handlers \ unregistered'[s] : g.pattern \in Patterns(registry'[s])
    BY <1>2, <1>4, <1>6 DEF RegistryFollows, reg
  <2> QED
    BY <2>1, <2>2
<1>12. ASSUME NEW t \in Services, t # s
       PROVE  /\ registry'[t].sharedRpcPatterns \subseteq Patterns(registry'[t])
              /\ \A g \in code'[t].handlers \ unregistered'[t] : g.pattern \in Patterns(registry'[t])
              /\ \A p \in Patterns(registry'[t]) : ChainFollows(t, p)'
  <2>1. ASSUME NEW p \in Patterns(registry'[t])
        PROVE  ChainFollows(t, p)'
    BY <1>3, <1>12, <2>1 DEF RegistryFollows, ChainFollows
  <2>2. /\ registry'[t].sharedRpcPatterns \subseteq Patterns(registry'[t])
        /\ \A g \in code'[t].handlers \ unregistered'[t] : g.pattern \in Patterns(registry'[t])
    BY <1>2, <1>3, <1>12 DEF RegistryFollows
  <2> QED
    BY <2>1, <2>2
<1>13. \A p \in Patterns(registry'[s]) : ChainFollows(s, p)'
  BY <1>6, <1>9, <1>10
<1> QED
  BY <1>11, <1>12, <1>13 DEF RegistryFollows

(* What a service has registered changes when it registers or is deployed. *)
LEMMA RegistryStays ==
  ASSUME RegistryFollows, UNCHANGED <<code, unregistered, registry>>
  PROVE  RegistryFollows'
<1>1. \A s, p : Candidates(s, p)' = Candidates(s, p)
  BY DEF Candidates
<1>2. \A s, p : ChainFollows(s, p) => ChainFollows(s, p)'
  BY <1>1 DEF ChainFollows
<1> QED
  BY <1>2 DEF RegistryFollows

-----------------------------------------------------------------------------
(* What the steps have in common *)

(* start() refuses, or makes a request for each event pattern, or goes on. *)
LEMMA StartFromEffect ==
  ASSUME TypeOK, NEW s \in Services, StartFrom(s)
  PROVE  /\ phase' \in [Services -> Phases]
         /\ phase'[s] \in {"refused", "binding", "started"}
         /\ phase'[s] = "refused" <=> Refused(registry[s], code[s].jetStream)
         /\ DOMAIN binding' = Services
         /\ phase'[s] # "binding" => binding' = binding
         /\ phase'[s] = "binding" => \A p \in DOMAIN binding'[s] : binding'[s][p] = "find"
         /\ \A t \in Services \ {s} : phase'[t] = phase[t] /\ binding'[t] = binding[t]
<1> USE DEF TypeOK, Goto, Phases
<1>1. CASE Refused(registry[s], code[s].jetStream)
  <2>1. phase' = [phase EXCEPT ![s] = "refused"] /\ binding' = binding
    BY <1>1 DEF StartFrom
  <2> QED
    BY <1>1, <2>1
<1>2. CASE ~Refused(registry[s], code[s].jetStream) /\ code[s].jetStream /\ EventPatterns(registry[s]) # {}
  <2>1. /\ phase' = [phase EXCEPT ![s] = "binding"]
        /\ binding' = [binding EXCEPT ![s] = [p \in EventPatterns(registry[s]) |-> "find"]]
    BY <1>2 DEF StartFrom
  <2>2. binding'[s] = [p \in EventPatterns(registry[s]) |-> "find"]
    BY <2>1
  <2>3. \A p \in DOMAIN binding'[s] : binding'[s][p] = "find"
    BY <2>2
  <2>4. DOMAIN binding' = Services /\ \A t \in Services \ {s} : binding'[t] = binding[t]
    BY <2>1
  <2> QED
    BY <1>2, <2>1, <2>3, <2>4
<1>3. CASE /\ ~Refused(registry[s], code[s].jetStream)
           /\ ~(code[s].jetStream /\ EventPatterns(registry[s]) # {})
  <2>1. phase' = [phase EXCEPT ![s] = "started"] /\ binding' = binding
    BY <1>3 DEF StartFrom
  <2> QED
    BY <1>3, <2>1
<1> QED
  BY <1>1, <1>2, <1>3

(* One handler of bindJetStreamEvents() goes on; the others stay where     *)
(* they are.                                                               *)
LEMMA StepEffect ==
  ASSUME TypeOK, NEW s \in Services, NEW p \in DOMAIN binding[s], NEW step, Step(s, p, step),
         phase[s] \in {"binding", "failed"}
  PROVE  /\ phase' \in [Services -> Phases]
         /\ phase'[s] = "failed" \/ (phase[s] = "binding" /\ phase'[s] \in {"binding", "started"})
         /\ DOMAIN binding' = Services /\ DOMAIN binding'[s] = DOMAIN binding[s]
         /\ binding'[s][p] = step
         /\ \A q \in DOMAIN binding[s] \ {p} : binding'[s][q] = binding[s][q]
         /\ \A t \in Services \ {s} : phase'[t] = phase[t] /\ binding'[t] = binding[t]
<1>1. phase \in [Services -> Phases] /\ DOMAIN binding = Services
  BY DEF TypeOK
<1>2. binding' = [binding EXCEPT ![s] = [binding[s] EXCEPT ![p] = step]]
  BY DEF Step
<1>3. /\ DOMAIN binding' = Services /\ binding'[s] = [binding[s] EXCEPT ![p] = step]
      /\ \A t \in Services \ {s} : binding'[t] = binding[t]
  BY <1>1, <1>2
<1>4. PICK to : /\ phase' = [phase EXCEPT ![s] = to]
                /\ to = "failed" \/ (phase[s] = "binding" /\ to \in {"binding", "started"})
                   \/ (to = phase[s] /\ phase[s] # "binding")
  BY <1>1 DEF Step
<1> QED
  BY <1>1, <1>3, <1>4 DEF Phases

(* The consumers are as their handlers have left them, while nobody writes *)
(* one.                                                                    *)
LEMMA ConsumersStay ==
  ASSUME ConsumersFollow, OptionsFollow, UNCHANGED <<consumers, writer>>,
         \A s \in Services : \A p \in DOMAIN binding'[s] :
           binding'[s][p] \in {"update", "bound"} =>
             \/ binding'[s][p] = "update" /\ ConsumerName(s, p)' \in DOMAIN consumers
             \/ /\ code'[s] = code[s] /\ registry'[s] = registry[s]
                /\ p \in DOMAIN binding[s] /\ binding'[s][p] = binding[s][p]
  PROVE  ConsumersFollow' /\ OptionsFollow'
<1>1. ConsumersFollow'
  BY DEF ConsumersFollow, ConsumerName
<1>2. ASSUME NEW s \in Services, NEW p \in DOMAIN binding'[s], binding'[s][p] = "bound",
             writer'[ConsumerName(s, p)'] = s
      PROVE  InForce(s, p, consumers[ConsumerName(s, p)])'
  <2>1. /\ code'[s] = code[s] /\ registry'[s] = registry[s]
        /\ p \in DOMAIN binding[s] /\ binding[s][p] = "bound"
    BY <1>2
  <2>2. ConsumerName(s, p)' = ConsumerName(s, p)
    BY <2>1 DEF ConsumerName
  <2>3. InForce(s, p, consumers[ConsumerName(s, p)])
    BY <1>2, <2>1, <2>2 DEF OptionsFollow
  <2> QED
    BY <2>1, <2>2, <2>3 DEF InForce
<1>3. \A c \in DOMAIN consumers' : DOMAIN consumers'[c] \cap LibraryOptions = {}
  BY DEF OptionsFollow
<1> QED
  BY <1>1, <1>2, <1>3 DEF OptionsFollow

(* The streams keep their fields while nobody writes one.                  *)
LEMMA FieldsStay ==
  ASSUME FieldsFollow, UNCHANGED <<streams, clobbered>>,
         \A s \in Services : \A i \in DOMAIN code'[s].streams :
           code'[s].jetStream /\ IsSetUp(s, i)' => code'[s] = code[s] /\ IsSetUp(s, i)
  PROVE  FieldsFollow'
<1> SUFFICES ASSUME NEW s \in Services, code'[s].jetStream,
                    NEW i \in DOMAIN code'[s].streams, IsSetUp(s, i)'
             PROVE  FieldsHold(s, i)'
  BY DEF FieldsFollow
<1>1. code'[s] = code[s] /\ IsSetUp(s, i)
  OBVIOUS
<1>2. FieldsHold(s, i)
  BY <1>1 DEF FieldsFollow
<1>3. \A n, f : Contested(n, f)' = Contested(n, f)
  BY DEF Contested
<1> QED
  BY <1>1, <1>2, <1>3 DEF FieldsHold

-----------------------------------------------------------------------------
(* The actions *)

(* addHandler() keeps the invariant.                                       *)
LEMMA RegisterKeeps ==
  ASSUME IInv, NEW s \in Services, Register(s)
  PROVE  IInv'
<1> USE DEF IInv
<1>1. RegistryFollows'
  BY RegisterFollows
<1>2. /\ UNCHANGED <<code, phase, page, next, binding, nats, counters>>
      /\ phase[s] = "registering"
      /\ unregistered' = [unregistered EXCEPT ![s] = unregistered'[s]]
      /\ unregistered'[s] \subseteq unregistered[s]
      /\ registry' = [registry EXCEPT ![s] = registry'[s]]
  BY DEF Register, TypeOK
<1>3. TypeOK'
  BY <1>2 DEF TypeOK, nats, Phases
<1>4. PhaseFollows'
  BY <1>2 DEF PhaseFollows, TypeOK
<1>5. PageFollows'
  BY <1>2 DEF PageFollows, nats
<1>6. DOMAIN binding[s] = {}
  BY <1>2 DEF PhaseFollows
<1>7. ConsumersFollow' /\ OptionsFollow'
  BY <1>2, <1>6, ConsumersStay DEF nats, TypeOK
<1>8. FieldsFollow'
  BY <1>2, FieldsStay DEF nats, IsSetUp
<1> QED
  BY <1>1, <1>3, <1>4, <1>5, <1>7, <1>8

(* The start of listen() keeps the invariant.                              *)
LEMMA ListenKeeps ==
  ASSUME IInv, NEW s \in Services, Listen(s)
  PROVE  IInv'
<1> USE DEF IInv
<1>1. /\ UNCHANGED <<code, unregistered, registry, page, next, nats, counters>>
      /\ phase[s] = "registering" /\ unregistered[s] = {}
  BY DEF Listen
<1>2. /\ phase' \in [Services -> Phases]
      /\ \/ code[s].streams # <<>> /\ phase'[s] = "listing" /\ binding' = binding
         \/ /\ ~(code[s].jetStream /\ code[s].streams # <<>>)
            /\ phase'[s] \in {"refused", "binding", "started"}
            /\ phase'[s] = "refused" <=> Refused(registry[s], code[s].jetStream)
            /\ phase'[s] # "binding" => binding' = binding
            /\ phase'[s] = "binding" => \A p \in DOMAIN binding'[s] : binding'[s][p] = "find"
      /\ DOMAIN binding' = Services
      /\ \A t \in Services \ {s} : phase'[t] = phase[t] /\ binding'[t] = binding[t]
  <2>1. CASE code[s].jetStream /\ code[s].streams # <<>>
    BY <2>1 DEF Listen, Goto, TypeOK, Phases
  <2>2. CASE ~(code[s].jetStream /\ code[s].streams # <<>>)
    <3>1. StartFrom(s)
      BY <2>2 DEF Listen
    <3> QED
      BY <2>2, <3>1, StartFromEffect
  <2> QED
    BY <2>1, <2>2
<1>3. TypeOK'
  BY <1>1, <1>2 DEF TypeOK, nats
<1>4. RegistryFollows'
  BY <1>1, RegistryStays
<1>5. PhaseFollows'
  BY <1>1, <1>2 DEF PhaseFollows
<1>6. PageFollows'
  BY <1>1 DEF PageFollows, nats
<1>7. ConsumersFollow' /\ OptionsFollow'
  <2>1. \A t \in Services : \A p \in DOMAIN binding'[t] :
          binding'[t][p] \in {"update", "bound"} => p \in DOMAIN binding[t] /\ binding'[t][p] = binding[t][p]
    BY <1>2
  <2> QED
    BY <1>1, <2>1, ConsumersStay DEF nats
<1>8. FieldsFollow'
  <2>1. code[s].jetStream => phase'[s] = "listing" \/ DOMAIN code[s].streams = {}
    <3>1. code[s].streams = <<>> => DOMAIN code[s].streams = {}
      OBVIOUS
    <3> QED
      BY <1>2, <3>1
  <2>2. \A t \in Services : \A i \in DOMAIN code[t].streams :
          code[t].jetStream /\ IsSetUp(t, i)' => IsSetUp(t, i)
    BY <1>1, <1>2, <2>1 DEF IsSetUp
  <2> QED
    BY <1>1, <2>2, FieldsStay DEF nats
<1> QED
  BY <1>3, <1>4, <1>5, <1>6, <1>7, <1>8

(* A page of streams keeps the invariant.                                  *)
LEMMA ListKeeps ==
  ASSUME IInv, NEW s \in Services, List(s)
  PROVE  IInv'
<1> USE DEF IInv
<1>1. /\ UNCHANGED <<code, unregistered, registry, binding, nats, counters>>
      /\ phase[s] = "listing" /\ phase' = [phase EXCEPT ![s] = "streams"]
      /\ page' = [page EXCEPT ![s] = streams] /\ next' = [next EXCEPT ![s] = 1]
  BY DEF List, Goto
<1>2. 1 \in DOMAIN code[s].streams
  <2>1. code[s].streams \in Seq(ToSet(code[s].streams)) /\ code[s].streams # <<>>
    BY <1>1, SetupAssumption DEF PhaseFollows, TypeOK, SetupAssumption
  <2> QED
    BY <2>1, EmptySeq, LenProperties
<1>3. TypeOK'
  <2>1. /\ phase' \in [Services -> Phases] /\ next' \in [Services -> Nat]
        /\ DOMAIN page' = Services
    BY <1>1 DEF TypeOK, Phases
  <2>2. \A t \in Services : DOMAIN page'[t] \subseteq StreamNames /\ (next'[t] = 1 \/ next'[t] \in DOMAIN code[t].streams)
    BY <1>1 DEF TypeOK
  <2> QED
    BY <1>1, <2>1, <2>2 DEF TypeOK, nats
<1>4. RegistryFollows'
  BY <1>1, RegistryStays
<1>5. PhaseFollows'
  BY <1>1, <1>2 DEF PhaseFollows, TypeOK
<1>6. PageFollows'
  BY <1>1 DEF PageFollows, nats, TypeOK
<1>7. ConsumersFollow' /\ OptionsFollow'
  BY <1>1, ConsumersStay DEF nats
<1>8. FieldsFollow'
  <2>1. \A t \in Services : \A i \in DOMAIN code[t].streams : IsSetUp(t, i)' => IsSetUp(t, i)
    <3>1. \A i \in DOMAIN code[s].streams : ~(i < 1)
      BY SetupAssumption, LenProperties DEF SetupAssumption, TypeOK
    <3> QED
      BY <1>1, <3>1 DEF IsSetUp, TypeOK
  <2> QED
    BY <1>1, <2>1, FieldsStay DEF nats
<1> QED
  BY <1>3, <1>4, <1>5, <1>6, <1>7, <1>8

(* setupStreams() gets past the stream it is at, and no further, or fails. *)
LEMMA StreamStepEffect ==
  ASSUME IInv, NEW s \in Services, phase[s] = "streams",
         UNCHANGED <<code, unregistered, registry>>,
         StreamDone(s) \/ (Goto(s, "failed") /\ UNCHANGED <<next, binding>>)
  PROVE  /\ phase' \in [Services -> Phases] /\ DOMAIN binding' = Services
         /\ next' \in [Services -> Nat]
         /\ \A t \in Services : next'[t] = 1 \/ next'[t] \in DOMAIN code[t].streams
         /\ PhaseFollows'
         /\ \A t \in Services : \A p \in DOMAIN binding'[t] :
              binding'[t][p] \in {"update", "bound"} => p \in DOMAIN binding[t] /\ binding'[t][p] = binding[t][p]
         /\ \A t \in Services : \A i \in DOMAIN code[t].streams :
              IsSetUp(t, i)' => IsSetUp(t, i) \/ (t = s /\ i = next[s] /\ StreamDone(s))
<1> USE DEF IInv
<1>1. /\ DOMAIN code[s].streams = 1 .. Len(code[s].streams) /\ Len(code[s].streams) \in Nat
      /\ next[s] \in DOMAIN code[s].streams
  BY SetupAssumption, LenProperties DEF SetupAssumption, TypeOK, PhaseFollows
<1>2. CASE StreamDone(s) /\ next[s] < Len(code[s].streams)
  <2>1. next' = [next EXCEPT ![s] = next[s] + 1] /\ UNCHANGED <<phase, binding>>
    BY <1>2 DEF StreamDone
  <2>2. /\ next[s] \in Nat /\ next[s] + 1 \in DOMAIN code[s].streams
        /\ next \in [Services -> Nat] /\ next'[s] = next[s] + 1
    BY <1>1, <1>2, <2>1 DEF TypeOK
  <2>3. /\ phase' \in [Services -> Phases] /\ DOMAIN binding' = Services
        /\ next' \in [Services -> Nat]
        /\ \A t \in Services : next'[t] = 1 \/ next'[t] \in DOMAIN code[t].streams
    BY <2>1, <2>2 DEF TypeOK
  <2>4. PhaseFollows'
    BY <2>1, <2>2 DEF PhaseFollows
  <2>5. ASSUME NEW t \in Services, NEW i \in DOMAIN code[t].streams, IsSetUp(t, i)'
        PROVE  IsSetUp(t, i) \/ (t = s /\ i = next[s] /\ StreamDone(s))
    <3>1. CASE t = s
      <4>1. i \in Nat /\ (i < next[s] + 1 => i < next[s] \/ i = next[s])
        BY <1>1, <3>1, <2>2
      <4> QED
        BY <1>2, <2>1, <2>2, <2>5, <3>1, <4>1 DEF IsSetUp
    <3>2. CASE t # s
      BY <2>1, <2>2, <2>5, <3>2 DEF IsSetUp
    <3> QED
      BY <3>1, <3>2
  <2> QED
    BY <2>1, <2>3, <2>4, <2>5
<1>3. CASE StreamDone(s) /\ ~(next[s] < Len(code[s].streams))
  <2>1. StartFrom(s) /\ next' = next
    BY <1>3 DEF StreamDone
  <2>2. /\ phase' \in [Services -> Phases]
        /\ phase'[s] \in {"refused", "binding", "started"}
        /\ phase'[s] = "refused" <=> Refused(registry[s], code[s].jetStream)
        /\ DOMAIN binding' = Services
        /\ phase'[s] # "binding" => binding' = binding
        /\ phase'[s] = "binding" => \A p \in DOMAIN binding'[s] : binding'[s][p] = "find"
        /\ \A t \in Services \ {s} : phase'[t] = phase[t] /\ binding'[t] = binding[t]
    BY <2>1, StartFromEffect
  <2>3. PhaseFollows'
    BY <2>1, <2>2 DEF PhaseFollows
  <2>4. ASSUME NEW t \in Services, NEW i \in DOMAIN code[t].streams, IsSetUp(t, i)'
        PROVE  IsSetUp(t, i) \/ (t = s /\ i = next[s] /\ StreamDone(s))
    <3>1. CASE t = s
      <4>1. i \in Nat /\ (i < next[s] \/ i = next[s])
        BY <1>1, <1>3, <3>1
      <4> QED
        BY <1>3, <3>1, <4>1 DEF IsSetUp
    <3>2. CASE t # s
      BY <2>1, <2>2, <2>4, <3>2 DEF IsSetUp
    <3> QED
      BY <3>1, <3>2
  <2>5. \A t \in Services : \A p \in DOMAIN binding'[t] :
          binding'[t][p] \in {"update", "bound"} => p \in DOMAIN binding[t] /\ binding'[t][p] = binding[t][p]
    BY <2>2
  <2> QED
    BY <2>1, <2>2, <2>3, <2>4, <2>5 DEF TypeOK
<1>4. CASE Goto(s, "failed") /\ UNCHANGED <<next, binding>>
  <2>1. phase' = [phase EXCEPT ![s] = "failed"] /\ UNCHANGED <<next, binding>>
    BY <1>4 DEF Goto
  <2>2. phase' \in [Services -> Phases] /\ phase'[s] = "failed" /\ \A t \in Services \ {s} : phase'[t] = phase[t]
    BY <2>1 DEF TypeOK, Phases
  <2>3. PhaseFollows'
    BY <2>1, <2>2 DEF PhaseFollows
  <2>4. \A t \in Services : \A i \in DOMAIN code[t].streams : IsSetUp(t, i)' => IsSetUp(t, i)
    BY <2>1, <2>2 DEF IsSetUp
  <2> QED
    BY <2>1, <2>2, <2>3, <2>4 DEF TypeOK
<1> QED
  BY <1>2, <1>3, <1>4

(* Adding a stream changes no other one, and none that exists.             *)
LEMMA AddStreamKeeps ==
  ASSUME IInv, NEW s \in Services, AddStream(s)
  PROVE  IInv'
<1> USE DEF IInv
<1> DEFINE n == Config(s).name
           config == Spread(Defaults, Config(s).config)
           ok == Accepts(streams, n, config)
<1>1. /\ UNCHANGED <<code, unregistered, registry, page, consumers, clobbered, writer, deploys>>
      /\ phase[s] = "streams" /\ n \notin DOMAIN page[s]
      /\ streams' = IF ok THEN Put(streams, n, config) ELSE streams
      /\ (ok /\ StreamDone(s)) \/ (Goto(s, "failed") /\ UNCHANGED <<next, binding>>)
      /\ StreamDone(s) /\ ~ok => Goto(s, "failed") /\ UNCHANGED <<next, binding>>
  BY DEF AddStream
<1>2. /\ phase' \in [Services -> Phases] /\ DOMAIN binding' = Services
      /\ next' \in [Services -> Nat]
      /\ \A t \in Services : next'[t] = 1 \/ next'[t] \in DOMAIN code[t].streams
      /\ PhaseFollows'
      /\ \A t \in Services : \A p \in DOMAIN binding'[t] :
           binding'[t][p] \in {"update", "bound"} => p \in DOMAIN binding[t] /\ binding'[t][p] = binding[t][p]
      /\ \A t \in Services : \A i \in DOMAIN code[t].streams :
           IsSetUp(t, i)' => IsSetUp(t, i) \/ (t = s /\ i = next[s] /\ StreamDone(s))
  BY <1>1, StreamStepEffect
<1>3. /\ code[s] \in Versions /\ next[s] \in DOMAIN code[s].streams
      /\ n \in StreamNames /\ DOMAIN Config(s).config \subseteq DOMAIN Defaults
  BY <1>1, SetupAssumption DEF SetupAssumption, TypeOK, PhaseFollows, Config
<1>4. /\ DOMAIN config = DOMAIN Defaults
      /\ \A f \in DOMAIN Config(s).config : config[f] = Config(s).config[f]
  <2>1. /\ DOMAIN config = DOMAIN Defaults \cup DOMAIN Config(s).config
        /\ \A f \in DOMAIN Config(s).config : config[f] = Config(s).config[f]
    BY DEF Spread
  <2> QED
    BY <1>3, <2>1
<1> HIDE DEF config
<1>5. /\ DOMAIN streams \subseteq DOMAIN streams' /\ DOMAIN streams' \subseteq DOMAIN streams \cup {n}
      /\ \A m \in DOMAIN streams : streams'[m] = streams[m]
      /\ ok => n \in DOMAIN streams' /\ streams'[n] = config
  <2>1. CASE ok
    <3>1. /\ DOMAIN streams' = DOMAIN streams \cup {n} /\ streams'[n] = config
          /\ \A k \in DOMAIN streams \ {n} : streams'[k] = streams[k]
      BY <1>1, <2>1 DEF Put
    <3> QED
      BY <2>1, <3>1 DEF Accepts
  <2>2. CASE ~ok
    BY <1>1, <2>2
  <2> QED
    BY <2>1, <2>2
<1>6. TypeOK'
  <2>1. /\ DOMAIN streams' \subseteq StreamNames
        /\ \A m \in DOMAIN streams' : DOMAIN streams'[m] = DOMAIN Defaults
    <3>1. n \in DOMAIN streams' \ DOMAIN streams => ok
      BY <1>1
    <3> QED
      BY <1>3, <1>4, <1>5, <3>1 DEF TypeOK
  <2> QED
    BY <1>1, <1>2, <2>1 DEF TypeOK
<1>7. RegistryFollows'
  BY <1>1, RegistryStays
<1>8. PageFollows'
  BY <1>1, <1>5 DEF PageFollows
<1>9. ConsumersFollow' /\ OptionsFollow'
  BY <1>1, <1>2, ConsumersStay
<1>10. FieldsFollow'
  <2> SUFFICES ASSUME NEW t \in Services, code[t].jetStream,
                      NEW i \in DOMAIN code[t].streams, IsSetUp(t, i)'
               PROVE  FieldsHold(t, i)'
    BY <1>1 DEF FieldsFollow
  <2>1. \A m, f : Contested(m, f)' = Contested(m, f)
    BY DEF Contested
  <2>2. CASE IsSetUp(t, i)
    <3>1. FieldsHold(t, i)
      BY <2>2 DEF FieldsFollow
    <3> QED
      BY <1>1, <1>5, <2>1, <3>1 DEF FieldsHold
  <2>3. CASE t = s /\ i = next[s] /\ StreamDone(s) /\ ok
    <3>1. code[t].streams[i].name = n /\ code[t].streams[i].config = Config(s).config
      BY <2>3 DEF Config
    <3>2. n \in DOMAIN streams' /\ \A f \in DOMAIN Config(s).config : streams'[n][f] = Config(s).config[f]
      BY <1>4, <1>5, <2>3
    <3> QED
      BY <1>1, <3>1, <3>2 DEF FieldsHold
  <2>4. CASE Goto(s, "failed") /\ UNCHANGED <<next, binding>>
    <3>1. phase' = [phase EXCEPT ![s] = "failed"] /\ next' = next
      BY <2>4 DEF Goto
    <3>2. IsSetUp(t, i)
      BY <3>1 DEF IsSetUp, TypeOK
    <3> QED
      BY <3>2, <2>2
  <2> QED
    BY <1>1, <1>2, <2>2, <2>3, <2>4
<1> QED
  BY <1>2, <1>6, <1>7, <1>8, <1>9, <1>10

(* An update of a stream that is as it was listed keeps the fields it does *)
(* not configure; another one is marked.                                   *)
LEMMA UpdateStreamKeeps ==
  ASSUME IInv, NEW s \in Services, UpdateStream(s)
  PROVE  IInv'
<1> USE DEF IInv
<1> DEFINE n == Config(s).name
           merged == Spread(page[s][n], Config(s).config)
<1>1. /\ UNCHANGED <<code, unregistered, registry, page, consumers, writer, deploys>>
      /\ phase[s] = "streams" /\ n \in DOMAIN page[s]
      /\ streams' = [streams EXCEPT ![n] = merged]
      /\ clobbered' = clobbered \cup {m \in {n} : streams[m] # page[s][m]}
      /\ StreamDone(s) \/ (Goto(s, "failed") /\ UNCHANGED <<next, binding>>)
  BY DEF UpdateStream, Merged
<1>2. /\ phase' \in [Services -> Phases] /\ DOMAIN binding' = Services
      /\ next' \in [Services -> Nat]
      /\ \A t \in Services : next'[t] = 1 \/ next'[t] \in DOMAIN code[t].streams
      /\ PhaseFollows'
      /\ \A t \in Services : \A p \in DOMAIN binding'[t] :
           binding'[t][p] \in {"update", "bound"} => p \in DOMAIN binding[t] /\ binding'[t][p] = binding[t][p]
      /\ \A t \in Services : \A i \in DOMAIN code[t].streams :
           IsSetUp(t, i)' => IsSetUp(t, i) \/ (t = s /\ i = next[s] /\ StreamDone(s))
  BY <1>1, StreamStepEffect
<1>3. /\ code[s] \in Versions /\ next[s] \in DOMAIN code[s].streams
      /\ DOMAIN Config(s).config \subseteq DOMAIN Defaults
      /\ n \in DOMAIN streams /\ DOMAIN page[s][n] = DOMAIN Defaults
  BY <1>1, SetupAssumption DEF SetupAssumption, TypeOK, PhaseFollows, PageFollows, Config
<1>4. /\ DOMAIN merged = DOMAIN Defaults
      /\ \A f \in DOMAIN Config(s).config : merged[f] = Config(s).config[f]
      /\ \A f \in DOMAIN Defaults \ DOMAIN Config(s).config : merged[f] = page[s][n][f]
  <2>1. /\ DOMAIN merged = DOMAIN page[s][n] \cup DOMAIN Config(s).config
        /\ \A f \in DOMAIN Config(s).config : merged[f] = Config(s).config[f]
        /\ \A f \in DOMAIN page[s][n] \ DOMAIN Config(s).config : merged[f] = page[s][n][f]
    BY SpreadFields
  <2> QED
    BY <1>3, <2>1
<1> HIDE DEF merged
<1>5. /\ DOMAIN streams' = DOMAIN streams /\ streams'[n] = merged
      /\ \A m \in DOMAIN streams \ {n} : streams'[m] = streams[m]
  BY <1>1, <1>3
<1>6. TypeOK'
  <2>1. \A m \in DOMAIN streams' : DOMAIN streams'[m] = DOMAIN Defaults
    BY <1>4, <1>5 DEF TypeOK
  <2> QED
    BY <1>1, <1>2, <1>5, <2>1 DEF TypeOK
<1>7. RegistryFollows'
  BY <1>1, RegistryStays
<1>8. PageFollows'
  BY <1>1, <1>5 DEF PageFollows
<1>9. ConsumersFollow' /\ OptionsFollow'
  BY <1>1, <1>2, ConsumersStay
<1>10. FieldsFollow'
  <2> SUFFICES ASSUME NEW t \in Services, code[t].jetStream,
                      NEW i \in DOMAIN code[t].streams, IsSetUp(t, i)'
               PROVE  FieldsHold(t, i)'
    BY <1>1 DEF FieldsFollow
  <2> DEFINE m == code[t].streams[i].name
             wanted == code[t].streams[i].config
  <2>1. \A k, f : Contested(k, f)' = Contested(k, f)
    BY DEF Contested
  <2>2. CASE IsSetUp(t, i)
    <3>1. FieldsHold(t, i)
      BY <2>2 DEF FieldsFollow
    <3>2. CASE m # n
      BY <1>1, <1>5, <2>1, <3>1, <3>2 DEF FieldsHold
    <3>3. CASE m = n /\ streams[n] = page[s][n]
      <4>1. code[t] \in Versions /\ DOMAIN wanted \subseteq DOMAIN Defaults
        BY SetupAssumption DEF SetupAssumption, TypeOK
      <4>2. ASSUME NEW f \in DOMAIN wanted, ~Contested(n, f), n \notin clobbered
            PROVE  merged[f] = wanted[f]
        <5>1. streams[n][f] = wanted[f]
          BY <3>1, <3>3, <4>2 DEF FieldsHold
        <5>2. CASE f \in DOMAIN Config(s).config
          <6>1. Config(s).config[f] = wanted[f]
            <7> DEFINE v == code[s]
                       j == next[s]
            <7>1. /\ v \in Versions /\ j \in DOMAIN v.streams
                  /\ v.streams[j].name = n /\ v.streams[j].config = Config(s).config
              BY <1>3 DEF Config
            <7>2. /\ code[t] \in Versions /\ i \in DOMAIN code[t].streams
                  /\ code[t].streams[i].name = n /\ code[t].streams[i].config = wanted
              BY <3>3, <4>1
            <7> HIDE DEF v, j, n, wanted
            <7>3. v.streams[j].config[f] = code[t].streams[i].config[f]
              BY <7>1, <7>2, <4>2, <5>2 DEF Contested
            <7> QED
              BY <7>1, <7>2, <7>3
          <6> QED
            BY <1>4, <5>2, <6>1
        <5>3. CASE f \notin DOMAIN Config(s).config
          BY <1>4, <3>3, <4>1, <5>1, <5>3
        <5> QED
          BY <5>2, <5>3
      <4> QED
        BY <1>1, <1>3, <1>5, <2>1, <3>3, <4>2 DEF FieldsHold
    <3>4. CASE m = n /\ streams[n] # page[s][n]
      BY <1>1, <3>4 DEF FieldsHold
    <3> QED
      BY <3>2, <3>3, <3>4
  <2>3. CASE t = s /\ i = next[s]
    BY <1>1, <1>3, <1>4, <1>5, <2>3 DEF FieldsHold, Config
  <2> QED
    BY <1>2, <2>2, <2>3
<1> QED
  BY <1>2, <1>6, <1>7, <1>8, <1>9, <1>10

(* Whatever has the options of an update, as they are, is in force.        *)
LEMMA PickedInForce ==
  ASSUME NEW s, NEW p, NEW options,
         \A f \in DOMAIN UpdateOptions(s, p) :
           f \in DOMAIN options /\ options[f] = UpdateOptions(s, p)[f]
  PROVE  InForce(s, p, options)
<1> DEFINE h == Head(Chain(registry[s], p))
           globals == code[s].globalEventOptions
           written == {g \in DOMAIN h.extras : h.extras[g] # "unset"}
           wanted(f) == IF f \in written THEN h.extras[f] ELSE globals[f]
           event == BuildEventOptions(h, globals)
<1> SUFFICES ASSUME NEW f \in (written \cup DOMAIN globals) \cap DocumentedOptions,
                    ~(wanted(f) = "unset" \/ (wanted(f) = "falsy" /\ f # "headers_only"))
             PROVE  f \in DOMAIN options /\ options[f] = wanted(f)
  BY DEF InForce
<1>1. f \in DOMAIN event \cap DocumentedOptions /\ event[f] = wanted(f)
  BY DEF BuildEventOptions
<1>2. UpdateOptions(s, p) = PickConsumerOptions(event)
  BY DEF UpdateOptions, EventOptions
<1> HIDE DEF event, wanted
<1>3. f \in DOMAIN PickConsumerOptions(event) /\ PickConsumerOptions(event)[f] = event[f]
  BY <1>1, PickedFields
<1> QED
  BY <1>1, <1>2, <1>3

(* One handler of bindJetStreamEvents() goes on.                           *)
LEMMA BindStep ==
  ASSUME IInv, NEW s \in Services, NEW p, NEW from, At(s, p, from), NEW step, Step(s, p, step),
         UNCHANGED <<code, unregistered, registry, page, next, streams, clobbered>>
  PROVE  /\ phase' \in [Services -> Phases] /\ DOMAIN binding' = Services
         /\ RegistryFollows' /\ PhaseFollows' /\ PageFollows' /\ FieldsFollow'
         /\ \A t \in Services : DOMAIN binding'[t] = DOMAIN binding[t]
         /\ binding'[s][p] = step
         /\ \A t \in Services : \A q \in DOMAIN binding[t] :
              (t = s /\ q = p) \/ binding'[t][q] = binding[t][q]
<1> USE DEF IInv
<1>1. p \in DOMAIN binding[s] /\ phase[s] \in {"binding", "failed"}
  BY DEF At
<1>2. /\ phase' \in [Services -> Phases]
      /\ phase'[s] = "failed" \/ (phase[s] = "binding" /\ phase'[s] \in {"binding", "started"})
      /\ DOMAIN binding' = Services /\ DOMAIN binding'[s] = DOMAIN binding[s]
      /\ binding'[s][p] = step
      /\ \A q \in DOMAIN binding[s] \ {p} : binding'[s][q] = binding[s][q]
      /\ \A t \in Services \ {s} : phase'[t] = phase[t] /\ binding'[t] = binding[t]
  BY <1>1, StepEffect
<1>3. RegistryFollows'
  BY RegistryStays
<1>4. PhaseFollows'
  BY <1>1, <1>2 DEF PhaseFollows
<1>5. PageFollows'
  BY DEF PageFollows
<1>6. FieldsFollow'
  <2>1. \A t \in Services : \A i \in DOMAIN code[t].streams : IsSetUp(t, i)' => IsSetUp(t, i)
    BY <1>2 DEF IsSetUp
  <2> QED
    BY <2>1, FieldsStay
<1> QED
  BY <1>2, <1>3, <1>4, <1>5, <1>6

(* The choice of a stream keeps the invariant.                             *)
LEMMA FindStreamKeeps ==
  ASSUME IInv, NEW s \in Services, NEW p, FindStream(s, p)
  PROVE  IInv'
<1> USE DEF IInv
<1>1. PICK step \in {"get", "failed"} : Step(s, p, step)
  BY DEF FindStream
<1>2. /\ At(s, p, "find")
      /\ UNCHANGED <<code, unregistered, registry, page, next, nats, counters>>
  BY DEF FindStream
<1>3. /\ phase' \in [Services -> Phases] /\ DOMAIN binding' = Services
      /\ RegistryFollows' /\ PhaseFollows' /\ PageFollows' /\ FieldsFollow'
      /\ \A t \in Services : DOMAIN binding'[t] = DOMAIN binding[t]
      /\ binding'[s][p] = step
      /\ \A t \in Services : \A q \in DOMAIN binding[t] :
           (t = s /\ q = p) \/ binding'[t][q] = binding[t][q]
  BY <1>1, <1>2, BindStep DEF nats
<1>4. ConsumersFollow' /\ OptionsFollow'
  <2>1. \A t \in Services : \A q \in DOMAIN binding'[t] :
          binding'[t][q] \in {"update", "bound"} => q \in DOMAIN binding[t] /\ binding'[t][q] = binding[t][q]
    BY <1>3
  <2> QED
    BY <1>2, <2>1, ConsumersStay DEF nats
<1>5. TypeOK'
  BY <1>2, <1>3 DEF TypeOK, nats
<1> QED
  BY <1>3, <1>4, <1>5

(* Asking for a consumer keeps the invariant.                              *)
LEMMA GetConsumerKeeps ==
  ASSUME IInv, NEW s \in Services, NEW p, GetConsumer(s, p)
  PROVE  IInv'
<1> USE DEF IInv
<1>1. PICK step \in {"update", "add"} :
        Step(s, p, step) /\ (step = "update" => ConsumerName(s, p) \in DOMAIN consumers)
  BY DEF GetConsumer
<1>2. /\ At(s, p, "get")
      /\ UNCHANGED <<code, unregistered, registry, page, next, nats, counters>>
  BY DEF GetConsumer
<1>3. /\ phase' \in [Services -> Phases] /\ DOMAIN binding' = Services
      /\ RegistryFollows' /\ PhaseFollows' /\ PageFollows' /\ FieldsFollow'
      /\ \A t \in Services : DOMAIN binding'[t] = DOMAIN binding[t]
      /\ binding'[s][p] = step
      /\ \A t \in Services : \A q \in DOMAIN binding[t] :
           (t = s /\ q = p) \/ binding'[t][q] = binding[t][q]
  BY <1>1, <1>2, BindStep DEF nats
<1>4. ConsumersFollow' /\ OptionsFollow'
  <2>1. \A t, q : ConsumerName(t, q)' = ConsumerName(t, q)
    BY <1>2 DEF ConsumerName
  <2>2. \A t \in Services : \A q \in DOMAIN binding'[t] :
          binding'[t][q] \in {"update", "bound"} =>
            \/ binding'[t][q] = "update" /\ ConsumerName(t, q)' \in DOMAIN consumers
            \/ q \in DOMAIN binding[t] /\ binding'[t][q] = binding[t][q]
    BY <1>1, <1>3, <2>1
  <2> QED
    BY <1>2, <2>2, ConsumersStay DEF nats
<1>5. TypeOK'
  BY <1>2, <1>3 DEF TypeOK, nats
<1> QED
  BY <1>3, <1>4, <1>5

(* A consumer is written with the options of the handler that writes it,   *)
(* or the handler fails.                                                   *)
LEMMA WriteKeeps ==
  ASSUME IInv, NEW s \in Services, NEW p, NEW from, At(s, p, from), NEW step, Step(s, p, step),
         step \in {"bound", "failed"}, NEW options,
         \/ /\ consumers' = Put(consumers, ConsumerName(s, p), options)
            /\ writer' = Put(writer, ConsumerName(s, p), s)
            /\ "deliver_policy" \in DOMAIN options /\ InForce(s, p, options)
            /\ DOMAIN options \cap LibraryOptions = {}
         \/ step = "failed" /\ UNCHANGED <<consumers, writer>>,
         UNCHANGED <<code, unregistered, registry, page, next, streams, clobbered, deploys>>
  PROVE  IInv'
<1> USE DEF IInv
<1>1. /\ phase' \in [Services -> Phases] /\ DOMAIN binding' = Services
      /\ RegistryFollows' /\ PhaseFollows' /\ PageFollows' /\ FieldsFollow'
      /\ \A t \in Services : DOMAIN binding'[t] = DOMAIN binding[t]
      /\ binding'[s][p] = step
      /\ \A t \in Services : \A q \in DOMAIN binding[t] :
           (t = s /\ q = p) \/ binding'[t][q] = binding[t][q]
  BY BindStep
<1>2. p \in DOMAIN binding[s]
  BY DEF At
<1> DEFINE c == ConsumerName(s, p)
<1>3. /\ \A t, q : ConsumerName(t, q)' = ConsumerName(t, q)
      /\ \A q : ConsumerName(s, q) = c => q = p
      /\ \A t, q, o : InForce(t, q, o)' <=> InForce(t, q, o)
  BY DEF ConsumerName, InForce
<1>4. CASE /\ consumers' = Put(consumers, c, options) /\ writer' = Put(writer, c, s)
           /\ "deliver_policy" \in DOMAIN options /\ InForce(s, p, options)
           /\ DOMAIN options \cap LibraryOptions = {}
  <2>1. /\ DOMAIN consumers' = DOMAIN consumers \cup {c} /\ consumers'[c] = options
        /\ \A d \in DOMAIN consumers \ {c} : consumers'[d] = consumers[d]
        /\ DOMAIN writer' = DOMAIN writer \cup {c} /\ writer'[c] = s
        /\ \A d \in DOMAIN writer \ {c} : writer'[d] = writer[d]
    BY <1>4 DEF Put
  <2>2. TypeOK'
    BY <1>1, <2>1 DEF TypeOK
  <2>3. ConsumersFollow'
    <3>1. \A d \in DOMAIN consumers' : "deliver_policy" \in DOMAIN consumers'[d]
      BY <1>4, <2>1 DEF ConsumersFollow
    <3>2. \A t \in Services : \A q \in DOMAIN binding'[t] :
            binding'[t][q] \in {"update", "bound"} => ConsumerName(t, q) \in DOMAIN consumers'
      BY <1>1, <2>1 DEF ConsumersFollow
    <3> QED
      BY <1>3, <3>1, <3>2 DEF ConsumersFollow
  <2>4. OptionsFollow'
    <3>1. ASSUME NEW t \in Services, NEW q \in DOMAIN binding'[t], binding'[t][q] = "bound",
                 writer'[ConsumerName(t, q)] = t
          PROVE  InForce(t, q, consumers'[ConsumerName(t, q)])
      <4>1. CASE t = s /\ q = p
        BY <1>4, <2>1, <4>1
      <4>2. CASE ~(t = s /\ q = p)
        <5>1. q \in DOMAIN binding[t] /\ binding[t][q] = "bound" /\ ConsumerName(t, q) \in DOMAIN consumers
          BY <1>1, <3>1, <4>2 DEF ConsumersFollow
        <5>2. ConsumerName(t, q) # c
          BY <1>3, <2>1, <3>1, <4>2
        <5>3. /\ consumers'[ConsumerName(t, q)] = consumers[ConsumerName(t, q)]
              /\ writer[ConsumerName(t, q)] = t
          BY <2>1, <3>1, <5>1, <5>2 DEF TypeOK
        <5> QED
          BY <5>1, <5>3 DEF OptionsFollow
      <4> QED
        BY <4>1, <4>2
    <3>2. \A d \in DOMAIN consumers' : DOMAIN consumers'[d] \cap LibraryOptions = {}
      BY <1>4, <2>1 DEF OptionsFollow
    <3>3. ASSUME NEW t \in Services, NEW q \in DOMAIN binding'[t], binding'[t][q] = "bound",
                 writer'[ConsumerName(t, q)'] = t
          PROVE  InForce(t, q, consumers[ConsumerName(t, q)])'
      <4>1. ConsumerName(t, q)' = ConsumerName(t, q)
        BY <1>3
      <4>2. InForce(t, q, consumers'[ConsumerName(t, q)])
        BY <3>1, <3>3, <4>1
      <4> QED
        BY <4>1, <4>2 DEF InForce
    <3> QED
      BY <3>2, <3>3 DEF OptionsFollow
  <2> QED
    BY <1>1, <2>2, <2>3, <2>4
<1>5. CASE step = "failed" /\ UNCHANGED <<consumers, writer>>
  <2>1. \A t \in Services : \A q \in DOMAIN binding'[t] :
          binding'[t][q] \in {"update", "bound"} => q \in DOMAIN binding[t] /\ binding'[t][q] = binding[t][q]
    BY <1>1, <1>5
  <2>2. ConsumersFollow' /\ OptionsFollow'
    BY <1>5, <2>1, ConsumersStay
  <2>3. TypeOK'
    BY <1>1, <1>5 DEF TypeOK
  <2> QED
    BY <1>1, <2>2, <2>3
<1> QED
  BY <1>4, <1>5

(* An update of a consumer keeps the invariant.                            *)
LEMMA UpdateConsumerKeeps ==
  ASSUME IInv, NEW s \in Services, NEW p, UpdateConsumer(s, p)
  PROVE  IInv'
<1> DEFINE c == ConsumerName(s, p)
           options == Spread(consumers[c], UpdateOptions(s, p))
<1>1. /\ At(s, p, "update") /\ WriteConsumer(s, p, options, TRUE)
      /\ UNCHANGED <<code, unregistered, registry, page, next, streams, clobbered, deploys>>
  BY DEF UpdateConsumer
<1>2. /\ DOMAIN options = DOMAIN consumers[c] \cup DOMAIN UpdateOptions(s, p)
      /\ \A f \in DOMAIN UpdateOptions(s, p) : options[f] = UpdateOptions(s, p)[f]
  BY DEF Spread
<1>3. InForce(s, p, options)
  BY <1>2, PickedInForce
<1>4. "deliver_policy" \in DOMAIN options /\ DOMAIN options \cap LibraryOptions = {}
  <2>1. c \in DOMAIN consumers /\ "deliver_policy" \in DOMAIN consumers[c]
    BY <1>1 DEF IInv, ConsumersFollow, At
  <2>2. DOMAIN consumers[c] \cap LibraryOptions = {}
    BY <2>1 DEF IInv, OptionsFollow
  <2>3. DOMAIN UpdateOptions(s, p) \cap LibraryOptions = {}
    BY PickedFields DEF UpdateOptions
  <2> QED
    BY <1>2, <2>1, <2>2, <2>3
<1> HIDE DEF options
<1>5. PICK step \in {"bound", "failed"} :
        /\ Step(s, p, step)
        /\ consumers' = Put(consumers, c, options) /\ writer' = Put(writer, c, s)
  BY <1>1 DEF WriteConsumer
<1> QED
  BY <1>1, <1>3, <1>4, <1>5, WriteKeeps

(* A new consumer keeps the invariant.                                     *)
LEMMA AddConsumerKeeps ==
  ASSUME IInv, NEW s \in Services, NEW p, AddConsumer(s, p)
  PROVE  IInv'
<1> DEFINE c == ConsumerName(s, p)
           options == CreationOptions(EventOptions(s, p))
<1>1. /\ At(s, p, "add") /\ WriteConsumer(s, p, options, Accepts(consumers, c, options))
      /\ UNCHANGED <<code, unregistered, registry, page, next, streams, clobbered, deploys>>
  BY DEF AddConsumer
<1>2. /\ "deliver_policy" \in DOMAIN options /\ DOMAIN options \cap LibraryOptions = {}
      /\ \A f \in DOMAIN UpdateOptions(s, p) : f \in DOMAIN options /\ options[f] = UpdateOptions(s, p)[f]
  BY CreationFields DEF UpdateOptions
<1> HIDE DEF options
<1>3. InForce(s, p, options)
  BY <1>2, PickedInForce
<1>4. PICK step \in {"bound", "failed"} :
        /\ Step(s, p, step)
        /\ \/ consumers' = Put(consumers, c, options) /\ writer' = Put(writer, c, s)
           \/ step = "failed" /\ UNCHANGED <<consumers, writer>>
  <2>1. CASE Accepts(consumers, c, options)
    BY <1>1, <2>1 DEF WriteConsumer
  <2>2. CASE ~Accepts(consumers, c, options)
    BY <1>1, <2>2 DEF WriteConsumer
  <2> QED
    BY <2>1, <2>2
<1> QED
  BY <1>1, <1>2, <1>3, <1>4, WriteKeeps

(* A request that fails keeps the invariant.                               *)
LEMMA RequestFailsKeeps ==
  ASSUME IInv, NEW s \in Services, RequestFails(s)
  PROVE  IInv'
<1> USE DEF IInv
<1>1. UNCHANGED <<code, unregistered, registry, page, next, nats, deploys>>
  BY DEF RequestFails
<1>2. CASE phase[s] \in {"listing", "streams"} /\ Goto(s, "failed") /\ UNCHANGED binding
  <2>1. /\ phase' \in [Services -> Phases] /\ phase'[s] = "failed" /\ binding' = binding
        /\ \A t \in Services \ {s} : phase'[t] = phase[t]
    BY <1>2 DEF TypeOK, Goto, Phases
  <2>2. TypeOK'
    BY <1>1, <2>1 DEF TypeOK, nats
  <2>3. RegistryFollows'
    BY <1>1, RegistryStays
  <2>4. PhaseFollows'
    BY <1>1, <1>2, <2>1 DEF PhaseFollows
  <2>5. PageFollows'
    BY <1>1 DEF PageFollows, nats
  <2>6. ConsumersFollow' /\ OptionsFollow'
    BY <1>1, <2>1, ConsumersStay DEF nats
  <2>7. FieldsFollow'
    <3>1. \A t \in Services : \A i \in DOMAIN code[t].streams : IsSetUp(t, i)' => IsSetUp(t, i)
      BY <1>1, <2>1 DEF IsSetUp
    <3> QED
      BY <1>1, <3>1, FieldsStay DEF nats
  <2> QED
    BY <2>2, <2>3, <2>4, <2>5, <2>6, <2>7
<1>3. ASSUME NEW p \in DOMAIN binding[s], NEW step \in {"find", "get", "update", "add"},
             At(s, p, step), Step(s, p, "failed")
      PROVE  IInv'
  BY <1>1, <1>3, WriteKeeps DEF nats
<1> QED
  BY <1>2, <1>3 DEF RequestFails

(* A new attempt begins with nothing bound.                                *)
LEMMA BackKeeps ==
  ASSUME IInv, NEW s \in Services, Retry(s) \/ Reconnect(s)
  PROVE  IInv'
<1> USE DEF IInv
<1>1. /\ UNCHANGED <<code, unregistered, registry, page, next, nats>>
      /\ binding' = [binding EXCEPT ![s] = <<>>]
      /\ phase' = [phase EXCEPT ![s] = "registering"]
  BY DEF Retry, Reconnect, Goto
<1>2. /\ phase' \in [Services -> Phases] /\ phase'[s] = "registering"
      /\ DOMAIN binding' = Services /\ DOMAIN binding'[s] = {}
      /\ \A t \in Services \ {s} : phase'[t] = phase[t] /\ binding'[t] = binding[t]
  BY <1>1 DEF TypeOK, Phases
<1>3. TypeOK'
  BY <1>1, <1>2 DEF TypeOK, nats
<1>4. RegistryFollows'
  BY <1>1, RegistryStays
<1>5. PhaseFollows'
  BY <1>1, <1>2 DEF PhaseFollows
<1>6. PageFollows'
  BY <1>1 DEF PageFollows, nats
<1>7. ConsumersFollow' /\ OptionsFollow'
  <2>1. \A t \in Services : \A q \in DOMAIN binding'[t] : q \in DOMAIN binding[t] /\ binding'[t][q] = binding[t][q]
    BY <1>2
  <2> QED
    BY <1>1, <2>1, ConsumersStay DEF nats
<1>8. FieldsFollow'
  <2>1. \A t \in Services : \A i \in DOMAIN code[t].streams : IsSetUp(t, i)' => IsSetUp(t, i)
    BY <1>1, <1>2 DEF IsSetUp
  <2> QED
    BY <1>1, <2>1, FieldsStay DEF nats
<1> QED
  BY <1>3, <1>4, <1>5, <1>6, <1>7, <1>8

(* Another version starts with an empty registry.                          *)
LEMMA DeployKeeps ==
  ASSUME IInv, NEW s \in Services, Deploy(s)
  PROVE  IInv'
<1> USE DEF IInv
<1>1. PICK v \in Versions : /\ code' = [code EXCEPT ![s] = v]
                            /\ unregistered' = [unregistered EXCEPT ![s] = v.handlers]
  BY DEF Deploy
<1>2. /\ registry' = [registry EXCEPT ![s] = Empty]
      /\ page' = [page EXCEPT ![s] = <<>>] /\ next' = [next EXCEPT ![s] = 1]
      /\ binding' = [binding EXCEPT ![s] = <<>>]
      /\ phase' = [phase EXCEPT ![s] = "registering"]
      /\ UNCHANGED nats
  BY DEF Deploy, Goto
<1>3. /\ code'[s] = v /\ unregistered'[s] = v.handlers /\ registry'[s] = Empty
      /\ DOMAIN page'[s] = {} /\ next'[s] = 1 /\ DOMAIN binding'[s] = {} /\ phase'[s] = "registering"
  BY <1>1, <1>2 DEF TypeOK
<1>4. \A t \in Services \ {s} :
        /\ code'[t] = code[t] /\ unregistered'[t] = unregistered[t] /\ registry'[t] = registry[t]
        /\ page'[t] = page[t] /\ next'[t] = next[t] /\ binding'[t] = binding[t] /\ phase'[t] = phase[t]
  BY <1>1, <1>2 DEF TypeOK
<1>5. TypeOK'
  <2>1. /\ code' \in [Services -> Versions] /\ phase' \in [Services -> Phases]
        /\ next' \in [Services -> Nat]
        /\ DOMAIN registry' = Services /\ DOMAIN page' = Services /\ DOMAIN binding' = Services
    BY <1>1, <1>2 DEF TypeOK, Phases
  <2>2. unregistered' \in [Services -> SUBSET UNION {w.handlers : w \in Versions}]
    <3>1. v.handlers \in SUBSET UNION {w.handlers : w \in Versions}
      OBVIOUS
    <3> QED
      BY <1>1, <3>1 DEF TypeOK
  <2>3. \A t \in Services : /\ unregistered'[t] \subseteq code'[t].handlers
                            /\ DOMAIN page'[t] \subseteq StreamNames
                            /\ next'[t] = 1 \/ next'[t] \in DOMAIN code'[t].streams
    BY <1>3, <1>4 DEF TypeOK
  <2> QED
    BY <1>2, <2>1, <2>2, <2>3 DEF TypeOK, nats
<1>6. RegistryFollows'
  <2>1. /\ registry'[s].sharedRpcPatterns = {} /\ Patterns(registry'[s]) = {}
        /\ code'[s].handlers \ unregistered'[s] = {}
    BY <1>3 DEF Empty, Patterns
  <2>2. ASSUME NEW t \in Services, t # s
        PROVE  /\ registry'[t].sharedRpcPatterns \subseteq Patterns(registry'[t])
               /\ \A h \in code'[t].handlers \ unregistered'[t] : h.pattern \in Patterns(registry'[t])
               /\ \A p \in Patterns(registry'[t]) : ChainFollows(t, p)'
    <3>1. \A p : Candidates(t, p)' = Candidates(t, p)
      BY <1>4, <2>2 DEF Candidates
    <3>2. ASSUME NEW p \in Patterns(registry'[t])
          PROVE  ChainFollows(t, p)'
      <4>1. ChainFollows(t, p)
        BY <1>4, <2>2, <3>2 DEF RegistryFollows
      <4>2. registry'[t] = registry[t]
        BY <1>4, <2>2
      <4> QED
        BY <3>1, <4>1, <4>2 DEF ChainFollows
    <3> QED
      BY <1>4, <2>2, <3>2 DEF RegistryFollows
  <2> QED
    BY <2>1, <2>2 DEF RegistryFollows
<1>7. PhaseFollows'
  BY <1>3, <1>4 DEF PhaseFollows
<1>8. PageFollows'
  BY <1>2, <1>3, <1>4 DEF PageFollows, nats
<1>9. ConsumersFollow' /\ OptionsFollow'
  BY <1>2, <1>3, <1>4, ConsumersStay DEF nats
<1>10. FieldsFollow'
  <2>1. \A t \in Services : \A i \in DOMAIN code'[t].streams :
          IsSetUp(t, i)' => code'[t] = code[t] /\ IsSetUp(t, i)
    BY <1>3, <1>4 DEF IsSetUp
  <2> QED
    BY <1>2, <2>1, FieldsStay DEF nats
<1> QED
  BY <1>5, <1>6, <1>7, <1>8, <1>9, <1>10

-----------------------------------------------------------------------------
(* The theorems *)

(* The invariant holds before anything is registered.                      *)
LEMMA InitHolds == Init => IInv
<1> SUFFICES ASSUME Init PROVE IInv
  OBVIOUS
<1> USE DEF Init
<1>1. TypeOK
  <2>1. \A s \in Services : code[s] \in Versions /\ unregistered[s] = code[s].handlers
    BY SetupAssumption DEF SetupAssumption
  <2>2. unregistered \in [Services -> SUBSET UNION {v.handlers : v \in Versions}]
    BY <2>1
  <2>3. DOMAIN <<>> = {}
    OBVIOUS
  <2> QED
    BY <2>1, <2>2, <2>3, SetupAssumption DEF TypeOK, SetupAssumption, Phases
<1>2. RegistryFollows
  BY DEF RegistryFollows, Empty, Patterns
<1>3. PhaseFollows
  BY DEF PhaseFollows
<1>4. PageFollows
  BY DEF PageFollows
<1>5. ConsumersFollow /\ OptionsFollow
  BY DEF ConsumersFollow, OptionsFollow
<1>6. FieldsFollow
  BY DEF FieldsFollow, IsSetUp
<1> QED
  BY <1>1, <1>2, <1>3, <1>4, <1>5, <1>6 DEF IInv

(* A step that changes nothing keeps the invariant.                        *)
LEMMA StutterKeeps ==
  ASSUME IInv, UNCHANGED vars
  PROVE  IInv'
<1> USE DEF IInv, vars, service, nats, counters
<1>1. TypeOK'
  BY DEF TypeOK
<1>2. RegistryFollows'
  BY RegistryStays
<1>3. PhaseFollows' /\ PageFollows'
  BY DEF PhaseFollows, PageFollows
<1>4. ConsumersFollow' /\ OptionsFollow'
  BY ConsumersStay
<1>5. FieldsFollow'
  BY FieldsStay DEF IsSetUp
<1> QED
  BY <1>1, <1>2, <1>3, <1>4, <1>5

(* The invariant holds in every state, for any services and versions.      *)
THEOREM Invariance == Spec => []IInv
<1>1. IInv /\ [Next]_vars => IInv'
  <2> SUFFICES ASSUME IInv, [Next]_vars PROVE IInv'
    OBVIOUS
  <2>1. ASSUME NEW s \in Services, Setup(s)
        PROVE  IInv'
    BY <2>1, RegisterKeeps, ListenKeeps, ListKeeps, AddStreamKeeps, UpdateStreamKeeps,
       FindStreamKeeps, GetConsumerKeeps, UpdateConsumerKeeps, AddConsumerKeeps DEF Setup, Bind
  <2>2. ASSUME NEW s \in Services, RequestFails(s) \/ Retry(s) \/ Reconnect(s) \/ Deploy(s)
        PROVE  IInv'
    BY <2>2, RequestFailsKeeps, BackKeeps, DeployKeeps
  <2>3. CASE UNCHANGED vars
    BY <2>3, StutterKeeps
  <2> QED
    BY <2>1, <2>2, <2>3 DEF Next
<1> QED
  BY <1>1, InitHolds, PTL DEF Spec

(* Every variable has its type.                                            *)
THEOREM TypeCorrect == Spec => []TypeOK
<1>1. IInv => TypeOK
  BY DEF IInv
<1> QED
  BY <1>1, Invariance, PTL

(* What addHandler() has marked, and only that, hides a handler: start()   *)
(* refuses exactly the registries in which a handler would not be called,  *)
(* or two would share an acknowledgement.                                  *)
LEMMA RefusalIsRight ==
  ASSUME RegistryFollows, NEW s \in Services, unregistered[s] = {}
  PROVE  LET hidden == \E h \in code[s].handlers : h \notin Called(registry[s], h.pattern)
             shared == \E p \in EventPatterns(registry[s]) : Cardinality(Called(registry[s], p)) > 1
         IN Refused(registry[s], code[s].jetStream) <=> hidden \/ (code[s].jetStream /\ shared)
<1> DEFINE reg == registry[s]
           hidden == \E h \in code[s].handlers : h \notin Called(reg, h.pattern)
           shared == \E p \in EventPatterns(reg) : Cardinality(Called(reg, p)) > 1
<1>1. /\ reg.sharedRpcPatterns \subseteq Patterns(reg)
      /\ \A h \in code[s].handlers : h.pattern \in Patterns(reg)
      /\ \A p \in Patterns(reg) : ChainFollows(s, p)
  BY DEF RegistryFollows
<1>2. \A p : Candidates(s, p) = {h \in code[s].handlers : h.pattern = p}
  BY DEF Candidates
<1>3. ASSUME NEW p \in Patterns(reg)
      PROVE  /\ Head(Chain(reg, p)) \in Candidates(s, p)
             /\ Head(Chain(reg, p)).event => p \notin reg.sharedRpcPatterns
             /\ Head(Chain(reg, p)).event => Candidates(s, p) \subseteq ToSet(Chain(reg, p))
             /\ ~Head(Chain(reg, p)).event =>
                  (p \in reg.sharedRpcPatterns <=> Candidates(s, p) # {Head(Chain(reg, p))})
             /\ Cardinality(ToSet(Chain(reg, p))) > 1 <=> Len(Chain(reg, p)) > 1
  <2>1. ChainFollows(s, p)
    BY <1>1, <1>3
  <2>2. /\ Chain(reg, p) \in Seq(Candidates(s, p)) /\ Chain(reg, p) # <<>>
        /\ \A i, j \in DOMAIN Chain(reg, p) : Chain(reg, p)[i] = Chain(reg, p)[j] => i = j
    BY <2>1 DEF ChainFollows
  <2>3. Head(Chain(reg, p)) \in Candidates(s, p)
    BY <2>2, HeadTailProperties
  <2>4. Cardinality(ToSet(Chain(reg, p))) > 1 <=> Len(Chain(reg, p)) > 1
    BY <2>2, ManyInChain
  <2> QED
    BY <2>1, <2>3, <2>4 DEF ChainFollows
<1>4. /\ \A p \in EventPatterns(reg) : Called(reg, p) = ToSet(Chain(reg, p))
      /\ \A p \in Patterns(reg) \ EventPatterns(reg) : Called(reg, p) = {Head(Chain(reg, p))}
      /\ EventPatterns(reg) = {p \in Patterns(reg) : Head(Chain(reg, p)).event}
  BY DEF Called, EventPatterns
<1> HIDE DEF reg
<1>5. hidden => reg.sharedRpcPatterns # {}
  <2> SUFFICES ASSUME NEW h \in code[s].handlers, h \notin Called(reg, h.pattern)
               PROVE  h.pattern \in reg.sharedRpcPatterns
    OBVIOUS
  <2> DEFINE p == h.pattern
  <2>1. p \in Patterns(reg) /\ h \in Candidates(s, p)
    BY <1>1, <1>2
  <2>2. p \notin EventPatterns(reg)
    BY <1>3, <1>4, <2>1
  <2>3. Head(Chain(reg, p)) # h /\ ~Head(Chain(reg, p)).event
    BY <1>4, <2>1, <2>2
  <2> QED
    BY <1>3, <2>1, <2>3
<1>6. reg.sharedRpcPatterns # {} => hidden
  <2> SUFFICES ASSUME NEW p \in reg.sharedRpcPatterns PROVE hidden
    OBVIOUS
  <2>1. p \in Patterns(reg) /\ ~Head(Chain(reg, p)).event
    BY <1>1, <1>3
  <2>2. PICK h \in Candidates(s, p) : h # Head(Chain(reg, p))
    BY <1>3, <2>1
  <2>3. Called(reg, p) = {Head(Chain(reg, p))}
    BY <1>4, <2>1
  <2> QED
    BY <1>2, <2>2, <2>3
<1>7. shared <=> \E p \in EventPatterns(reg) : Len(Chain(reg, p)) > 1
  BY <1>3, <1>4
<1> QED
  BY <1>5, <1>6, <1>7 DEF Refused, reg

(* A started service calls every handler it has registered, in whatever    *)
(* order, and a refused one would not, or would acknowledge an event twice.*)
THEOREM HandlersCalled == Spec => []NoHandlerHidden
<1>1. IInv => NoHandlerHidden
  <2> SUFFICES ASSUME IInv, NEW s \in Services, phase[s] \in {"started", "refused"}
               PROVE  LET hidden == \E h \in code[s].handlers : h \notin Called(registry[s], h.pattern)
                          shared == \E p \in EventPatterns(registry[s]) : Cardinality(Called(registry[s], p)) > 1
                      IN /\ phase[s] = "started" => ~hidden /\ ~(code[s].jetStream /\ shared)
                         /\ phase[s] = "refused" => hidden \/ (code[s].jetStream /\ shared)
    BY DEF NoHandlerHidden, Started
  <2>1. /\ unregistered[s] = {}
        /\ phase[s] = "started" => ~Refused(registry[s], code[s].jetStream)
        /\ phase[s] = "refused" => Refused(registry[s], code[s].jetStream)
    BY DEF IInv, PhaseFollows
  <2> QED
    BY <2>1, RefusalIsRight DEF IInv
<1> QED
  BY <1>1, Invariance, PTL

(* The fields a service has configured stay on its streams while others    *)
(* set the same streams up, unless a list was out of date.                 *)
THEOREM ConfiguredFieldsStay == Spec => []FieldsKept
<1>1. IInv => FieldsKept
  BY DEF IInv, FieldsFollow, FieldsHold, IsSetUp, FieldsKept, ConfiguredFieldsHold, Started
<1> QED
  BY <1>1, Invariance, PTL

(* A handler reads with its own documented options and the global ones,    *)
(* whoever made its consumer, until another service writes it, and no      *)
(* consumer ever has an option of the library.                             *)
THEOREM OptionsApply == Spec => []OptionsInForce
<1>1. IInv => OptionsInForce
  BY DEF IInv, OptionsFollow, InForce, OptionsInForce
<1> QED
  BY <1>1, Invariance, PTL

(* No step of any service moves a consumer that exists, or gives up a      *)
(* consumer or a stream.                                                   *)
THEOREM ConsumersStayPut == Spec => PositionKept
<1> DEFINE Kept == /\ DOMAIN streams \subseteq DOMAIN streams'
                   /\ \A c \in DOMAIN consumers :
                        /\ c \in DOMAIN consumers'
                        /\ \A f \in CreationOnly :
                             /\ f \in DOMAIN consumers'[c] <=> f \in DOMAIN consumers[c]
                             /\ f \in DOMAIN consumers[c] => consumers'[c][f] = consumers[c][f]
<1>1. IInv /\ [Next]_vars => Kept
  <2> SUFFICES ASSUME IInv, [Next]_vars PROVE Kept
    OBVIOUS
  <2>1. ASSUME NEW s \in Services, AddStream(s)
        PROVE  Kept
    <3>1. consumers' = consumers
      BY <2>1 DEF AddStream
    <3>2. DOMAIN streams \subseteq DOMAIN streams'
      BY <2>1 DEF AddStream, Put
    <3> QED
      BY <3>1, <3>2
  <2>2. ASSUME NEW s \in Services, UpdateStream(s)
        PROVE  Kept
    BY <2>2 DEF UpdateStream
  <2>3. ASSUME NEW s \in Services, NEW p, UpdateConsumer(s, p)
        PROVE  Kept
    <3> DEFINE c == ConsumerName(s, p)
               options == Spread(consumers[c], UpdateOptions(s, p))
    <3>1. streams' = streams /\ consumers' = Put(consumers, c, options)
      BY <2>3 DEF UpdateConsumer, WriteConsumer
    <3>2. DOMAIN UpdateOptions(s, p) \cap CreationOnly = {}
      BY PickedFields DEF UpdateOptions
    <3>3. /\ DOMAIN options = DOMAIN consumers[c] \cup DOMAIN UpdateOptions(s, p)
          /\ \A f \in DOMAIN consumers[c] \ DOMAIN UpdateOptions(s, p) : options[f] = consumers[c][f]
      BY SpreadFields
    <3>4. \A f \in CreationOnly :
            /\ f \in DOMAIN options <=> f \in DOMAIN consumers[c]
            /\ f \in DOMAIN consumers[c] => options[f] = consumers[c][f]
      BY <3>2, <3>3
    <3> HIDE DEF options
    <3>5. /\ DOMAIN consumers' = DOMAIN consumers \cup {c} /\ consumers'[c] = options
          /\ \A d \in DOMAIN consumers \ {c} : consumers'[d] = consumers[d]
      BY <3>1 DEF Put
    <3> QED
      BY <3>1, <3>4, <3>5
  <2>4. ASSUME NEW s \in Services, NEW p, AddConsumer(s, p)
        PROVE  Kept
    <3> DEFINE c == ConsumerName(s, p)
               options == CreationOptions(EventOptions(s, p))
    <3>1. /\ streams' = streams
          /\ consumers' = IF Accepts(consumers, c, options) THEN Put(consumers, c, options) ELSE consumers
      BY <2>4 DEF AddConsumer, WriteConsumer
    <3> HIDE DEF options
    <3>2. CASE Accepts(consumers, c, options)
      <4>1. /\ DOMAIN consumers' = DOMAIN consumers \cup {c} /\ consumers'[c] = options
            /\ \A d \in DOMAIN consumers \ {c} : consumers'[d] = consumers[d]
        BY <3>1, <3>2 DEF Put
      <4> QED
        BY <3>1, <3>2, <4>1 DEF Accepts
    <3>3. CASE ~Accepts(consumers, c, options)
      BY <3>1, <3>3
    <3> QED
      BY <3>2, <3>3
  <2>5. CASE UNCHANGED <<streams, consumers>>
    BY <2>5
  <2>6. CASE UNCHANGED vars
    BY <2>6 DEF vars, nats
  <2> QED
    BY <2>1, <2>2, <2>3, <2>4, <2>5, <2>6
    DEF Next, Setup, Bind, Register, Listen, List, FindStream, GetConsumer, RequestFails, Retry, Reconnect, Deploy, nats
<1> QED
  BY <1>1, Invariance, PTL DEF Spec, PositionKept
=============================================================================
