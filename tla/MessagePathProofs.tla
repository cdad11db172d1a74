-------------------------- MODULE MessagePathProofs --------------------------
(***************************************************************************)
(* Proofs about MessagePath, for any services, calls and headers, any of   *)
(* them with or without the request context and the filter, and any number *)
(* of tasks.                                                               *)
(*                                                                         *)
(* Everything that decides the identifiers of a task is fixed when it is   *)
(* created: its headers, its parent and the store of its parent.  So the   *)
(* invariants speak of the store that a task will have (FinalStore) and    *)
(* have to be shown for the new task only.                                 *)
(*                                                                         *)
(* Path is a recursive function.  That it exists and is the only one is    *)
(* part of the invariant: each new task extends it by its own value.       *)
(*                                                                         *)
(* Errors need that NatsRpcException reads what it has read before as the  *)
(* same, behind the interceptor, either filter, JSON and request().        *)
(***************************************************************************)
EXTENDS MessagePath, SequenceTheorems, TLAPS

-----------------------------------------------------------------------------
(* Sequences *)

IsSequence(ts) == \E S : ts \in Seq(S)

(* A changed sequence is one, and as long.                                 *)
LEMMA ChangedSequence ==
  ASSUME NEW ts, IsSequence(ts), NEW us, us = [j \in DOMAIN ts |-> us[j]]
  PROVE  IsSequence(us) /\ Len(us) = Len(ts) /\ DOMAIN us = DOMAIN ts
<1>1. Len(ts) \in Nat /\ DOMAIN ts = 1 .. Len(ts)
  BY LenProperties DEF IsSequence
<1> DEFINE S == {us[j] : j \in DOMAIN ts}
<1>2. \A j \in DOMAIN ts : us[j] \in S
  OBVIOUS
<1> HIDE DEF S
<1>3. us \in [1 .. Len(ts) -> S]
  BY <1>1, <1>2
<1>4. us \in Seq(S)
  BY <1>1, <1>3, SeqDef
<1>5. Len(us) = Len(ts)
  BY <1>1, <1>3, <1>4, LenProperties
<1> QED
  BY <1>4, <1>5 DEF IsSequence

(* A new last element leaves the others.                                   *)
LEMMA ExtendedSequence ==
  ASSUME NEW ts, IsSequence(ts), NEW t
  PROVE  /\ IsSequence(Append(ts, t)) /\ Len(ts) \in Nat /\ Len(Append(ts, t)) = Len(ts) + 1
         /\ DOMAIN ts = 1 .. Len(ts) /\ DOMAIN Append(ts, t) = 1 .. Len(ts) + 1
         /\ \A j \in DOMAIN ts : Append(ts, t)[j] = ts[j]
         /\ Append(ts, t)[Len(ts) + 1] = t
<1>1. PICK S : ts \in Seq(S)
  BY DEF IsSequence
<1> DEFINE T == S \cup {t}
<1>2. ts \in Seq(T) /\ t \in T
  <2>1. S \subseteq T /\ t \in T
    OBVIOUS
  <2> HIDE DEF T
  <2> QED
    BY <1>1, <2>1, SeqMonotonic
<1> HIDE DEF T
<1>3. Append(ts, t) \in Seq(T)
  BY <1>2, AppendProperties
<1>4. /\ Len(Append(ts, t)) = Len(ts) + 1
      /\ \A j \in 1 .. Len(ts) : Append(ts, t)[j] = ts[j]
      /\ Append(ts, t)[Len(ts) + 1] = t
  BY <1>2, AppendProperties
<1>5. Len(ts) \in Nat /\ DOMAIN ts = 1 .. Len(ts) /\ DOMAIN Append(ts, t) = 1 .. Len(Append(ts, t))
  BY <1>2, <1>3, LenProperties
<1> QED
  BY <1>3, <1>4, <1>5 DEF IsSequence

-----------------------------------------------------------------------------
(* Paths *)

IsPath(ts, path) ==
  path = [j \in DOMAIN ts |-> IF ts[j].parent = 0 THEN {j} ELSE {j} \cup path[ts[j].parent]]
PathIn(ts, i) == (CHOOSE path : IsPath(ts, path))[i]

(* A parent is created before its children. *)
Ordered(ts) ==
  /\ IsSequence(ts) /\ Len(ts) \in Nat /\ DOMAIN ts = 1 .. Len(ts)
  /\ \A i \in DOMAIN ts : ts[i].parent \in Nat /\ ts[i].parent < i

PathsExist(ts) ==
  /\ \E path : IsPath(ts, path)
  /\ \A path, other : IsPath(ts, path) /\ IsPath(ts, other) => \A j \in DOMAIN ts : path[j] = other[j]
  /\ \A i \in DOMAIN ts : i \in PathIn(ts, i) /\ PathIn(ts, i) \subseteq 1 .. i

(* Path of the model, of the tasks before a step and after it              *)
LEMMA PathIsIn == \A i : Path(i) = PathIn(tasks, i) /\ Path(i)' = PathIn(tasks', i)
BY DEF Path, PathIn, IsPath

(* The path of a task is that of its parent and itself.                    *)
LEMMA PathOfTask ==
  ASSUME NEW ts, Ordered(ts), PathsExist(ts), NEW i \in DOMAIN ts
  PROVE  /\ PathIn(ts, i) = IF ts[i].parent = 0 THEN {i} ELSE {i} \cup PathIn(ts, ts[i].parent)
         /\ ts[i].parent # 0 => ts[i].parent \in DOMAIN ts
         /\ \A path : IsPath(ts, path) => path[i] = PathIn(ts, i)
<1> DEFINE P == CHOOSE path : IsPath(ts, path)
<1>1. IsPath(ts, P)
  BY DEF PathsExist
<1>2. \A j : PathIn(ts, j) = P[j]
  BY DEF PathIn
<1> HIDE DEF P
<1>3. P[i] = IF ts[i].parent = 0 THEN {i} ELSE {i} \cup P[ts[i].parent]
  BY <1>1 DEF IsPath
<1>4. ts[i].parent # 0 => ts[i].parent \in DOMAIN ts
  BY DEF Ordered
<1>5. \A path : IsPath(ts, path) => path[i] = P[i]
  BY <1>1 DEF PathsExist
<1> QED
  BY <1>2, <1>3, <1>4, <1>5

(* Paths depend on the parents alone.                                      *)
LEMMA PathsStay ==
  ASSUME NEW ts, NEW us, Ordered(ts), PathsExist(ts), IsSequence(us), Len(us) = Len(ts), DOMAIN us = DOMAIN ts,
         \A i \in DOMAIN ts : us[i].parent = ts[i].parent
  PROVE  /\ Ordered(us) /\ PathsExist(us)
         /\ \A i \in DOMAIN ts : PathIn(us, i) = PathIn(ts, i)
<1>1. Ordered(us)
  BY DEF Ordered
<1>2. \A path : IsPath(us, path) <=> IsPath(ts, path)
  BY DEF IsPath
<1>3. \A path : IsPath(us, path) => \A i \in DOMAIN ts : path[i] = PathIn(ts, i)
  BY <1>2, PathOfTask
<1>4. \A i \in DOMAIN ts : PathIn(us, i) = PathIn(ts, i)
  <2>1. IsPath(us, CHOOSE path : IsPath(us, path))
    BY <1>2 DEF PathsExist
  <2> QED
    BY <1>3, <2>1 DEF PathIn
<1> QED
  BY <1>1, <1>2, <1>4 DEF PathsExist

(* A new task begins a path or extends that of its parent.                 *)
LEMMA PathsGrow ==
  ASSUME NEW ts, NEW us, Ordered(ts), PathsExist(ts),
         IsSequence(us), Len(us) = Len(ts) + 1, DOMAIN us = 1 .. Len(us),
         \A i \in DOMAIN ts : us[i] = ts[i],
         us[Len(us)].parent \in 0 .. Len(ts)
  PROVE  /\ Ordered(us) /\ PathsExist(us)
         /\ \A i \in DOMAIN ts : PathIn(us, i) = PathIn(ts, i)
         /\ PathIn(us, Len(us)) = IF us[Len(us)].parent = 0 THEN {Len(us)}
                                  ELSE {Len(us)} \cup PathIn(ts, us[Len(us)].parent)
<1> DEFINE n == Len(us)
           q == us[n].parent
           last == IF q = 0 THEN {n} ELSE {n} \cup PathIn(ts, q)
<1>1. /\ DOMAIN us = DOMAIN ts \cup {n} /\ n \notin DOMAIN ts /\ n \in Nat
      /\ q # 0 => q \in DOMAIN ts
      /\ \A i \in DOMAIN ts : us[i].parent = ts[i].parent
      /\ \A i \in DOMAIN ts : ts[i].parent # 0 => ts[i].parent \in DOMAIN ts
  BY DEF Ordered
<1>2. Ordered(us)
  BY <1>1 DEF Ordered
<1>3. ASSUME NEW path, IsPath(us, path)
      PROVE  \A i \in DOMAIN us : path[i] = IF i = n THEN last ELSE PathIn(ts, i)
  <2> DEFINE old == [j \in DOMAIN ts |-> path[j]]
  <2>1. \A j \in DOMAIN us : path[j] = IF us[j].parent = 0 THEN {j} ELSE {j} \cup path[us[j].parent]
    BY <1>3 DEF IsPath
  <2>2. IsPath(ts, old)
    <3>1. \A j \in DOMAIN ts : old[j] = IF ts[j].parent = 0 THEN {j} ELSE {j} \cup old[ts[j].parent]
      BY <1>1, <2>1
    <3>2. old = [j \in DOMAIN ts |-> old[j]]
      OBVIOUS
    <3> HIDE DEF old
    <3>3. old = [j \in DOMAIN ts |-> IF ts[j].parent = 0 THEN {j} ELSE {j} \cup old[ts[j].parent]]
      BY <3>1, <3>2
    <3> QED
      BY <3>3 DEF IsPath
  <2>3. \A j \in DOMAIN ts : path[j] = PathIn(ts, j)
    BY <2>2, PathOfTask
  <2>4. path[n] = last
    BY <1>1, <2>1, <2>3
  <2> QED
    BY <1>1, <2>3, <2>4
<1>4. \E path : IsPath(us, path)
  <2> DEFINE path == [j \in DOMAIN us |-> IF j = n THEN last ELSE PathIn(ts, j)]
             next(j) == IF us[j].parent = 0 THEN {j} ELSE {j} \cup path[us[j].parent]
  <2>1. path[n] = next(n)
    BY <1>1
  <2>2. ASSUME NEW j \in DOMAIN ts
        PROVE  path[j] = next(j)
    <3>1. PathIn(ts, j) = IF ts[j].parent = 0 THEN {j} ELSE {j} \cup PathIn(ts, ts[j].parent)
      BY PathOfTask
    <3>2. path[j] = PathIn(ts, j)
      BY <1>1
    <3>3. ts[j].parent # 0 => path[ts[j].parent] = PathIn(ts, ts[j].parent)
      BY <1>1
    <3> QED
      BY <1>1, <3>1, <3>2, <3>3
  <2>3. \A j \in DOMAIN us : path[j] = next(j)
    BY <1>1, <2>1, <2>2
  <2>4. path = [j \in DOMAIN us |-> path[j]]
    OBVIOUS
  <2> HIDE DEF path
  <2>5. path = [j \in DOMAIN us |-> IF us[j].parent = 0 THEN {j} ELSE {j} \cup path[us[j].parent]]
    BY <2>3, <2>4
  <2> QED
    BY <2>5 DEF IsPath
<1>5. \A i \in DOMAIN us : PathIn(us, i) = IF i = n THEN last ELSE PathIn(ts, i)
  <2>1. IsPath(us, CHOOSE path : IsPath(us, path))
    BY <1>4
  <2> QED
    BY <1>3, <2>1 DEF PathIn
<1>6. \A i \in DOMAIN us : i \in PathIn(us, i) /\ PathIn(us, i) \subseteq 1 .. i
  <2>1. n \in last /\ last \subseteq 1 .. n
    <3>1. q # 0 => PathIn(ts, q) \subseteq 1 .. q /\ q \in Nat /\ q < n
      BY <1>1, <1>2 DEF PathsExist, Ordered
    <3> QED
      BY <1>1, <3>1
  <2> HIDE DEF last
  <2>2. \A i \in DOMAIN ts : i \in PathIn(ts, i) /\ PathIn(ts, i) \subseteq 1 .. i
    BY DEF PathsExist
  <2>3. ASSUME NEW i \in DOMAIN us
        PROVE  i \in PathIn(us, i) /\ PathIn(us, i) \subseteq 1 .. i
    <3>1. CASE i = n
      BY <1>5, <2>1, <3>1
    <3>2. CASE i # n
      BY <1>1, <1>5, <2>2, <3>2
    <3> QED
      BY <3>1, <3>2
  <2> QED
    BY <2>3
<1>7. \A path, other : IsPath(us, path) /\ IsPath(us, other) => \A j \in DOMAIN us : path[j] = other[j]
  BY <1>3
<1> QED
  BY <1>1, <1>2, <1>4, <1>5, <1>6, <1>7 DEF PathsExist

-----------------------------------------------------------------------------
(* The invariant.  It speaks of the sequence of tasks as a parameter, since *)
(* a call changes the caller and appends a message in one step.             *)

Names == {TRACE, REQUEST}
Field(store, name) == IF name = TRACE THEN store.traceId ELSE store.requestId
Tells(t, store, name) == Or(Field(store, name), Or(Get(t.headers, name), Undefined))

(* The store that a task has, or will have when it is received             *)
FinalStore(t, i) == IF t.kind = "root" THEN t.store ELSE WithRequestContext(t.svc, t.headers, i)
Final(ts, i) == FinalStore(ts[i], i)

TaskFields == {"svc", "parent", "kind", "own", "headers", "store", "status", "call", "outcome", "origin"}

IsTask(t, i) ==
  /\ DOMAIN t = TaskFields /\ t.svc \in Services
  /\ t.kind \in {"root", "request", "event"} /\ t.status \in {"sent", "running", "done"}
  /\ t.kind = "root" =>
       /\ t.parent = 0 /\ t.headers = <<>> /\ t.own = <<>> /\ t.status = "running"
       /\ t.store \in {NoStore, Store(Id("root", i), Id("request", i))}
  /\ t.store \in {NoStore, FinalStore(t, i)}
  /\ t.status = "running" => t.store = FinalStore(t, i)

(* A task that has sent something has been received.                       *)
SendersReceived(ts) == \A i \in DOMAIN ts : \A a \in PathIn(ts, i) \ {i} : ts[a].store = Final(ts, a)

(* What a caller sets itself is in the headers, one value for a name.      *)
OwnFirst(ts) ==
  \A i \in DOMAIN ts : \A key \in DOMAIN ts[i].own, name \in Names :
    Lower(key) = name => Get(ts[i].headers, name) = ts[i].own[key] /\ ts[i].own[key] # Undefined

(* Transparent, of the store that the caller has                           *)
Passes(ts, j, name) ==
  LET p == ts[j].parent
  IN p # 0 /\ requestContext[ts[p].svc].client /\ Final(ts, p) # NoStore /\ ~Has(ts[j].own, name)

HeadersOfPath(ts) ==
  \A i \in DOMAIN ts, name \in Names :
    Get(ts[i].headers, name) \in {Undefined, EmptyString} \/ Get(ts[i].headers, name)[2] \in PathIn(ts, i)

ChainTells(ts) ==
  \A i \in DOMAIN ts, name \in Names : \A a \in PathIn(ts, i) :
    (\A j \in PathIn(ts, i) \ PathIn(ts, a) : Passes(ts, j, name)) =>
      Tells(ts[i], Final(ts, i), name) = Tells(ts[a], Final(ts, a), name)

(* A message that is dropped before it is received tells the same without  *)
(* a store.                                                                *)
HeadersTell(ts) ==
  \A i \in DOMAIN ts, name \in Names :
    Passes(ts, i, name) => Tells(ts[i], NoStore, name) = Tells(ts[i], Final(ts, i), name)

TasksInv(ts) ==
  /\ Ordered(ts) /\ PathsExist(ts)
  /\ \A i \in DOMAIN ts : IsTask(ts[i], i)
  /\ SendersReceived(ts) /\ OwnFirst(ts) /\ HeadersOfPath(ts) /\ ChainTells(ts) /\ HeadersTell(ts)

OutsideInv ==
  /\ shared = [k \in {"x-app"} |-> Id("app", 0)]
  /\ DOMAIN connection = Services /\ \A s \in Services : connection[s] \subseteq {NoStore}

IInv == TasksInv(tasks) /\ OutsideInv

-----------------------------------------------------------------------------
(* Identifiers and headers *)

(* Identifiers tell who has made them, and are neither empty nor undefined.*)
LEMMA Identifiers ==
  /\ Undefined # EmptyString
  /\ \A i : /\ Id("own", i) \notin {Undefined, EmptyString} /\ Id("own", i)[2] = i
            /\ Id("app", i) \notin {Undefined, EmptyString}
            /\ Id("root", i) \notin {Undefined, EmptyString} /\ Id("root", i)[2] = i
            /\ Id("request", i) \notin {Undefined, EmptyString} /\ Id("request", i)[2] = i
            /\ Id("generated", i) \notin {Undefined, EmptyString} /\ Id("generated", i)[2] = i
BY DEF Undefined, EmptyString, Id

(* The two names of the context are different and in lower case.           *)
LEMMA NamesAreLower ==
  /\ TRACE # REQUEST /\ \A name \in Names : Lower(name) = name
  /\ Lower("x-app") \notin Names
BY DEF Names, Lower, TRACE, REQUEST

Once(headers) == \A k, l \in DOMAIN headers : Lower(k) = Lower(l) => k = l

(* A header that is there once is the one that is found.                   *)
LEMMA GetFinds ==
  ASSUME NEW headers, NEW key \in DOMAIN headers, \A l \in DOMAIN headers : Lower(l) = Lower(key) => l = key
  PROVE  Get(headers, Lower(key)) = headers[key] /\ Has(headers, Lower(key))
<1>1. Has(headers, Lower(key))
  BY DEF Has
<1> DEFINE found == CHOOSE k \in DOMAIN headers : Lower(k) = Lower(key)
<1>2. found \in DOMAIN headers /\ Lower(found) = Lower(key)
  OBVIOUS
<1>3. found = key
  BY <1>2
<1> HIDE DEF found
<1>4. Get(headers, Lower(key)) = headers[found]
  BY <1>1 DEF Get, found
<1> QED
  BY <1>1, <1>3, <1>4

(* No headers, no value                                                    *)
LEMMA NothingIn == \A name : Get(<<>>, name) = Undefined /\ ~Has(<<>>, name)
<1>1. DOMAIN <<>> = {}
  OBVIOUS
<1> QED
  BY <1>1 DEF Get, Has

(* The headers of a call: the caller's own, and the context's for names    *)
(* that the caller has not set.                                            *)
LEMMA CallHeaders ==
  ASSUME NEW svc \in Services, NEW store, NEW own, Once(own), NEW name \in Names
  PROVE  LET headers == WithContextHeaders(svc, store, own)
         IN /\ \A key \in DOMAIN own : Lower(key) = name => Get(headers, name) = own[key]
            /\ ~Has(own, name) =>
                 Get(headers, name) = IF requestContext[svc].client /\ store # NoStore
                                      THEN Field(store, name) ELSE Undefined
<1> DEFINE headers == WithContextHeaders(svc, store, own)
           added == {n \in Names : ~Has(own, n) /\ Field(store, n) # Undefined}
           fields == [n \in added |-> Field(store, n)]
<1>0. TRACE \in Names /\ REQUEST \in Names /\ \A n \in Names : n = TRACE \/ n = REQUEST
  BY DEF Names
<1>1. CASE ~requestContext[svc].client \/ store = NoStore
  <2>1. headers = own
    BY <1>1 DEF WithContextHeaders
  <2>2. \A key \in DOMAIN own : Lower(key) = name => Get(own, name) = own[key]
    BY GetFinds DEF Once
  <2>3. ~Has(own, name) => Get(own, name) = Undefined
    BY DEF Get
  <2> HIDE DEF headers
  <2>4. Get(headers, name) = Get(own, name)
    BY <2>1
  <2> QED
    BY <1>1, <2>2, <2>3, <2>4 DEF headers
<1>2. CASE requestContext[svc].client /\ store # NoStore
  <2>1. headers = Spread(own, fields)
    BY <1>0, <1>2 DEF WithContextHeaders, Field, Names
  <2>2. /\ DOMAIN headers = DOMAIN own \cup added
        /\ \A k \in DOMAIN own \cup added : headers[k] = IF k \in added THEN Field(store, k) ELSE own[k]
    BY <2>1 DEF Spread
  <2>3. \A k \in added : k \in Names /\ Lower(k) = k /\ ~Has(own, k)
    BY NamesAreLower
  <2>4. \A k \in added, l \in DOMAIN own : Lower(l) # k
    BY <2>3 DEF Has
  <2>5. \A k \in added : k \notin DOMAIN own
    BY <2>3, <2>4
  <2>6. name \in added <=> ~Has(own, name) /\ Field(store, name) # Undefined
    OBVIOUS
  <2> HIDE DEF added, headers
  <2>7. \A k, l \in DOMAIN headers : Lower(k) = Lower(l) => k = l
    BY <2>2, <2>3, <2>4 DEF Once
  <2>8. ASSUME NEW key \in DOMAIN own, Lower(key) = name
        PROVE  Get(headers, name) = own[key]
    <3>1. key \in DOMAIN headers /\ headers[key] = own[key]
      BY <2>2, <2>5
    <3>2. Get(headers, Lower(key)) = headers[key]
      BY <2>7, <3>1, GetFinds
    <3> QED
      BY <2>8, <3>1, <3>2
  <2>9. ASSUME ~Has(own, name)
        PROVE  Get(headers, name) = Field(store, name)
    <3>1. CASE Field(store, name) # Undefined
      <4>1. name \in DOMAIN headers /\ headers[name] = Field(store, name) /\ Lower(name) = name
        BY <2>2, <2>6, <2>9, <3>1, NamesAreLower
      <4>2. Get(headers, Lower(name)) = headers[name]
        BY <2>7, <4>1, GetFinds
      <4> QED
        BY <4>1, <4>2
    <3>2. CASE Field(store, name) = Undefined
      <4>1. name \notin added
        BY <2>6, <3>2
      <4>2. ~Has(headers, name)
        BY <2>2, <2>3, <2>9, <4>1 DEF Has
      <4> QED
        BY <3>2, <4>2 DEF Get
    <3> QED
      BY <3>1, <3>2
  <2> QED
    BY <1>2, <2>8, <2>9 DEF headers
<1> QED
  BY <1>1, <1>2

-----------------------------------------------------------------------------
(* What a task tells *)

(* Without a store a task tells what is in its headers.                    *)
LEMMA WithoutStore == \A t, name : Tells(t, NoStore, name) = Or(Get(t.headers, name), Undefined)
BY DEF Tells, Field, NoStore, Or

(* A message that carries a value tells it, with its store or without.     *)
LEMMA HeaderTells ==
  ASSUME NEW t, NEW i, t.kind # "root", t.svc \in Services, NEW name \in Names,
         NEW value, Get(t.headers, name) = value, value # EmptyString,
         name = TRACE => value # Undefined
  PROVE  Tells(t, FinalStore(t, i), name) = value /\ Tells(t, NoStore, name) = value
<1>1. Tells(t, NoStore, name) = value
  BY WithoutStore DEF Or
<1>2. CASE requestContext[t.svc].server
  <2> DEFINE trace == Or(Get(t.headers, TRACE), Id("generated", i))
             request == Or(Get(t.headers, REQUEST), Undefined)
  <2>1. FinalStore(t, i) = Store(trace, request)
    BY <1>2 DEF FinalStore, WithRequestContext
  <2> HIDE DEF trace, request
  <2>2. Field(FinalStore(t, i), name) = IF name = TRACE THEN trace ELSE request
    BY <2>1 DEF Store, Field
  <2>3. CASE name = TRACE
    <3>1. trace = value
      BY <2>3 DEF trace, Or
    <3> QED
      BY <1>1, <2>2, <2>3, <3>1 DEF Tells, Or
  <2>4. CASE name = REQUEST
    <3>1. request = value
      BY <2>4 DEF request, Or
    <3>2. Field(FinalStore(t, i), name) = value
      BY <2>2, <2>4, <3>1, NamesAreLower
    <3> QED
      BY <1>1, <2>4, <3>2 DEF Tells, Or
  <2> QED
    BY <2>3, <2>4 DEF Names
<1>3. CASE ~requestContext[t.svc].server
  <2>1. FinalStore(t, i) = NoStore
    BY <1>3 DEF FinalStore, WithRequestContext
  <2> QED
    BY <1>1, <2>1
<1> QED
  BY <1>1, <1>2, <1>3

(* A store that is there tells what its fields are.                        *)
LEMMA StoreTells ==
  ASSUME NEW t, NEW i, IsTask(t, i), NEW name \in Names, FinalStore(t, i) # NoStore
  PROVE  /\ Field(FinalStore(t, i), name) = Tells(t, FinalStore(t, i), name)
         /\ Field(FinalStore(t, i), name) # EmptyString
         /\ name = TRACE => Field(FinalStore(t, i), name) # Undefined
<1> DEFINE store == FinalStore(t, i)
<1>0. name = TRACE \/ (name = REQUEST /\ name # TRACE)
  <2>1. TRACE # REQUEST
    BY NamesAreLower
  <2> QED
    BY <2>1 DEF Names
<1>1. CASE t.kind = "root"
  <2>1. store = Store(Id("root", i), Id("request", i))
    BY <1>1 DEF IsTask, FinalStore
  <2> HIDE DEF store
  <2>2. Field(store, name) \in {Id("root", i), Id("request", i)}
    BY <1>0, <2>1 DEF Store, Field
  <2>3. Field(store, name) \notin {Undefined, EmptyString}
    BY <2>2, Identifiers
  <2>4. Tells(t, store, name) = Field(store, name)
    BY <2>3 DEF Tells, Or
  <2> QED
    BY <2>3, <2>4 DEF store
<1>2. CASE t.kind # "root"
  <2> DEFINE trace == Or(Get(t.headers, TRACE), Id("generated", i))
             request == Or(Get(t.headers, REQUEST), Undefined)
  <2>1. store = Store(trace, request)
    BY <1>2 DEF FinalStore, WithRequestContext
  <2>2. trace \notin {Undefined, EmptyString} /\ request # EmptyString
    BY Identifiers DEF Or
  <2> HIDE DEF trace, store
  <2>3. Field(store, name) = IF name = TRACE THEN trace ELSE request
    BY <2>1 DEF Store, Field
  <2>4. Tells(t, store, name) = Field(store, name)
    BY <1>0, <2>2, <2>3 DEF Tells, Or
  <2> QED
    BY <1>0, <2>2, <2>3, <2>4 DEF store
<1> QED
  BY <1>1, <1>2

(* Whatever a task tells is in its headers or made by itself.              *)
LEMMA TellsOwnOrHeaders ==
  ASSUME NEW t, NEW i, IsTask(t, i), NEW name \in Names, NEW store \in {NoStore, FinalStore(t, i)},
         Tells(t, store, name) # Undefined
  PROVE  \/ Tells(t, store, name) = Get(t.headers, name) /\ Get(t.headers, name) \notin {Undefined, EmptyString}
         \/ Tells(t, store, name)[2] = i
<1>1. CASE store = NoStore
  BY <1>1, WithoutStore DEF Or
<1>2. CASE store # NoStore
  <2>1. store = FinalStore(t, i)
    BY <1>2
  <2>2. CASE Get(t.headers, name) \in {Undefined, EmptyString}
    <3>1. Field(store, name) = Tells(t, store, name)
      BY <1>2, <2>1, StoreTells
    <3>2. CASE t.kind = "root"
      <4>1. store = Store(Id("root", i), Id("request", i))
        BY <1>2, <2>1, <3>2 DEF IsTask, FinalStore
      <4>2. Field(store, name) \in {Id("root", i), Id("request", i)}
        BY <4>1 DEF Store, Field
      <4> QED
        BY <3>1, <4>2, Identifiers
    <3>3. CASE t.kind # "root"
      <4> DEFINE trace == Or(Get(t.headers, TRACE), Id("generated", i))
                 request == Or(Get(t.headers, REQUEST), Undefined)
      <4>1. store = Store(trace, request)
        BY <1>2, <2>1, <3>3 DEF FinalStore, WithRequestContext
      <4>2. name = TRACE => trace = Id("generated", i)
        BY <2>2 DEF Or
      <4>3. name = REQUEST => request = Undefined
        BY <2>2 DEF Or
      <4> HIDE DEF trace, request
      <4>4. Field(store, name) = IF name = TRACE THEN trace ELSE request
        BY <4>1 DEF Store, Field
      <4> QED
        BY <3>1, <4>2, <4>3, <4>4, Identifiers DEF Names
    <3> QED
      BY <3>2, <3>3
  <2>3. CASE Get(t.headers, name) \notin {Undefined, EmptyString}
    <3>1. t.kind # "root" /\ t.svc \in Services
      BY <2>3, NothingIn DEF IsTask
    <3>2. Tells(t, FinalStore(t, i), name) = Get(t.headers, name)
      BY <2>3, <3>1, HeaderTells
    <3> QED
      BY <2>1, <2>3, <3>2
  <2> QED
    BY <2>2, <2>3
<1> QED
  BY <1>1, <1>2

-----------------------------------------------------------------------------
(* Changes of the tasks *)

(* What a change leaves of a task: all that decides what it tells.         *)
Kept(t, u, i) ==
  /\ IsTask(u, i)
  /\ u.svc = t.svc /\ u.parent = t.parent /\ u.kind = t.kind /\ u.own = t.own /\ u.headers = t.headers
  /\ FinalStore(u, i) = FinalStore(t, i)
  /\ t.store = FinalStore(t, i) => u.store = t.store

(* A change of that kind keeps the invariant.                              *)
LEMMA ChangesKeep ==
  ASSUME NEW ts, TasksInv(ts), NEW us, us = [j \in DOMAIN ts |-> us[j]],
         \A j \in DOMAIN ts : Kept(ts[j], us[j], j)
  PROVE  TasksInv(us) /\ DOMAIN us = DOMAIN ts /\ Len(us) = Len(ts)
<1>1. Ordered(ts) /\ PathsExist(ts) /\ IsSequence(ts)
  BY DEF TasksInv, Ordered
<1>2. IsSequence(us) /\ DOMAIN us = DOMAIN ts /\ Len(us) = Len(ts)
  BY <1>1, ChangedSequence
<1>3. /\ Ordered(us) /\ PathsExist(us)
      /\ \A i \in DOMAIN ts : PathIn(us, i) = PathIn(ts, i)
  <2>1. \A j \in DOMAIN ts : us[j].parent = ts[j].parent
    BY DEF Kept
  <2> QED
    BY <1>1, <1>2, <2>1, PathsStay
<1>4. \A i \in DOMAIN ts : /\ PathIn(ts, i) \subseteq DOMAIN ts
                           /\ ts[i].parent # 0 => ts[i].parent \in DOMAIN ts
  <2>1. \A i \in DOMAIN ts : i \in 1 .. Len(ts) /\ Len(ts) \in Nat /\ DOMAIN ts = 1 .. Len(ts)
    BY <1>1 DEF Ordered
  <2>2. \A i \in DOMAIN ts : PathIn(ts, i) \subseteq 1 .. i
    BY <1>1 DEF PathsExist
  <2>3. \A i \in DOMAIN ts : ts[i].parent # 0 => ts[i].parent \in DOMAIN ts
    BY <1>1, PathOfTask
  <2> QED
    BY <2>1, <2>2, <2>3
<1>5. \A i \in DOMAIN ts : Final(us, i) = Final(ts, i) /\ us[i].headers = ts[i].headers /\ us[i].own = ts[i].own
  BY DEF Kept, Final
<1>6. \A i \in DOMAIN ts, name \in Names : Passes(us, i, name) <=> Passes(ts, i, name)
  <2>1. \A i \in DOMAIN ts : us[i].svc = ts[i].svc /\ us[i].parent = ts[i].parent
    BY DEF Kept
  <2> QED
    BY <1>4, <1>5, <2>1 DEF Passes
<1>7. \A i \in DOMAIN us : IsTask(us[i], i)
  BY <1>2 DEF Kept
<1>8. SendersReceived(us)
  <2>1. \A a \in DOMAIN ts : ts[a].store = Final(ts, a) => us[a].store = Final(us, a)
    BY DEF Kept, Final
  <2>2. SendersReceived(ts)
    BY DEF TasksInv
  <2> QED
    BY <1>2, <1>3, <1>4, <2>1, <2>2 DEF SendersReceived
<1>9. OwnFirst(us)
  BY <1>2, <1>5 DEF TasksInv, OwnFirst
<1>10. HeadersOfPath(us)
  BY <1>2, <1>3, <1>5 DEF TasksInv, HeadersOfPath
<1>11. \A i \in DOMAIN ts : \A name : /\ Tells(us[i], Final(us, i), name) = Tells(ts[i], Final(ts, i), name)
                                      /\ Tells(us[i], NoStore, name) = Tells(ts[i], NoStore, name)
  BY <1>5 DEF Tells
<1>12. ChainTells(us)
  <2> SUFFICES ASSUME NEW i \in DOMAIN us, NEW name \in Names, NEW a \in PathIn(us, i),
                      \A j \in PathIn(us, i) \ PathIn(us, a) : Passes(us, j, name)
               PROVE  Tells(us[i], Final(us, i), name) = Tells(us[a], Final(us, a), name)
    BY DEF ChainTells
  <2>1. i \in DOMAIN ts /\ a \in PathIn(ts, i) /\ a \in DOMAIN ts
    BY <1>2, <1>3, <1>4
  <2>2. \A j \in PathIn(ts, i) \ PathIn(ts, a) : Passes(ts, j, name)
    BY <1>3, <1>4, <1>6, <2>1
  <2>3. Tells(ts[i], Final(ts, i), name) = Tells(ts[a], Final(ts, a), name)
    BY <2>1, <2>2 DEF TasksInv, ChainTells
  <2> QED
    BY <1>11, <2>1, <2>3
<1>13. HeadersTell(us)
  BY <1>2, <1>6, <1>11 DEF TasksInv, HeadersTell
<1> QED
  BY <1>2, <1>3, <1>7, <1>8, <1>9, <1>10, <1>12, <1>13 DEF TasksInv

(* What a new task n brings                                                *)
NewTask(ts, t, n) ==
  /\ IsTask(t, n) /\ t.parent \in 0 .. Len(ts)
  /\ t.parent # 0 => ts[t.parent].store = Final(ts, t.parent)
  /\ \A key \in DOMAIN t.own, name \in Names : Lower(key) = name =>
       /\ Get(t.headers, name) = t.own[key]
       /\ t.own[key] # Undefined /\ (t.own[key] = EmptyString \/ t.own[key][2] = n)
  /\ \A name \in Names : ~Has(t.own, name) =>
       Get(t.headers, name) =
         IF t.parent # 0 /\ requestContext[ts[t.parent].svc].client /\ Final(ts, t.parent) # NoStore
         THEN Field(Final(ts, t.parent), name) ELSE Undefined

(* A new task with such headers keeps the invariant.                       *)
LEMMA NewKeeps ==
  ASSUME NEW ts, TasksInv(ts), NEW t, NewTask(ts, t, Len(ts) + 1)
  PROVE  TasksInv(Append(ts, t))
<1> DEFINE us == Append(ts, t)
           n == Len(ts) + 1
           q == t.parent
<1>1. Ordered(ts) /\ PathsExist(ts) /\ IsSequence(ts)
  BY DEF TasksInv, Ordered
<1>2. /\ IsSequence(us) /\ Len(ts) \in Nat /\ Len(us) = n /\ DOMAIN ts = 1 .. Len(ts) /\ DOMAIN us = 1 .. n
      /\ \A i \in DOMAIN ts : us[i] = ts[i]
      /\ us[n] = t
  BY <1>1, ExtendedSequence
<1>3. /\ DOMAIN us = DOMAIN ts \cup {n} /\ n \notin DOMAIN ts /\ n \in Nat
      /\ q # 0 => q \in DOMAIN ts
  BY <1>2 DEF NewTask
<1> HIDE DEF us, n
<1>4. /\ Ordered(us) /\ PathsExist(us)
      /\ \A i \in DOMAIN ts : PathIn(us, i) = PathIn(ts, i)
      /\ PathIn(us, n) = IF q = 0 THEN {n} ELSE {n} \cup PathIn(ts, q)
  <2>1. us[Len(us)].parent \in 0 .. Len(ts)
    BY <1>2 DEF NewTask
  <2>2. Len(us) = Len(ts) + 1 /\ DOMAIN us = 1 .. Len(us)
    BY <1>2 DEF n
  <2> QED
    BY <1>1, <1>2, <2>1, <2>2, PathsGrow
<1>5. \A i \in DOMAIN ts : /\ i \in PathIn(ts, i) /\ PathIn(ts, i) \subseteq DOMAIN ts
                           /\ ts[i].parent # 0 => ts[i].parent \in DOMAIN ts
  <2>1. \A i \in DOMAIN ts : i \in 1 .. Len(ts) /\ Len(ts) \in Nat /\ DOMAIN ts = 1 .. Len(ts)
    BY <1>1 DEF Ordered
  <2>2. \A i \in DOMAIN ts : i \in PathIn(ts, i) /\ PathIn(ts, i) \subseteq 1 .. i
    BY <1>1 DEF PathsExist
  <2>3. \A i \in DOMAIN ts : ts[i].parent # 0 => ts[i].parent \in DOMAIN ts
    BY <1>1, PathOfTask
  <2> QED
    BY <2>1, <2>2, <2>3
<1>6. \A i \in DOMAIN ts : Final(us, i) = Final(ts, i)
  BY <1>2 DEF Final
<1>7. \A i \in DOMAIN ts, name \in Names : Passes(us, i, name) <=> Passes(ts, i, name)
  BY <1>2, <1>5, <1>6 DEF Passes
<1>8. \A i \in DOMAIN us : IsTask(us[i], i)
  BY <1>2, <1>3 DEF TasksInv, NewTask, n
<1>9. SendersReceived(us)
  <2>1. SendersReceived(ts)
    BY DEF TasksInv
  <2>2. ASSUME NEW i \in DOMAIN ts
        PROVE  \A a \in PathIn(us, i) \ {i} : us[a].store = Final(us, a)
    BY <1>2, <1>4, <1>5, <1>6, <2>1 DEF SendersReceived
  <2>3. \A a \in PathIn(us, n) \ {n} : us[a].store = Final(us, a)
    <3>1. CASE q = 0
      BY <1>4, <3>1
    <3>2. CASE q # 0
      <4>1. q \in DOMAIN ts /\ ts[q].store = Final(ts, q)
        BY <1>3, <3>2 DEF NewTask
      <4>2. \A a \in PathIn(ts, q) : ts[a].store = Final(ts, a) /\ a \in DOMAIN ts
        BY <1>5, <2>1, <4>1 DEF SendersReceived
      <4> QED
        BY <1>2, <1>4, <1>6, <3>2, <4>2
    <3> QED
      BY <3>1, <3>2
  <2> QED
    BY <1>3, <2>2, <2>3 DEF SendersReceived
<1>10. OwnFirst(us)
  <2>1. \A key \in DOMAIN us[n].own, name \in Names :
          Lower(key) = name => Get(us[n].headers, name) = us[n].own[key] /\ us[n].own[key] # Undefined
    BY <1>2 DEF NewTask
  <2>2. ASSUME NEW i \in DOMAIN ts, NEW key \in DOMAIN us[i].own, NEW name \in Names, Lower(key) = name
        PROVE  Get(us[i].headers, name) = us[i].own[key] /\ us[i].own[key] # Undefined
    <3>1. us[i] = ts[i] /\ OwnFirst(ts)
      BY <1>2 DEF TasksInv
    <3> QED
      BY <2>2, <3>1 DEF OwnFirst
  <2> QED
    BY <1>3, <2>1, <2>2 DEF OwnFirst
<1>11. HeadersOfPath(us)
  <2> SUFFICES ASSUME NEW name \in Names
               PROVE  \/ Get(t.headers, name) \in {Undefined, EmptyString}
                      \/ Get(t.headers, name)[2] \in PathIn(us, n)
    BY <1>2, <1>3, <1>4 DEF TasksInv, HeadersOfPath
  <2>1. n \in PathIn(us, n)
    BY <1>4
  <2>2. CASE Has(t.own, name)
    <3>1. PICK key \in DOMAIN t.own : Lower(key) = name
      BY <2>2 DEF Has
    <3>2. Get(t.headers, name) = t.own[key] /\ (t.own[key] = EmptyString \/ t.own[key][2] = n)
      BY <3>1 DEF NewTask, n
    <3> QED
      BY <2>1, <3>2
  <2>3. CASE ~Has(t.own, name)
    <3>1. CASE q # 0 /\ requestContext[ts[q].svc].client /\ Final(ts, q) # NoStore
      <4>1. Get(t.headers, name) = Field(Final(ts, q), name)
        BY <2>3, <3>1 DEF NewTask
      <4>2. q \in DOMAIN ts /\ IsTask(ts[q], q)
        BY <1>3, <3>1 DEF TasksInv
      <4>3. Field(Final(ts, q), name) = Tells(ts[q], Final(ts, q), name)
        BY <3>1, <4>2, StoreTells DEF Final
      <4>4. CASE Tells(ts[q], Final(ts, q), name) = Undefined
        BY <4>1, <4>3, <4>4
      <4>5. CASE Tells(ts[q], Final(ts, q), name) # Undefined
        <5>1. \/ /\ Tells(ts[q], Final(ts, q), name) = Get(ts[q].headers, name)
                 /\ Get(ts[q].headers, name) \notin {Undefined, EmptyString}
              \/ Tells(ts[q], Final(ts, q), name)[2] = q
          BY <4>2, <4>5, TellsOwnOrHeaders DEF Final
        <5>2. \/ Get(ts[q].headers, name) \in {Undefined, EmptyString}
              \/ Get(ts[q].headers, name)[2] \in PathIn(ts, q)
          BY <4>2 DEF TasksInv, HeadersOfPath
        <5>3. Tells(ts[q], Final(ts, q), name)[2] \in PathIn(ts, q)
          BY <1>5, <4>2, <5>1, <5>2
        <5> QED
          BY <1>4, <3>1, <4>1, <4>3, <5>3
      <4> QED
        BY <4>4, <4>5
    <3>2. CASE ~(q # 0 /\ requestContext[ts[q].svc].client /\ Final(ts, q) # NoStore)
      BY <2>3, <3>2 DEF NewTask
    <3> QED
      BY <3>1, <3>2
  <2> QED
    BY <2>2, <2>3
<1>12. ASSUME NEW name \in Names, Passes(us, n, name)
       PROVE  /\ q # 0
              /\ Tells(us[n], Final(us, n), name) = Tells(ts[q], Final(ts, q), name)
              /\ Tells(us[n], NoStore, name) = Tells(ts[q], Final(ts, q), name)
  <2>1. q # 0 /\ q \in DOMAIN ts /\ requestContext[ts[q].svc].client /\ Final(ts, q) # NoStore /\ ~Has(t.own, name)
    <3>1. q # 0 /\ requestContext[us[q].svc].client /\ Final(us, q) # NoStore /\ ~Has(t.own, name)
      BY <1>2, <1>12 DEF Passes
    <3> QED
      BY <1>2, <1>3, <1>6, <3>1
  <2> DEFINE value == Tells(ts[q], Final(ts, q), name)
  <2>2. Get(t.headers, name) = Field(Final(ts, q), name)
    BY <2>1 DEF NewTask
  <2>3. IsTask(ts[q], q)
    BY <2>1 DEF TasksInv
  <2>4. value = Field(Final(ts, q), name) /\ value # EmptyString /\ (name = TRACE => value # Undefined)
    BY <2>1, <2>3, StoreTells DEF Final
  <2>5. t.kind # "root" /\ t.svc \in Services
    BY <2>1 DEF NewTask, IsTask
  <2> HIDE DEF value
  <2>6. Tells(t, FinalStore(t, n), name) = value /\ Tells(t, NoStore, name) = value
    BY <2>2, <2>4, <2>5, HeaderTells
  <2> QED
    BY <1>2, <2>1, <2>6 DEF Final, value
<1>13. ChainTells(us)
  <2> SUFFICES ASSUME NEW i \in DOMAIN us, NEW name \in Names, NEW a \in PathIn(us, i),
                      \A j \in PathIn(us, i) \ PathIn(us, a) : Passes(us, j, name)
               PROVE  Tells(us[i], Final(us, i), name) = Tells(us[a], Final(us, a), name)
    BY DEF ChainTells
  <2>1. CASE i \in DOMAIN ts
    <3>1. a \in PathIn(ts, i) /\ a \in DOMAIN ts
      BY <1>4, <1>5, <2>1
    <3>2. \A j \in PathIn(ts, i) \ PathIn(ts, a) : Passes(ts, j, name)
      BY <1>4, <1>5, <1>7, <2>1, <3>1
    <3>3. Tells(ts[i], Final(ts, i), name) = Tells(ts[a], Final(ts, a), name)
      BY <2>1, <3>1, <3>2 DEF TasksInv, ChainTells
    <3> QED
      BY <1>2, <1>6, <2>1, <3>1, <3>3
  <2>2. CASE i = n /\ a # n
    <3>1. q # 0 /\ q \in DOMAIN ts /\ a \in PathIn(ts, q) /\ a \in DOMAIN ts
      BY <1>3, <1>4, <1>5, <2>2
    <3>2. n \in PathIn(us, n) \ PathIn(us, a)
      BY <1>3, <1>4, <1>5, <3>1
    <3>3. Passes(us, n, name)
      BY <2>2, <3>2
    <3>4. \A j \in PathIn(ts, q) \ PathIn(ts, a) : Passes(ts, j, name)
      BY <1>4, <1>5, <1>7, <2>2, <3>1
    <3>5. Tells(ts[q], Final(ts, q), name) = Tells(ts[a], Final(ts, a), name)
      BY <3>1, <3>4 DEF TasksInv, ChainTells
    <3>6. Tells(us[n], Final(us, n), name) = Tells(ts[q], Final(ts, q), name)
      BY <1>12, <3>3
    <3> QED
      BY <1>2, <1>6, <2>2, <3>1, <3>5, <3>6
  <2>3. CASE i = n /\ a = n
    BY <2>3
  <2> QED
    BY <1>3, <2>1, <2>2, <2>3
<1>14. HeadersTell(us)
  <2> SUFFICES ASSUME NEW i \in DOMAIN us, NEW name \in Names, Passes(us, i, name)
               PROVE  Tells(us[i], NoStore, name) = Tells(us[i], Final(us, i), name)
    BY DEF HeadersTell
  <2>1. CASE i \in DOMAIN ts
    BY <1>2, <1>6, <1>7, <2>1 DEF TasksInv, HeadersTell
  <2>2. CASE i = n
    BY <1>12, <2>2
  <2> QED
    BY <1>3, <2>1, <2>2
<1> QED
  BY <1>4, <1>8, <1>9, <1>10, <1>11, <1>13, <1>14 DEF TasksInv, us

-----------------------------------------------------------------------------
(* The steps *)

(* The invariant holds when there is no task yet.                          *)
LEMMA InitHolds == Init => IInv
<1> SUFFICES ASSUME Init
             PROVE  IInv
  OBVIOUS
<1>1. tasks = <<>> /\ DOMAIN <<>> = {} /\ Len(<<>>) = 0
  BY DEF Init
<1>2. Ordered(<<>>)
  <2>1. <<>> \in Seq({})
    BY EmptySeq
  <2>2. IsSequence(<<>>)
    BY <2>1 DEF IsSequence
  <2> QED
    BY <1>1, <2>2 DEF Ordered
<1>3. PathsExist(<<>>)
  <2>1. \E path : IsPath(<<>>, path)
    <3> DEFINE path == [j \in {} |-> {}]
    <3>1. path = [j \in {} |-> IF <<>>[j].parent = 0 THEN {j} ELSE {j} \cup path[<<>>[j].parent]]
      OBVIOUS
    <3> HIDE DEF path
    <3> QED
      BY <1>1, <3>1 DEF IsPath
  <2> QED
    BY <1>1, <2>1 DEF PathsExist
<1>4. SendersReceived(<<>>) /\ OwnFirst(<<>>) /\ HeadersOfPath(<<>>) /\ ChainTells(<<>>) /\ HeadersTell(<<>>)
  BY <1>1 DEF SendersReceived, OwnFirst, HeadersOfPath, ChainTells, HeadersTell
<1>5. TasksInv(tasks)
  BY <1>1, <1>2, <1>3, <1>4 DEF TasksInv
<1>6. OutsideInv
  BY DEF Init, OutsideInv
<1> QED
  BY <1>5, <1>6 DEF IInv

(* A root has no parent and no headers.                                    *)
LEMMA RootKeeps == IInv /\ Root => IInv'
<1> SUFFICES ASSUME IInv, Root
             PROVE  IInv'
  OBVIOUS
<1> DEFINE n == Len(tasks) + 1
<1>1. PICK store \in {NoStore, Store(Id("root", n), Id("request", n))} :
        tasks' = Append(tasks, Task(Gateway, 0, "root", <<>>, <<>>, store, "running"))
  BY DEF Root, New
<1> DEFINE t == Task(Gateway, 0, "root", <<>>, <<>>, store, "running")
<1>2. TasksInv(tasks) /\ Len(tasks) \in Nat
  BY DEF IInv, TasksInv, Ordered
<1>3. /\ DOMAIN t = TaskFields /\ t.svc = Gateway /\ t.parent = 0 /\ t.kind = "root" /\ t.own = <<>>
      /\ t.headers = <<>> /\ t.store = store /\ t.status = "running"
  BY DEF Task, TaskFields
<1> HIDE DEF t, n
<1>4. IsTask(t, n)
  BY <1>3, PathAssumption DEF IsTask, FinalStore
<1>5. NewTask(tasks, t, n)
  <2>1. DOMAIN t.own = {}
    BY <1>3
  <2>2. \A name \in Names : Get(t.headers, name) = Undefined
    BY <1>3, NothingIn
  <2> QED
    BY <1>2, <1>3, <1>4, <2>1, <2>2 DEF NewTask
<1>6. TasksInv(tasks')
  BY <1>1, <1>2, <1>5, NewKeeps DEF n, t
<1>7. OutsideInv'
  BY DEF Root, IInv, OutsideInv
<1> QED
  BY <1>6, <1>7 DEF IInv

(* The fields of a message                                                 *)
LEMMA MessageFields ==
  ASSUME NEW svc, NEW to, NEW parent, NEW kind, NEW own, NEW store
  PROVE  LET t == Message(svc, to, parent, kind, own, store)
         IN /\ DOMAIN t = TaskFields /\ t.svc = to /\ t.parent = parent /\ t.kind = kind /\ t.own = own
            /\ t.headers = WithContextHeaders(svc, store, own) /\ t.store = NoStore /\ t.status = "sent"
BY DEF Message, Task, TaskFields

(* What a listener sends has no context, since the connection has none.    *)
LEMMA NotifyKeeps == ASSUME NEW svc \in Services PROVE IInv /\ Notify(svc) => IInv'
<1> SUFFICES ASSUME IInv, Notify(svc)
             PROVE  IInv'
  OBVIOUS
<1>1. PICK to \in Services, store \in connection[svc] :
        tasks' = Append(tasks, Message(svc, to, 0, "event", <<>>, store))
  BY DEF Notify
<1> DEFINE n == Len(tasks) + 1
           t == Message(svc, to, 0, "event", <<>>, store)
<1>2. TasksInv(tasks) /\ Len(tasks) \in Nat /\ store = NoStore
  BY DEF IInv, TasksInv, Ordered, OutsideInv
<1>3. /\ DOMAIN t = TaskFields /\ t.svc = to /\ t.parent = 0 /\ t.kind = "event" /\ t.own = <<>>
      /\ t.headers = WithContextHeaders(svc, store, <<>>) /\ t.store = NoStore /\ t.status = "sent"
  BY MessageFields
<1>4. t.headers = <<>>
  BY <1>2, <1>3 DEF WithContextHeaders
<1> HIDE DEF t, n
<1>5. IsTask(t, n)
  BY <1>3 DEF IsTask
<1>6. NewTask(tasks, t, n)
  <2>1. DOMAIN t.own = {}
    BY <1>3
  <2>2. \A name \in Names : Get(t.headers, name) = Undefined
    BY <1>4, NothingIn
  <2> QED
    BY <1>2, <1>3, <1>5, <2>1, <2>2 DEF NewTask
<1>7. TasksInv(tasks')
  BY <1>1, <1>2, <1>6, NewKeeps DEF n, t
<1>8. OutsideInv'
  BY DEF Notify, IInv, OutsideInv
<1> QED
  BY <1>7, <1>8 DEF IInv

(* What callers pass *)
LEMMA PassedIsOwn ==
  ASSUME OutsideInv, NEW own \in Passed, NEW n, n = Len(tasks) + 1
  PROVE  /\ Once(own)
         /\ \A key \in DOMAIN own, name \in Names : Lower(key) = name =>
              own[key] # Undefined /\ (own[key] = EmptyString \/ own[key][2] = n)
<1>1. CASE own = shared
  <2>1. own = [k \in {"x-app"} |-> Id("app", 0)]
    BY <1>1 DEF OutsideInv
  <2>2. \A key \in DOMAIN own : key = "x-app"
    BY <2>1
  <2> QED
    BY <2>2, NamesAreLower DEF Once
<1>2. CASE own # shared
  <2>1. PICK f \in Explicit : own = [key \in DOMAIN f |-> IF f[key] = "own" THEN Id("own", n) ELSE EmptyString]
    BY <1>2 DEF Passed, New
  <2>2. Once(own)
    BY <2>1, WrittenOnce DEF Once
  <2>3. \A key \in DOMAIN own : own[key] \in {Id("own", n), EmptyString}
    BY <2>1
  <2> QED
    BY <2>2, <2>3, Identifiers
<1> QED
  BY <1>1, <1>2

(* A call changes the caller, and then brings a message with its headers.  *)
LEMMA CallKeeps == ASSUME NEW i \in DOMAIN tasks PROVE IInv /\ Call(i) => IInv'
<1> SUFFICES ASSUME IInv, Call(i)
             PROVE  IInv'
  OBVIOUS
<1>1. PICK to \in Services, kind \in {"request", "event"}, own \in Passed :
        /\ <<tasks[i].svc, to>> \in Calls
        /\ tasks' = Append([tasks EXCEPT ![i].call = IF kind = "request" THEN New ELSE 0,
                                         ![i].outcome = {}, ![i].origin = {}],
                           Message(tasks[i].svc, to, i, kind, own, tasks[i].store))
        /\ shared' = IF own = shared THEN SharedAfter(tasks[i].svc, tasks[i].store) ELSE shared
  BY DEF Call
<1> DEFINE n == Len(tasks) + 1
           us == [tasks EXCEPT ![i].call = IF kind = "request" THEN New ELSE 0, ![i].outcome = {}, ![i].origin = {}]
           t == Message(tasks[i].svc, to, i, kind, own, tasks[i].store)
<1>2. TasksInv(tasks) /\ OutsideInv /\ Len(tasks) \in Nat /\ DOMAIN tasks = 1 .. Len(tasks)
  BY DEF IInv, TasksInv, Ordered
<1>3. \A j \in DOMAIN tasks : IsTask(tasks[j], j)
  BY <1>2 DEF TasksInv
<1>4. TasksInv(us) /\ Len(us) = Len(tasks) /\ us[i].svc = tasks[i].svc
      /\ us[i].store = Final(us, i) /\ us[i].store = tasks[i].store
  <2>1. us = [j \in DOMAIN tasks |-> us[j]]
    OBVIOUS
  <2>2. ASSUME NEW j \in DOMAIN tasks
        PROVE  /\ DOMAIN us[j] = DOMAIN tasks[j] /\ us[j].svc = tasks[j].svc /\ us[j].parent = tasks[j].parent
               /\ us[j].kind = tasks[j].kind /\ us[j].own = tasks[j].own /\ us[j].headers = tasks[j].headers
               /\ us[j].store = tasks[j].store /\ us[j].status = tasks[j].status
    <3>1. DOMAIN tasks[j] = TaskFields
      BY <1>3 DEF IsTask
    <3> QED
      BY <3>1 DEF TaskFields
  <2> HIDE DEF us
  <2>3. \A j \in DOMAIN tasks : FinalStore(us[j], j) = FinalStore(tasks[j], j)
    BY <2>2 DEF FinalStore
  <2>4. \A j \in DOMAIN tasks : IsTask(us[j], j)
    BY <1>3, <2>2, <2>3 DEF IsTask
  <2>5. \A j \in DOMAIN tasks : Kept(tasks[j], us[j], j)
    BY <2>2, <2>3, <2>4 DEF Kept
  <2>6. tasks[i].store = FinalStore(tasks[i], i)
    BY <1>3 DEF Call, Running, IsTask
  <2> QED
    BY <1>2, <2>1, <2>2, <2>3, <2>5, <2>6, ChangesKeep DEF Final
<1>5. /\ DOMAIN t = TaskFields /\ t.svc = to /\ t.parent = i /\ t.kind = kind /\ t.own = own
      /\ t.headers = WithContextHeaders(tasks[i].svc, tasks[i].store, own) /\ t.store = NoStore /\ t.status = "sent"
  BY MessageFields
<1>6. i # 0 /\ i \in 0 .. Len(us) /\ tasks[i].svc \in Services
  BY <1>2, <1>3, <1>4 DEF IsTask
<1> HIDE DEF t, us, n
<1>7. IsTask(t, n)
  BY <1>5 DEF IsTask
<1>8. NewTask(us, t, n)
  <2>1. /\ Once(own)
        /\ \A key \in DOMAIN own, name \in Names : Lower(key) = name =>
             own[key] # Undefined /\ (own[key] = EmptyString \/ own[key][2] = n)
    BY <1>2, PassedIsOwn DEF n
  <2>2. ASSUME NEW name \in Names
        PROVE  /\ \A key \in DOMAIN own : Lower(key) = name => Get(t.headers, name) = own[key]
               /\ ~Has(own, name) =>
                    Get(t.headers, name) = IF requestContext[tasks[i].svc].client /\ tasks[i].store # NoStore
                                           THEN Field(tasks[i].store, name) ELSE Undefined
    BY <1>5, <1>6, <2>1, CallHeaders
  <2>3. us[t.parent] = us[i] /\ us[i].svc = tasks[i].svc /\ Final(us, i) = tasks[i].store
    BY <1>4, <1>5
  <2>4. \A name \in Names : ~Has(t.own, name) =>
          Get(t.headers, name) =
            IF t.parent # 0 /\ requestContext[us[t.parent].svc].client /\ Final(us, t.parent) # NoStore
            THEN Field(Final(us, t.parent), name) ELSE Undefined
    BY <1>5, <1>6, <2>2, <2>3
  <2> QED
    BY <1>4, <1>5, <1>6, <1>7, <2>1, <2>2, <2>4 DEF NewTask
<1>9. TasksInv(tasks')
  BY <1>1, <1>4, <1>8, NewKeeps DEF n, t, us
<1>10. OutsideInv'
  <2>1. shared' = shared
    BY <1>1 DEF SharedAfter
  <2>2. connection' = [connection EXCEPT ![tasks[i].svc] = Open(tasks[i].svc, tasks[i].store)]
    BY DEF Call
  <2>3. Open(tasks[i].svc, tasks[i].store) \subseteq {NoStore}
    BY <1>2, <1>6 DEF Open, OutsideInv
  <2> QED
    BY <1>2, <1>6, <2>1, <2>2, <2>3 DEF OutsideInv
<1> QED
  BY <1>9, <1>10 DEF IInv

(* The other steps change tasks only, and only what Kept allows.           *)
LEMMA ChangedTasks ==
  ASSUME IInv, UNCHANGED <<shared, connection>>,
         tasks' = [j \in DOMAIN tasks |-> tasks'[j]],
         \A j \in DOMAIN tasks : Kept(tasks[j], tasks'[j], j)
  PROVE  IInv'
<1>1. TasksInv(tasks')
  BY ChangesKeep DEF IInv
<1>2. OutsideInv'
  BY DEF IInv, OutsideInv
<1> QED
  BY <1>1, <1>2 DEF IInv

(* A task keeps what a change of its other fields leaves alone.            *)
LEMMA FieldsDecide ==
  ASSUME NEW t, NEW u, NEW i, IsTask(t, i), DOMAIN u = TaskFields,
         u.svc = t.svc, u.parent = t.parent, u.kind = t.kind, u.own = t.own, u.headers = t.headers,
         u.store \in {t.store, FinalStore(t, i)}, u.status \in {"sent", "running", "done"},
         t.kind = "root" => u.status = t.status,
         u.status = "running" => u.store = FinalStore(t, i)
  PROVE  Kept(t, u, i)
<1>1. t.kind = "root" => u.store = t.store
  BY DEF FinalStore
<1>2. FinalStore(u, i) = FinalStore(t, i)
  BY <1>1 DEF FinalStore
<1>3. IsTask(u, i)
  BY <1>1, <1>2 DEF IsTask
<1> QED
  BY <1>2, <1>3 DEF Kept

(* A message that is received gets the store it was to have.               *)
LEMMA ReceiveKeeps == ASSUME NEW i \in DOMAIN tasks PROVE IInv /\ Receive(i) => IInv'
<1> SUFFICES ASSUME IInv, Receive(i)
             PROVE  IInv'
  OBVIOUS
<1>1. \A j \in DOMAIN tasks : IsTask(tasks[j], j)
  BY DEF IInv, TasksInv
<1> DEFINE store == WithRequestContext(tasks[i].svc, tasks[i].headers, i)
<1>2. tasks' = [tasks EXCEPT ![i].status = "running", ![i].store = store]
  BY DEF Receive
<1>3. tasks[i].kind # "root" /\ store = FinalStore(tasks[i], i)
  BY <1>1 DEF Receive, IsTask, FinalStore
<1> HIDE DEF store
<1>4. tasks' = [j \in DOMAIN tasks |-> tasks'[j]]
  BY <1>2
<1>5. ASSUME NEW j \in DOMAIN tasks
      PROVE  Kept(tasks[j], tasks'[j], j)
  <2>1. IsTask(tasks[j], j) /\ DOMAIN tasks[j] = TaskFields
    BY <1>1 DEF IsTask
  <2>2. CASE j = i
    <3>1. /\ DOMAIN tasks'[j] = TaskFields /\ tasks'[j].svc = tasks[j].svc /\ tasks'[j].parent = tasks[j].parent
          /\ tasks'[j].kind = tasks[j].kind /\ tasks'[j].own = tasks[j].own /\ tasks'[j].headers = tasks[j].headers
          /\ tasks'[j].store = store /\ tasks'[j].status = "running"
      BY <1>2, <2>1, <2>2 DEF TaskFields
    <3> QED
      BY <1>3, <2>1, <2>2, <3>1, FieldsDecide
  <2>3. CASE j # i
    <3>1. tasks'[j] = tasks[j]
      BY <1>2, <2>3
    <3> QED
      BY <2>1, <3>1 DEF Kept
  <2> QED
    BY <2>2, <2>3
<1>6. UNCHANGED <<shared, connection>>
  BY DEF Receive
<1> QED
  BY <1>4, <1>5, <1>6, ChangedTasks

(* Changes of the status to one that needs no store, and of the fields     *)
(* that say what became of a call                                          *)
LEMMA StatusChanges ==
  ASSUME IInv, UNCHANGED <<shared, connection>>,
         tasks' = [j \in DOMAIN tasks |-> tasks'[j]],
         \A j \in DOMAIN tasks :
           /\ DOMAIN tasks'[j] = DOMAIN tasks[j] /\ tasks'[j].svc = tasks[j].svc
           /\ tasks'[j].parent = tasks[j].parent /\ tasks'[j].kind = tasks[j].kind
           /\ tasks'[j].own = tasks[j].own /\ tasks'[j].headers = tasks[j].headers
           /\ tasks'[j].store = tasks[j].store
           /\ tasks'[j].status = tasks[j].status \/ (tasks[j].kind # "root" /\ tasks'[j].status \in {"sent", "done"})
  PROVE  IInv'
<1>1. \A j \in DOMAIN tasks : IsTask(tasks[j], j)
  BY DEF IInv, TasksInv
<1>2. ASSUME NEW j \in DOMAIN tasks
      PROVE  Kept(tasks[j], tasks'[j], j)
  <2>1. IsTask(tasks[j], j)
    BY <1>1
  <2>2. DOMAIN tasks'[j] = TaskFields /\ tasks'[j].status \in {"sent", "running", "done"}
    BY <2>1 DEF IsTask
  <2>3. /\ tasks[j].kind = "root" => tasks'[j].status = tasks[j].status
        /\ tasks'[j].status = "running" => tasks'[j].store = FinalStore(tasks[j], j)
    BY <2>1 DEF IsTask
  <2> QED
    BY <2>1, <2>2, <2>3, FieldsDecide
<1> QED
  BY <1>2, ChangedTasks

(* What an answer changes: the message is done, and its caller goes on.    *)
LEMMA AnsweredChanges ==
  ASSUME IInv, NEW i \in DOMAIN tasks, NEW outcome, NEW origin, Answered(i, outcome, origin)
  PROVE  /\ tasks' = [j \in DOMAIN tasks |-> tasks'[j]]
         /\ \A j \in DOMAIN tasks :
              /\ DOMAIN tasks'[j] = DOMAIN tasks[j] /\ tasks'[j].svc = tasks[j].svc
              /\ tasks'[j].parent = tasks[j].parent /\ tasks'[j].kind = tasks[j].kind
              /\ tasks'[j].own = tasks[j].own /\ tasks'[j].headers = tasks[j].headers
              /\ tasks'[j].store = tasks[j].store
              /\ tasks'[j].status = IF j = i THEN "done" ELSE tasks[j].status
              /\ \/ tasks'[j].outcome = tasks[j].outcome /\ tasks'[j].origin = tasks[j].origin
                 \/ tasks'[j].outcome = outcome /\ tasks'[j].origin = origin
<1> DEFINE p == tasks[i].parent
<1>1. \A j \in DOMAIN tasks : DOMAIN tasks[j] = TaskFields
  BY DEF IInv, TasksInv, IsTask
<1>2. p # 0 => p \in DOMAIN tasks /\ p # i
  <2>1. Ordered(tasks) /\ PathsExist(tasks)
    BY DEF IInv, TasksInv
  <2>2. p \in Nat /\ p < i
    BY <2>1 DEF Ordered
  <2>3. i \in Nat
    BY <2>1 DEF Ordered
  <2> QED
    BY <2>1, <2>2, <2>3, PathOfTask
<1>3. tasks' = IF p # 0 /\ tasks[p].call = i
               THEN [tasks EXCEPT ![i].status = "done", ![p].call = 0, ![p].outcome = outcome, ![p].origin = origin]
               ELSE [tasks EXCEPT ![i].status = "done"]
  BY DEF Answered
<1> HIDE DEF p
<1>4. tasks' = [j \in DOMAIN tasks |-> tasks'[j]]
  BY <1>3
<1>5. ASSUME NEW j \in DOMAIN tasks, p # 0 /\ tasks[p].call = i
      PROVE  tasks'[j] = IF j = i THEN [tasks[j] EXCEPT !.status = "done"]
                         ELSE IF j = p THEN [tasks[j] EXCEPT !.call = 0, !.outcome = outcome, !.origin = origin]
                         ELSE tasks[j]
  BY <1>2, <1>3, <1>5
<1>6. ASSUME NEW j \in DOMAIN tasks, ~(p # 0 /\ tasks[p].call = i)
      PROVE  tasks'[j] = IF j = i THEN [tasks[j] EXCEPT !.status = "done"] ELSE tasks[j]
  BY <1>3, <1>6
<1>7. ASSUME NEW j \in DOMAIN tasks
      PROVE  \/ j # i /\ tasks'[j] = tasks[j]
             \/ j # i /\ tasks'[j] = [tasks[j] EXCEPT !.call = 0, !.outcome = outcome, !.origin = origin]
             \/ j = i /\ tasks'[j] = [tasks[j] EXCEPT !.status = "done"]
  BY <1>5, <1>6
<1>8. ASSUME NEW j \in DOMAIN tasks
      PROVE  /\ DOMAIN tasks'[j] = DOMAIN tasks[j] /\ tasks'[j].svc = tasks[j].svc
             /\ tasks'[j].parent = tasks[j].parent /\ tasks'[j].kind = tasks[j].kind
             /\ tasks'[j].own = tasks[j].own /\ tasks'[j].headers = tasks[j].headers
             /\ tasks'[j].store = tasks[j].store
             /\ tasks'[j].status = IF j = i THEN "done" ELSE tasks[j].status
             /\ \/ tasks'[j].outcome = tasks[j].outcome /\ tasks'[j].origin = tasks[j].origin
                \/ tasks'[j].outcome = outcome /\ tasks'[j].origin = origin
  BY <1>1, <1>7 DEF TaskFields
<1> QED
  BY <1>4, <1>8

(* An answer keeps the invariant.                                          *)
LEMMA AnsweredKeeps ==
  ASSUME IInv, UNCHANGED <<shared, connection>>, NEW i \in DOMAIN tasks, tasks[i].kind # "root",
         NEW outcome, NEW origin, Answered(i, outcome, origin)
  PROVE  IInv'
BY AnsweredChanges, StatusChanges

(* So does a handler that returns,                                         *)
LEMMA ReturnKeeps == ASSUME NEW i \in DOMAIN tasks PROVE IInv /\ Return(i) => IInv'
BY AnsweredKeeps DEF Return

(* one that throws,                                                        *)
LEMMA ThrowKeeps == ASSUME NEW i \in DOMAIN tasks, NEW thrown, NEW meant PROVE IInv /\ Throw(i, thrown, meant) => IInv'
<1> SUFFICES ASSUME IInv, Throw(i, thrown, meant)
             PROVE  IInv'
  OBVIOUS
<1>1. CASE tasks[i].kind = "event"
  <2>1. \A j \in DOMAIN tasks : DOMAIN tasks[j] = TaskFields
    BY DEF IInv, TasksInv, IsTask
  <2>2. tasks' = [tasks EXCEPT ![i].status = "sent", ![i].outcome = {}, ![i].origin = {}]
    BY <1>1 DEF Throw
  <2>3. tasks' = [j \in DOMAIN tasks |-> tasks'[j]]
    BY <2>2
  <2>4. ASSUME NEW j \in DOMAIN tasks
        PROVE  /\ DOMAIN tasks'[j] = DOMAIN tasks[j] /\ tasks'[j].svc = tasks[j].svc
               /\ tasks'[j].parent = tasks[j].parent /\ tasks'[j].kind = tasks[j].kind
               /\ tasks'[j].own = tasks[j].own /\ tasks'[j].headers = tasks[j].headers
               /\ tasks'[j].store = tasks[j].store
               /\ tasks'[j].status = IF j = i THEN "sent" ELSE tasks[j].status
    BY <2>1, <2>2 DEF TaskFields
  <2>5. \A j \in DOMAIN tasks :
          tasks'[j].status = tasks[j].status \/ (tasks[j].kind # "root" /\ tasks'[j].status \in {"sent", "done"})
    BY <1>1, <2>4
  <2>6. UNCHANGED <<shared, connection>>
    BY DEF Throw
  <2> QED
    BY <2>3, <2>4, <2>5, <2>6, StatusChanges
<1>2. CASE tasks[i].kind # "event"
  <2>1. PICK outcome : Answered(i, {outcome}, {meant})
    BY <1>2 DEF Throw
  <2>2. tasks[i].kind # "root" /\ UNCHANGED <<shared, connection>>
    BY DEF Throw
  <2> QED
    BY <2>1, <2>2, AnsweredKeeps
<1> QED
  BY <1>1, <1>2

(* a request that is rejected,                                             *)
LEMMA RejectedKeeps == ASSUME NEW i \in DOMAIN tasks PROVE IInv /\ Rejected(i) => IInv'
<1> SUFFICES ASSUME IInv, Rejected(i)
             PROVE  IInv'
  OBVIOUS
<1>1. /\ tasks[i].kind # "root" /\ UNCHANGED <<shared, connection>>
      /\ \E outcome, origin : Answered(i, outcome, origin)
  BY DEF Rejected
<1> QED
  BY <1>1, AnsweredKeeps

(* and one that times out.                                                 *)
LEMMA TimesOutKeeps == ASSUME NEW i \in DOMAIN tasks PROVE IInv /\ TimesOut(i) => IInv'
<1> SUFFICES ASSUME IInv, TimesOut(i)
             PROVE  IInv'
  OBVIOUS
<1>1. \A j \in DOMAIN tasks : DOMAIN tasks[j] = TaskFields
  BY DEF IInv, TasksInv, IsTask
<1>2. PICK outcome, origin : tasks' = [tasks EXCEPT ![i].call = 0, ![i].outcome = outcome, ![i].origin = origin]
  BY DEF TimesOut
<1>3. tasks' = [j \in DOMAIN tasks |-> tasks'[j]]
  BY <1>2
<1>4. ASSUME NEW j \in DOMAIN tasks
      PROVE  /\ DOMAIN tasks'[j] = DOMAIN tasks[j] /\ tasks'[j].svc = tasks[j].svc
             /\ tasks'[j].parent = tasks[j].parent /\ tasks'[j].kind = tasks[j].kind
             /\ tasks'[j].own = tasks[j].own /\ tasks'[j].headers = tasks[j].headers
             /\ tasks'[j].store = tasks[j].store /\ tasks'[j].status = tasks[j].status
  BY <1>1, <1>2 DEF TaskFields
<1>5. UNCHANGED <<shared, connection>>
  BY DEF TimesOut
<1> QED
  BY <1>3, <1>4, <1>5, StatusChanges

(* Every step keeps the invariant.                                         *)
LEMMA StepKeeps == IInv /\ [Next]_vars => IInv'
<1> SUFFICES ASSUME IInv, [Next]_vars
             PROVE  IInv'
  OBVIOUS
<1>1. CASE Root
  BY <1>1, RootKeeps
<1>2. CASE \E svc \in Services : Notify(svc)
  BY <1>2, NotifyKeeps
<1>3. ASSUME NEW i \in DOMAIN tasks, Call(i)
      PROVE  IInv'
  BY <1>3, CallKeeps
<1>4. ASSUME NEW i \in DOMAIN tasks, Receive(i)
      PROVE  IInv'
  BY <1>4, ReceiveKeeps
<1>5. ASSUME NEW i \in DOMAIN tasks, Return(i)
      PROVE  IInv'
  BY <1>5, ReturnKeeps
<1>6. ASSUME NEW i \in DOMAIN tasks, Fails(i) \/ Rethrows(i)
      PROVE  IInv'
  <2>1. PICK thrown, meant : Throw(i, thrown, meant)
    BY <1>6 DEF Fails, Rethrows
  <2> QED
    BY <2>1, ThrowKeeps
<1>7. ASSUME NEW i \in DOMAIN tasks, Rejected(i)
      PROVE  IInv'
  BY <1>7, RejectedKeeps
<1>8. ASSUME NEW i \in DOMAIN tasks, TimesOut(i)
      PROVE  IInv'
  BY <1>8, TimesOutKeeps
<1>9. CASE UNCHANGED vars
  BY <1>9 DEF vars, IInv, OutsideInv
<1> QED
  BY <1>1, <1>2, <1>3, <1>4, <1>5, <1>6, <1>7, <1>8, <1>9 DEF Next

-----------------------------------------------------------------------------
(* Errors *)

ErrorFields == {"kind", "message", "errorCode", "statusCode", "status", "errors", "error"}

(* What can be meant by an error, and the exception that says it           *)
Meaning(meant) ==
  /\ meant = [message |-> meant.message, errorCode |-> meant.errorCode,
              statusCode |-> meant.statusCode, errors |-> meant.errors]
  /\ meant.message \notin {"none", "falsy"} /\ meant.errorCode # "falsy" /\ meant.errors # "falsy"
  /\ meant.statusCode \in Numbers \cup {"none"}
Says(meant) == Exception(meant.message, meant.errorCode, meant.statusCode, meant.errors)

(* The fields of an exception                                              *)
LEMMA ExceptionFields ==
  \A message, errorCode, statusCode, errors :
    LET e == Exception(message, errorCode, statusCode, errors)
    IN /\ DOMAIN e = ErrorFields /\ e.kind = "exception" /\ e.message = message /\ e.errorCode = errorCode
       /\ e.statusCode = statusCode /\ e.status = "none" /\ e.errors = errors /\ e.error = {}
BY DEF Exception, Thrown, Spread, ErrorFields

(* An object with the fields of an exception is read as that exception.    *)
LEMMA ObjectReads ==
  ASSUME NEW meant, Meaning(meant), NEW obj, Source(obj).message = meant.message,
         Source(obj).errorCode = meant.errorCode, Source(obj).statusCode = meant.statusCode,
         Source(obj).status = "none", Source(obj).errors = meant.errors
  PROVE  AssignFromObject(obj) = Says(meant)
<1> DEFINE source == Source(obj)
           code == OrElse(source.statusCode, source.status)
<1>1. OrElse(source.message, "Unknown error") = meant.message
  BY DEF OrElse, Meaning
<1>2. OrElse(source.errorCode, "none") = meant.errorCode /\ OrElse(source.errors, "none") = meant.errors
  BY DEF OrElse, Meaning
<1>3. (IF code \in Numbers THEN code ELSE "none") = meant.statusCode
  BY DEF OrElse, Meaning, Numbers
<1> QED
  BY <1>1, <1>2, <1>3 DEF AssignFromObject, Says

(* An exception comes out of the interceptor, either filter, JSON, and     *)
(* request() as it went in.                                                *)
LEMMA ExceptionArrives ==
  ASSUME NEW meant, Meaning(meant), NEW filtered \in BOOLEAN,
         NEW reply, reply = Caught(RpcException(Says(meant)), filtered)
  PROVE  NatsRpcException(Json(reply)) = Says(meant) /\ NatsRpcException(Arrives(reply)) = Says(meant)
<1> DEFINE e == Says(meant)
           plain == [e EXCEPT !.kind = "object"]
<1>1. /\ DOMAIN e = ErrorFields /\ e.kind = "exception" /\ e.message = meant.message
      /\ e.errorCode = meant.errorCode /\ e.statusCode = meant.statusCode /\ e.status = "none"
      /\ e.errors = meant.errors /\ e.error = {}
  BY ExceptionFields DEF Says
<1> HIDE DEF e
<1>2. /\ DOMAIN plain = ErrorFields /\ plain.kind = "object" /\ plain.message = meant.message
      /\ plain.errorCode = meant.errorCode /\ plain.statusCode = meant.statusCode /\ plain.status = "none"
      /\ plain.errors = meant.errors /\ plain.error = {}
  BY <1>1 DEF ErrorFields
<1>3. Json(reply).kind = "object" /\ AssignFromObject(Json(reply)) = e
  <2>1. CASE filtered
    <3> DEFINE outer == RpcException(e)
    <3>1. reply = outer
      BY <2>1 DEF Caught, e
    <3>2. DOMAIN outer = ErrorFields /\ outer.kind = "object" /\ outer.error = {e}
      BY DEF RpcException, Thrown, Spread, ErrorFields
    <3> HIDE DEF outer
    <3>3. Json(reply) = [outer EXCEPT !.error = {plain}]
      <4>1. Json(outer) = [outer EXCEPT !.error = {IF v.kind = "exception" THEN [v EXCEPT !.kind = "object"] ELSE v : v \in outer.error}]
        BY <3>2 DEF Json
      <4>2. {IF v.kind = "exception" THEN [v EXCEPT !.kind = "object"] ELSE v : v \in outer.error} = {plain}
        BY <1>1, <3>2
      <4> QED
        BY <3>1, <4>1, <4>2
    <3>4. Json(reply).kind = "object" /\ Json(reply).error = {plain}
      BY <3>2, <3>3 DEF ErrorFields
    <3> HIDE DEF plain
    <3>5. Source(Json(reply)) = plain
      BY <3>4 DEF Source, Inside
    <3> QED
      BY <1>2, <3>4, <3>5, ObjectReads DEF e
  <2>2. CASE ~filtered
    <3>1. reply = e
      <4>1. RpcException(e).error = {e}
        BY DEF RpcException, Thrown, Spread
      <4>2. reply = Inside(RpcException(e))
        BY <2>2 DEF Caught, e
      <4> QED
        BY <4>1, <4>2 DEF Inside
    <3>2. Json(reply) = [plain EXCEPT !.error = {}]
      BY <1>1, <3>1 DEF Json
    <3> HIDE DEF plain
    <3>3. /\ Json(reply).kind = "object" /\ Json(reply).error = {} /\ Json(reply).message = meant.message
          /\ Json(reply).errorCode = meant.errorCode /\ Json(reply).statusCode = meant.statusCode
          /\ Json(reply).status = "none" /\ Json(reply).errors = meant.errors
      BY <1>2, <3>2 DEF ErrorFields
    <3>4. Source(Json(reply)) = Json(reply)
      BY <3>3 DEF Source
    <3> QED
      BY <3>3, <3>4, ObjectReads DEF e
  <2> QED
    BY <2>1, <2>2
<1>4. NatsRpcException(Json(reply)) = e
  BY <1>3 DEF NatsRpcException
<1>5. NatsRpcException(e) = e
  BY <1>1 DEF NatsRpcException
<1> QED
  BY <1>4, <1>5 DEF Arrives, e

(* The errors of the library itself                                        *)
LibraryMeans(message, statusCode) ==
  [message |-> message, errorCode |-> "none", statusCode |-> statusCode, errors |-> "none"]

(* They arrive as what they say.                                           *)
LEMMA LibraryErrorsArrive ==
  /\ \A statusCode \in {"400", "500"} :
       /\ Meaning(LibraryMeans("reason", statusCode))
       /\ NatsRpcException(Arrives(ErrorReply(statusCode))) = Says(LibraryMeans("reason", statusCode))
  /\ Meaning(LibraryMeans("timeout", "none"))
  /\ NatsRpcException(NatsRpcException(Thrown("object", [message |-> "timeout"]))) = Says(LibraryMeans("timeout", "none"))
<1>1. \A message, statusCode : Says(LibraryMeans(message, statusCode)) = Exception(message, "none", statusCode, "none")
  BY DEF Says, LibraryMeans
<1>2. ASSUME NEW message, NEW errorCode, NEW statusCode, NEW errors
      PROVE  NatsRpcException(Exception(message, errorCode, statusCode, errors)) = Exception(message, errorCode, statusCode, errors)
  <2> DEFINE e == Exception(message, errorCode, statusCode, errors)
  <2>1. e.kind = "exception"
    BY ExceptionFields
  <2> HIDE DEF e
  <2>2. NatsRpcException(e) = e
    BY <2>1 DEF NatsRpcException
  <2> QED
    BY <2>2 DEF e
<1>3. ASSUME NEW statusCode \in {"400", "500"}
      PROVE  /\ Meaning(LibraryMeans("reason", statusCode))
             /\ NatsRpcException(Arrives(ErrorReply(statusCode))) = Says(LibraryMeans("reason", statusCode))
  <2> DEFINE reply == ErrorReply(statusCode)
             meant == LibraryMeans("reason", statusCode)
  <2>1. Meaning(meant) /\ meant.message = "reason" /\ meant.errorCode = "none"
        /\ meant.statusCode = statusCode /\ meant.errors = "none"
    BY DEF Meaning, LibraryMeans, Numbers
  <2>2. /\ DOMAIN reply = ErrorFields /\ reply.kind = "object" /\ reply.message = "reason" /\ reply.errorCode = "none"
        /\ reply.statusCode = statusCode /\ reply.status = "none" /\ reply.errors = "none" /\ reply.error = {}
    BY DEF ErrorReply, Thrown, Spread, ErrorFields
  <2> HIDE DEF reply, meant
  <2>3. /\ Json(reply).kind = "object" /\ Json(reply).error = {} /\ Json(reply).message = "reason"
        /\ Json(reply).errorCode = "none" /\ Json(reply).statusCode = statusCode
        /\ Json(reply).status = "none" /\ Json(reply).errors = "none"
    BY <2>2 DEF Json, ErrorFields
  <2>4. Source(Json(reply)) = Json(reply)
    BY <2>3 DEF Source
  <2>5. AssignFromObject(Json(reply)) = Says(meant)
    BY <2>1, <2>3, <2>4, ObjectReads
  <2>6. Arrives(reply) = Says(meant)
    BY <2>3, <2>5 DEF Arrives, NatsRpcException
  <2>7. NatsRpcException(Arrives(reply)) = Says(meant)
    BY <1>2, <2>6 DEF Says
  <2> QED
    BY <2>1, <2>7 DEF reply, meant
<1>4. /\ Meaning(LibraryMeans("timeout", "none"))
      /\ NatsRpcException(NatsRpcException(Thrown("object", [message |-> "timeout"]))) = Says(LibraryMeans("timeout", "none"))
  <2> DEFINE timeout == Thrown("object", [message |-> "timeout"])
             meant == LibraryMeans("timeout", "none")
  <2>1. Meaning(meant) /\ meant.message = "timeout" /\ meant.errorCode = "none"
        /\ meant.statusCode = "none" /\ meant.errors = "none"
    BY DEF Meaning, LibraryMeans
  <2>2. /\ timeout.kind = "object" /\ timeout.message = "timeout" /\ timeout.errorCode = "none"
        /\ timeout.statusCode = "none" /\ timeout.status = "none" /\ timeout.errors = "none" /\ timeout.error = {}
    BY DEF Thrown, Spread
  <2> HIDE DEF timeout, meant
  <2>3. Source(timeout) = timeout
    BY <2>2 DEF Source
  <2>4. AssignFromObject(timeout) = Says(meant)
    BY <2>1, <2>2, <2>3, ObjectReads
  <2>5. NatsRpcException(timeout) = Says(meant)
    BY <2>2, <2>4 DEF NatsRpcException
  <2>6. NatsRpcException(NatsRpcException(timeout)) = Says(meant)
    BY <1>2, <2>5 DEF Says
  <2> QED
    BY <2>1, <2>6 DEF timeout, meant
<1> QED
  BY <1>3, <1>4

(* Each error is known by how NatsRpcException reads it.                   *)
ErrorsMeanWhatIsRead ==
  \A error \in Errors : Meaning(error.meant) /\ NatsRpcException(error.thrown) = Says(error.meant)

Reads(outcome, meant) == Meaning(meant) /\ NatsRpcException(outcome) = Says(meant)

(* Every error on its way reads as what was meant first.                   *)
ErrorsRead == \A i \in DOMAIN tasks : \A outcome \in tasks[i].outcome, meant \in tasks[i].origin : Reads(outcome, meant)

(* Every step keeps the errors readable.                                   *)
LEMMA ErrorsStayReadable ==
  ASSUME ErrorsMeanWhatIsRead, IInv, ErrorsRead, [Next]_vars
  PROVE  ErrorsRead'
<1>0. \A j \in DOMAIN tasks : IsTask(tasks[j], j) /\ DOMAIN tasks[j] = TaskFields
  BY DEF IInv, TasksInv, IsTask
<1>1. ASSUME NEW t, tasks' = Append(tasks, t), t.outcome = {}
      PROVE  ErrorsRead'
  <2>1. IsSequence(tasks)
    BY DEF IInv, TasksInv, Ordered
  <2>2. /\ \A j \in DOMAIN tasks : tasks'[j] = tasks[j]
        /\ \A j \in DOMAIN tasks' : j \in DOMAIN tasks \/ tasks'[j] = t
    BY <1>1, <2>1, ExtendedSequence
  <2> QED
    BY <1>1, <2>2 DEF ErrorsRead
<1>2. ASSUME NEW i \in DOMAIN tasks, NEW outcome, NEW origin, Answered(i, outcome, origin),
             \A o \in outcome, meant \in origin : Reads(o, meant)
      PROVE  ErrorsRead'
  <2>1. \A j \in DOMAIN tasks :
          \/ tasks'[j].outcome = tasks[j].outcome /\ tasks'[j].origin = tasks[j].origin
          \/ tasks'[j].outcome = outcome /\ tasks'[j].origin = origin
    BY <1>2, AnsweredChanges
  <2>2. DOMAIN tasks' = DOMAIN tasks
    BY <1>2, AnsweredChanges
  <2> QED
    BY <1>2, <2>1, <2>2 DEF ErrorsRead
<1>3. CASE Root
  <2>1. PICK store : tasks' = Append(tasks, Task(Gateway, 0, "root", <<>>, <<>>, store, "running"))
    BY <1>3 DEF Root
  <2> QED
    BY <1>1, <2>1 DEF Task
<1>4. ASSUME NEW svc \in Services, Notify(svc)
      PROVE  ErrorsRead'
  <2>1. PICK to, store : tasks' = Append(tasks, Message(svc, to, 0, "event", <<>>, store))
    BY <1>4 DEF Notify
  <2> QED
    BY <1>1, <2>1 DEF Message, Task
<1>5. ASSUME NEW i \in DOMAIN tasks, Call(i)
      PROVE  ErrorsRead'
  <2>1. PICK t, call : /\ t.outcome = {}
                       /\ tasks' = Append([tasks EXCEPT ![i].call = call, ![i].outcome = {}, ![i].origin = {}], t)
    <3>1. PICK to, kind, own :
            tasks' = Append([tasks EXCEPT ![i].call = IF kind = "request" THEN New ELSE 0,
                                          ![i].outcome = {}, ![i].origin = {}],
                            Message(tasks[i].svc, to, i, kind, own, tasks[i].store))
      BY <1>5 DEF Call
    <3>2. Message(tasks[i].svc, to, i, kind, own, tasks[i].store).outcome = {}
      BY DEF Message, Task
    <3> QED
      BY <3>1, <3>2
  <2> DEFINE us == [tasks EXCEPT ![i].call = call, ![i].outcome = {}, ![i].origin = {}]
  <2>2. IsSequence(us) /\ DOMAIN us = DOMAIN tasks
    <3>1. us = [j \in DOMAIN tasks |-> us[j]] /\ IsSequence(tasks)
      BY DEF IInv, TasksInv, Ordered
    <3> HIDE DEF us
    <3> QED
      BY <3>1, ChangedSequence
  <2>3. \A j \in DOMAIN tasks : \/ us[j].outcome = {}
                                \/ us[j].outcome = tasks[j].outcome /\ us[j].origin = tasks[j].origin
    BY <1>0 DEF TaskFields
  <2> HIDE DEF us
  <2>4. /\ \A j \in DOMAIN us : tasks'[j] = us[j]
        /\ \A j \in DOMAIN tasks' : j \in DOMAIN us \/ tasks'[j] = t
    BY <2>1, <2>2, ExtendedSequence DEF us
  <2> QED
    BY <2>1, <2>2, <2>3, <2>4 DEF ErrorsRead
<1>6. ASSUME NEW i \in DOMAIN tasks, Receive(i)
      PROVE  ErrorsRead'
  <2>1. PICK store : tasks' = [tasks EXCEPT ![i].status = "running", ![i].store = store]
    BY <1>6 DEF Receive
  <2>2. \A j \in DOMAIN tasks : tasks'[j].outcome = tasks[j].outcome /\ tasks'[j].origin = tasks[j].origin
    BY <1>0, <2>1 DEF TaskFields
  <2> QED
    BY <2>1, <2>2 DEF ErrorsRead
<1>7. ASSUME NEW i \in DOMAIN tasks, Return(i)
      PROVE  ErrorsRead'
  BY <1>2, <1>7 DEF Return
<1>8. ASSUME NEW i \in DOMAIN tasks, NEW thrown, NEW meant, Throw(i, thrown, meant), Reads(thrown, meant)
      PROVE  ErrorsRead'
  <2> DEFINE reply == Caught(Intercept(thrown), filter[tasks[i].svc])
  <2>1. CASE tasks[i].kind = "event"
    <3>1. tasks' = [tasks EXCEPT ![i].status = "sent", ![i].outcome = {}, ![i].origin = {}]
      BY <1>8, <2>1 DEF Throw
    <3>2. \A j \in DOMAIN tasks : \/ tasks'[j].outcome = {}
                                  \/ tasks'[j].outcome = tasks[j].outcome /\ tasks'[j].origin = tasks[j].origin
      BY <1>0, <3>1 DEF TaskFields
    <3> QED
      BY <3>1, <3>2 DEF ErrorsRead
  <2>2. CASE tasks[i].kind # "event"
    <3>1. PICK outcome \in {Arrives(reply), Json(reply)} : Answered(i, {outcome}, {meant})
      BY <1>8, <2>2 DEF Throw
    <3>2. reply = Caught(RpcException(Says(meant)), filter[tasks[i].svc])
      BY <1>8 DEF Intercept, Reads
    <3>3. filter[tasks[i].svc] \in BOOLEAN
      BY <1>0, PathAssumption DEF IsTask
    <3>4. Meaning(meant)
      BY <1>8 DEF Reads
    <3> HIDE DEF reply
    <3>5. NatsRpcException(Json(reply)) = Says(meant) /\ NatsRpcException(Arrives(reply)) = Says(meant)
      BY <3>2, <3>3, <3>4, ExceptionArrives
    <3>6. Reads(outcome, meant)
      BY <3>1, <3>4, <3>5 DEF Reads
    <3> QED
      BY <1>2, <3>1, <3>6
  <2> QED
    BY <2>1, <2>2
<1>9. ASSUME NEW i \in DOMAIN tasks, Fails(i)
      PROVE  ErrorsRead'
  <2>1. PICK error \in Errors : Throw(i, error.thrown, error.meant)
    BY <1>9 DEF Fails
  <2>2. Reads(error.thrown, error.meant)
    BY DEF ErrorsMeanWhatIsRead, Reads
  <2> QED
    BY <1>8, <2>1, <2>2
<1>10. ASSUME NEW i \in DOMAIN tasks, Rethrows(i)
       PROVE  ErrorsRead'
  <2>1. PICK e \in tasks[i].outcome, meant \in tasks[i].origin : Throw(i, e, meant)
    BY <1>10 DEF Rethrows
  <2>2. Reads(e, meant)
    BY DEF ErrorsRead
  <2> QED
    BY <1>8, <2>1, <2>2
<1>11. ASSUME NEW i \in DOMAIN tasks, Rejected(i)
       PROVE  ErrorsRead'
  <2>1. PICK statusCode \in {"400", "500"} :
          Answered(i, {Arrives(ErrorReply(statusCode))}, {LibraryMeans("reason", statusCode)})
    BY <1>11 DEF Rejected, LibraryMeans
  <2>2. Reads(Arrives(ErrorReply(statusCode)), LibraryMeans("reason", statusCode))
    BY LibraryErrorsArrive DEF Reads
  <2> QED
    BY <1>2, <2>1, <2>2
<1>12. ASSUME NEW i \in DOMAIN tasks, TimesOut(i)
       PROVE  ErrorsRead'
  <2> DEFINE timeout == NatsRpcException(Thrown("object", [message |-> "timeout"]))
             meant == LibraryMeans("timeout", "none")
  <2>1. tasks' = [tasks EXCEPT ![i].call = 0, ![i].outcome = {timeout}, ![i].origin = {meant}]
    BY <1>12 DEF TimesOut, LibraryMeans
  <2>2. Reads(timeout, meant)
    BY LibraryErrorsArrive DEF Reads
  <2> HIDE DEF timeout, meant
  <2>3. \A j \in DOMAIN tasks : \/ tasks'[j].outcome = {timeout} /\ tasks'[j].origin = {meant}
                                \/ tasks'[j].outcome = tasks[j].outcome /\ tasks'[j].origin = tasks[j].origin
    BY <1>0, <2>1 DEF TaskFields
  <2>4. DOMAIN tasks' = DOMAIN tasks
    BY <2>1
  <2> QED
    BY <2>2, <2>3, <2>4 DEF ErrorsRead
<1>13. CASE UNCHANGED vars
  BY <1>13 DEF vars, ErrorsRead
<1> QED
  BY <1>3, <1>4, <1>5, <1>6, <1>7, <1>9, <1>10, <1>11, <1>12, <1>13 DEF Next

-----------------------------------------------------------------------------
(* Theorems *)

(* The invariant holds in every reachable state.                           *)
THEOREM Invariance == Spec => []IInv
BY InitHolds, StepKeeps, PTL DEF Spec

(* No message is processed under an identifier of another request, however *)
(* many are processed side by side, with a shared record, and whoever has  *)
(* opened the connection.                                                  *)
THEOREM IdentifiersStayApart == Spec => []NoForeignContext
<1>1. ASSUME IInv
      PROVE  NoForeignContext
  <2> SUFFICES ASSUME NEW i \in DOMAIN tasks, NEW name \in Names, Tells(tasks[i], tasks[i].store, name) # Undefined
               PROVE  Tells(tasks[i], tasks[i].store, name)[2] \in Path(i)
    <3>1. \A i : /\ getTraceId(tasks[i]) = Tells(tasks[i], tasks[i].store, TRACE)
                 /\ getRequestId(tasks[i]) = Tells(tasks[i], tasks[i].store, REQUEST)
      BY NamesAreLower DEF getTraceId, getRequestId, Tells, Field
    <3> QED
      BY <3>1 DEF NoForeignContext, Names
  <2>1. IsTask(tasks[i], i) /\ i \in PathIn(tasks, i)
    BY <1>1 DEF IInv, TasksInv, PathsExist
  <2>2. tasks[i].store \in {NoStore, FinalStore(tasks[i], i)}
    BY <2>1 DEF IsTask
  <2>3. \/ Get(tasks[i].headers, name) \in {Undefined, EmptyString}
        \/ Get(tasks[i].headers, name)[2] \in PathIn(tasks, i)
    BY <1>1 DEF IInv, TasksInv, HeadersOfPath
  <2>4. \/ /\ Tells(tasks[i], tasks[i].store, name) = Get(tasks[i].headers, name)
           /\ Get(tasks[i].headers, name) \notin {Undefined, EmptyString}
        \/ Tells(tasks[i], tasks[i].store, name)[2] = i
    BY <2>1, <2>2, TellsOwnOrHeaders
  <2>5. Tells(tasks[i], tasks[i].store, name)[2] \in PathIn(tasks, i)
    BY <2>1, <2>3, <2>4
  <2> QED
    BY <2>5, PathIsIn
<1> QED
  BY <1>1, Invariance, PTL

(* Every handler on a path sees the identifiers that the path began with   *)
(* or that a caller on it has set.                                         *)
THEOREM IdentifiersReachAll == Spec => []ContextReachesChain
<1>1. ASSUME IInv
      PROVE  ContextReachesChain
  <2>0. TasksInv(tasks) /\ TRACE \in Names /\ REQUEST \in Names
    BY <1>1 DEF IInv, Names
  <2>1. \A i : /\ getTraceId(tasks[i]) = Tells(tasks[i], tasks[i].store, TRACE)
               /\ getRequestId(tasks[i]) = Tells(tasks[i], tasks[i].store, REQUEST)
    BY NamesAreLower DEF getTraceId, getRequestId, Tells, Field
  <2>2. \A i \in DOMAIN tasks : Path(i) = PathIn(tasks, i) /\ PathIn(tasks, i) \subseteq DOMAIN tasks
    <3>1. Ordered(tasks) /\ PathsExist(tasks)
      BY <2>0 DEF TasksInv
    <3>2. \A i \in DOMAIN tasks : i \in 1 .. Len(tasks) /\ Len(tasks) \in Nat /\ DOMAIN tasks = 1 .. Len(tasks)
      BY <3>1 DEF Ordered
    <3>3. \A i \in DOMAIN tasks : PathIn(tasks, i) \subseteq 1 .. i
      BY <3>1 DEF PathsExist
    <3> QED
      BY <3>2, <3>3, PathIsIn
  <2>3. \A i \in DOMAIN tasks : tasks[i].store \in {NoStore, Final(tasks, i)} /\ IsTask(tasks[i], i)
    BY <2>0 DEF TasksInv, IsTask, Final
  <2>4. ASSUME NEW i \in DOMAIN tasks, NEW j \in Path(i), NEW name \in Names, Transparent(j, name)
        PROVE  Passes(tasks, j, name)
    <3>1. j \in DOMAIN tasks
      BY <2>2
    <3> DEFINE p == tasks[j].parent
    <3>2. p # 0 /\ requestContext[tasks[p].svc].client /\ tasks[p].store # NoStore /\ ~Has(tasks[j].own, name)
      BY <2>4 DEF Transparent
    <3>3. p \in DOMAIN tasks
      BY <2>0, <3>1, <3>2, PathOfTask DEF TasksInv
    <3>4. Final(tasks, p) # NoStore
      BY <2>3, <3>2, <3>3
    <3> QED
      BY <3>2, <3>4 DEF Passes
  <2>5. ASSUME NEW i \in DOMAIN tasks, NEW name \in Names, NEW a \in Path(i),
               \A j \in Path(i) \ Path(a) : Transparent(j, name)
        PROVE  Tells(tasks[i], tasks[i].store, name) = Tells(tasks[a], tasks[a].store, name)
    <3>1. a \in DOMAIN tasks /\ a \in PathIn(tasks, i) /\ Path(a) = PathIn(tasks, a) /\ Path(i) = PathIn(tasks, i)
      BY <2>2
    <3>2. \A j \in PathIn(tasks, i) \ PathIn(tasks, a) : Passes(tasks, j, name)
      BY <2>4, <2>5, <3>1
    <3>3. Tells(tasks[i], Final(tasks, i), name) = Tells(tasks[a], Final(tasks, a), name)
      BY <2>0, <3>1, <3>2 DEF TasksInv, ChainTells
    <3>4. CASE a = i
      BY <3>4
    <3>5. CASE a # i
      <4>1. tasks[a].store = Final(tasks, a)
        BY <2>0, <3>1, <3>5 DEF TasksInv, SendersReceived
      <4>2. i \in PathIn(tasks, i) \ PathIn(tasks, a)
        <5>1. Ordered(tasks) /\ PathsExist(tasks)
          BY <2>0 DEF TasksInv
        <5>2. i \in PathIn(tasks, i) /\ PathIn(tasks, i) \subseteq 1 .. i /\ PathIn(tasks, a) \subseteq 1 .. a
          BY <3>1, <5>1 DEF PathsExist
        <5>3. i \in Nat
          BY <5>1 DEF Ordered
        <5>4. a \in 1 .. i /\ i \notin 1 .. a
          BY <3>1, <3>5, <5>2, <5>3
        <5> QED
          BY <5>2, <5>4
      <4>3. Passes(tasks, i, name)
        BY <3>2, <4>2
      <4>4. Tells(tasks[i], NoStore, name) = Tells(tasks[i], Final(tasks, i), name)
        BY <2>0, <4>3 DEF TasksInv, HeadersTell
      <4> QED
        BY <2>3, <3>3, <4>1, <4>4
    <3> QED
      BY <3>4, <3>5
  <2>6. ASSUME NEW i \in DOMAIN tasks, NEW key \in DOMAIN tasks[i].own, NEW name \in Names,
               tasks[i].own[key] # EmptyString, Lower(key) = name
        PROVE  Tells(tasks[i], tasks[i].store, name) = tasks[i].own[key]
    <3> DEFINE value == tasks[i].own[key]
    <3>1. Get(tasks[i].headers, name) = value /\ value # Undefined
      BY <2>0, <2>6 DEF TasksInv, OwnFirst
    <3>2. tasks[i].kind # "root" /\ tasks[i].svc \in Services
      <4>1. tasks[i].kind = "root" => tasks[i].headers = <<>>
        BY <2>3 DEF IsTask
      <4> QED
        BY <2>3, <3>1, <4>1, NothingIn DEF IsTask
    <3> HIDE DEF value
    <3>3. Tells(tasks[i], FinalStore(tasks[i], i), name) = value /\ Tells(tasks[i], NoStore, name) = value
      BY <2>6, <3>1, <3>2, HeaderTells DEF value
    <3> QED
      BY <2>3, <3>3 DEF value, Final
  <2> QED
    BY <2>0, <2>1, <2>5, <2>6 DEF ContextReachesChain
<1> QED
  BY <1>1, Invariance, PTL

(* A caller gets what was meant by the error that was thrown first,        *)
(* through any number of services and either filter, if the one reading    *)
(* that NatsRpcException makes of each thrown error is what is meant by it. *)
THEOREM MeaningArrives == ErrorsMeanWhatIsRead /\ Spec => []ErrorArrives
<1> SUFFICES ASSUME ErrorsMeanWhatIsRead
             PROVE  Spec => []ErrorArrives
  OBVIOUS
<1>1. Init => ErrorsRead
  <2>1. DOMAIN <<>> = {}
    OBVIOUS
  <2> QED
    BY <2>1 DEF Init, ErrorsRead
<1>2. IInv /\ ErrorsRead /\ [Next]_vars => ErrorsRead'
  BY ErrorsStayReadable
<1>3. ErrorsRead => ErrorArrives
  <2> SUFFICES ASSUME ErrorsRead, NEW i \in DOMAIN tasks,
                      NEW outcome \in tasks[i].outcome, NEW meant \in tasks[i].origin
               PROVE  LET e == NatsRpcException(outcome)
                      IN [message |-> e.message, errorCode |-> e.errorCode,
                          statusCode |-> e.statusCode, errors |-> e.errors] = meant
    BY DEF ErrorArrives
  <2>1. Meaning(meant) /\ NatsRpcException(outcome) = Says(meant)
    BY DEF ErrorsRead, Reads
  <2> DEFINE e == NatsRpcException(outcome)
  <2>2. e.message = meant.message /\ e.errorCode = meant.errorCode
        /\ e.statusCode = meant.statusCode /\ e.errors = meant.errors
    BY <2>1, ExceptionFields DEF Says
  <2> HIDE DEF e
  <2>3. [message |-> e.message, errorCode |-> e.errorCode, statusCode |-> e.statusCode, errors |-> e.errors] = meant
    BY <2>1, <2>2 DEF Meaning
  <2> QED
    BY <2>3 DEF e
<1> QED
  BY <1>1, <1>2, <1>3, Invariance, PTL DEF Spec
=============================================================================
