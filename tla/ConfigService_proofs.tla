----------------------- MODULE ConfigService_proofs -----------------------
(***************************************************************************)
(* What the configuration keeps for any number of processes, requests,     *)
(* items, changes and crashes, over either store and whatever fails: what  *)
(* is in force and what a file holds is what was acknowledged, or was      *)
(* asked for and not answered, and the operation log tells this run.       *)
(***************************************************************************)
EXTENDS ConfigService, FiniteSetTheorems, SequenceTheorems, TLAPS

\* Type correctness.  No document names a change later than the n-th.
DocsTo(n) == [Items -> 0..n]

IsConfig(S, n) ==
    /\ S = [config |-> S.config, versions |-> S.versions, log |-> S.log]
    /\ S.config \in [Kinds -> DocsTo(n) \cup {Null, Torn}]
    /\ \A v \in DOMAIN S.versions : S.versions[v] \in DocsTo(n) \cup {Torn}
    /\ S.log \in Seq(Nat)

Whole(S) == \A k \in Kinds : S.config[k] # Torn

IsFlight(w, n) ==
    w \in [stage : {"config", "version", "prune", "orphan"},
           write : {"config", "version", "prune"}, io : {"sent", "applied"},
           rep : Replicas, kind : Kinds, item : Items \cup {Null}, change : 0..n,
           obj : Objects \cup {Null}, value : DocsTo(n),
           version : {w.version}, prune : {w.prune}]

\* A request at work in one of the processes u, and what is left of one whose process
\* has died.
AtWork(w, u) ==
    /\ w.rep \in u /\ w.stage # "orphan" /\ w.write = w.stage
    /\ w.item = Null => w.stage = "config" /\ w.kind \in Versioned
    /\ w.item # Null => w.obj \in Objects /\ w.item \in ItemsOf(w.kind)

LeftBehind(w, st) == w.stage = "orphan" /\ w.io = "sent" /\ st = "k8s"

Flying(w, n, u, st) == IsFlight(w, n) /\ (AtWork(w, u) \/ LeftBehind(w, st))

StoreTypes ==
    /\ store \in Stores /\ changes \in Nat /\ up \subseteq Replicas
    /\ IsConfig(remote, changes) /\ mirror = [r \in Replicas |-> mirror[r]]
    /\ store = "k8s" =>
         Whole(remote) /\ \A r \in up : IsConfig(mirror[r], changes) /\ Whole(mirror[r])

MemoryTypes ==
    /\ cache \in [Replicas -> [Kinds -> Objects \cup {Null}]]
    /\ heap \in [Replicas -> [Objects -> DocsTo(changes)]]
    /\ \A r \in Replicas \ up, k \in Kinds : cache[r][k] = Null

HistoryTypes ==
    /\ floor \in [Replicas -> DocsTo(changes)]
    /\ open \in [Replicas -> SUBSET (Items \X Nat)]

RequestTypes ==
    /\ req = [q \in Requests |-> req[q]]
    /\ \A q \in Requests : Live(q) => Flying(req[q], changes, up, store)

Types == StoreTypes /\ MemoryTypes /\ HistoryTypes /\ RequestTypes

\* A document holds what is acknowledged in f and what was begun in o.
Holds(doc, k, f, o) ==
    doc # Torn => \A i \in ItemsOf(k) : doc[i] = f[i] \/ <<i, doc[i]>> \in o

\* What a process without a race keeps.  Its two objects are different ones; a change
\* under way is in the cached object, and none acknowledged is later; a rollback is
\* alone; what is in force holds what it should.
Distinct(c) == c["tags"] = Null \/ c["callbacks"] # c["tags"]

InObject(w, c, h, f) ==
    w.item # Null => /\ c[w.kind] = w.obj
                     /\ w.change <= h[w.obj][w.item] /\ f[w.item] <= h[w.obj][w.item]

Sound(r) ==
    /\ Distinct(cache[r])
    /\ \A q \in InFlight(r) : /\ InObject(req[q], cache[r], heap[r], floor[r])
                              /\ req[q].item = Null => InFlight(r) = {q}
    /\ r \in up => \A k \in Kinds : Holds(InForce(r, k), k, floor[r], open[r])

\* What the file store adds: one request at a time, and a file that agrees with it.
InFile(w, S, h, o) ==
    /\ w.item = Null =>
         /\ \A i \in ItemsOf(w.kind) : <<i, w.value[i]>> \in o
         /\ w.io = "applied" => S.config[w.kind] = w.value
    /\ w.item # Null =>
         /\ w.stage = "config" => w.value = h[w.obj]
         /\ w.stage # "config" \/ w.io = "applied" => S.config[w.kind] = h[w.obj]

InStore(S, k) == IF S.config[k] = Null THEN NoItems ELSE S.config[k]

FileSound ==
    /\ raced = {}
    /\ \A p, q \in Requests : Live(p) /\ Live(q) => p = q
    /\ \A q \in Requests :
         Live(q) => InFile(req[q], remote, heap[req[q].rep], open[req[q].rep])
    /\ \A r \in Replicas, k \in Kinds : Holds(InStore(remote, k), k, floor[r], open[r])

Explained ==
    /\ \A r \in Replicas \ raced : Sound(r)
    /\ store = "file" => FileSound

-----------------------------------------------------------------------------
\* Types grow with the number of changes.
LEMMA DocsGrow ==
    ASSUME NEW m \in Nat, NEW n \in Nat, m <= n
    PROVE  /\ DocsTo(m) \subseteq DocsTo(n) /\ DocsTo(m) \subseteq Doc
           /\ NoItems \in DocsTo(m)
           /\ \A d \in DocsTo(m) : d # Null /\ d # Torn
<1>1. 0..m \subseteq 0..n /\ 0..m \subseteq Nat /\ 0 \in 0..m
    OBVIOUS
<1>2. DocsTo(m) \subseteq DocsTo(n) /\ DocsTo(m) \subseteq Doc
    BY <1>1 DEF DocsTo, Doc
<1> QED BY <1>1, <1>2, ConfigAssumption DEF DocsTo, NoItems

LEMMA ConfigGrows ==
    ASSUME NEW m \in Nat, NEW n \in Nat, m <= n, NEW S, IsConfig(S, m)
    PROVE  IsConfig(S, n)
BY DocsGrow DEF IsConfig

LEMMA FlyingGrows ==
    ASSUME NEW m \in Nat, NEW n \in Nat, m <= n, NEW u, NEW v, u \subseteq v, NEW st, NEW w,
           Flying(w, m, u, st)
    PROVE  Flying(w, n, v, st)
<1>1. 0..m \subseteq 0..n /\ DocsTo(m) \subseteq DocsTo(n)
    BY DocsGrow
<1>2. IsFlight(w, n)
    BY <1>1 DEF Flying, IsFlight
<1> QED BY <1>2 DEF Flying, AtWork

\* What a read of the store sees: the file store's directory, or the process's copy.
LEMMA ViewTyped ==
    ASSUME StoreTypes, NEW r \in up
    PROVE  /\ IsConfig(View(r), changes)
           /\ store = "k8s" => Whole(View(r))
           /\ View(r) = IF store = "file" THEN remote ELSE mirror[r]
BY ConfigAssumption DEF StoreTypes, View

LEMMA StoredTyped ==
    ASSUME NEW n \in Nat, NEW S, IsConfig(S, n), NEW k \in Kinds
    PROVE  /\ InStore(S, k) \in DocsTo(n) \cup {Torn} /\ InStore(S, k) # Null
           /\ Whole(S) => InStore(S, k) # Torn
BY DocsGrow, ConfigAssumption DEF IsConfig, InStore, Whole

LEMMA InForceTyped ==
    ASSUME StoreTypes, MemoryTypes, NEW r \in up, NEW k \in Kinds
    PROVE  /\ Stored(r, k) = InStore(View(r), k)
           /\ Stored(r, k) \in DocsTo(changes) \cup {Torn}
           /\ InForce(r, k) \in DocsTo(changes) \cup {Torn}
<1>1. Stored(r, k) = InStore(View(r), k)
    BY DEF Stored, InStore
<1>2. r \in Replicas /\ changes \in Nat
    BY DEF StoreTypes
<1>a. IsConfig(View(r), changes)
    BY ViewTyped
<1>3. Stored(r, k) \in DocsTo(changes) \cup {Torn}
    BY <1>1, <1>2, <1>a, StoredTyped
<1>4. cache[r][k] # Null => cache[r][k] \in Objects
    BY <1>2 DEF MemoryTypes
<1> QED BY <1>1, <1>2, <1>3, <1>4 DEF InForce, MemoryTypes

\* There is an object that neither a cache nor a request uses.
LEMMA Room ==
    ASSUME NEW A, IsFiniteSet(A), NEW S \in SUBSET Requests, NEW f,
           Cardinality(A) + Cardinality(S) < Cardinality(Requests) + 2
    PROVE  \E o \in Objects : o \notin A /\ \A q \in S : f[q] # o
<1> DEFINE g == [q \in S |-> f[q]]
           Y == {g[q] : q \in S}
<1>1. IsFiniteSet(S) /\ IsFiniteSet(Requests)
    BY FS_Subset, ConfigAssumption
<1>2. g \in Surjection(S, Y)
    BY DEF Surjection
<1>3. IsFiniteSet(Y) /\ Cardinality(Y) <= Cardinality(S)
    BY <1>1, <1>2, FS_Surjection
<1>4. /\ Cardinality(Y) \in Nat /\ Cardinality(S) \in Nat
      /\ Cardinality(A) \in Nat /\ Cardinality(Requests) \in Nat
    BY <1>1, <1>3, FS_CardinalityType
<1>a. A \cap Y \subseteq A
    OBVIOUS
<1>b. IsFiniteSet(A \cap Y) /\ Cardinality(A \cap Y) \in Nat
    BY <1>a, FS_Subset, FS_CardinalityType
<1>c. /\ IsFiniteSet(A \cup Y)
      /\ Cardinality(A \cup Y) = Cardinality(A) + Cardinality(Y) - Cardinality(A \cap Y)
  <2> HIDE DEF Y
  <2> QED BY <1>3, FS_Union
<1>5. IsFiniteSet(A \cup Y) /\ Cardinality(A \cup Y) <= Cardinality(A) + Cardinality(S)
  <2> HIDE DEF Y
  <2> QED BY <1>3, <1>4, <1>b, <1>c
<1>6. IsFiniteSet(Objects) /\ Cardinality(Objects) = Cardinality(Requests) + 2
    BY <1>4, FS_Interval DEF Objects
<1>7. ~(Objects \subseteq A \cup Y)
  <2> SUFFICES ASSUME Objects \in SUBSET (A \cup Y) PROVE FALSE
      OBVIOUS
  <2>1. Cardinality(Objects) <= Cardinality(A \cup Y)
      BY <1>5, FS_Subset
  <2>2. Cardinality(A \cup Y) \in Nat
      BY <1>5, FS_CardinalityType
  <2> QED BY <2>1, <2>2, <1>4, <1>5, <1>6
<1> QED BY <1>7

IsFree(o, r) ==
    /\ o \in Objects /\ \A k \in Kinds : cache[r][k] # o
    /\ \A q \in InFlight(r) : req[q].obj # o

LEMMA FreeObjectIsFree ==
    ASSUME MemoryTypes, NEW r \in Replicas,
           (\E k \in Kinds : cache[r][k] = Null) \/ InFlight(r) = {}
    PROVE  IsFree(FreeObject(r), r)
<1> DEFINE S == InFlight(r)
           c == cache[r]["callbacks"]
           t == cache[r]["tags"]
           f == [q \in Requests |-> req[q].obj]
<1>1. S \in SUBSET Requests
    BY DEF InFlight
<1>2. IsFiniteSet(Requests) /\ IsFiniteSet(S)
    BY <1>1, ConfigAssumption, FS_Subset
<1>3. Cardinality(S) \in Nat /\ Cardinality(Requests) \in Nat /\ Cardinality(S) <= Cardinality(Requests)
    BY <1>1, <1>2, FS_Subset, FS_CardinalityType
<1>4. Cardinality(Requests) > 0
    BY <1>2, <1>3, ConfigAssumption, FS_EmptySet
<1>5. \E A : /\ IsFiniteSet(A) /\ Cardinality(A) + Cardinality(S) < Cardinality(Requests) + 2
             /\ A \cup {Null} = {c, t, Null}
  <2>1. CASE c = Null
    <3>1. IsFiniteSet({t}) /\ Cardinality({t}) = 1
        BY FS_Singleton
    <3> QED BY <2>1, <3>1, <1>3
  <2>2. CASE t = Null
    <3>1. IsFiniteSet({c}) /\ Cardinality({c}) = 1
        BY FS_Singleton
    <3> QED BY <2>2, <3>1, <1>3
  <2>3. CASE S = {}
    <3>1. IsFiniteSet({c}) /\ Cardinality({c}) = 1
        BY FS_Singleton
    <3>a. /\ IsFiniteSet({c} \cup {t})
          /\ Cardinality({c} \cup {t}) = IF t \in {c} THEN Cardinality({c}) ELSE Cardinality({c}) + 1
      <4> HIDE DEF c, t
      <4> QED BY <3>1, FS_AddElement
    <3>2. IsFiniteSet({c} \cup {t}) /\ Cardinality({c} \cup {t}) <= 2
        BY <3>1, <3>a
    <3>3. {c} \cup {t} = {c, t} /\ Cardinality(S) = 0
        BY <2>3, FS_EmptySet
    <3>4. Cardinality({c, t}) \in Nat
        BY <3>2, <3>3, FS_CardinalityType
    <3> QED BY <3>2, <3>3, <3>4, <1>3, <1>4
  <2> QED BY <2>1, <2>2, <2>3 DEF Kinds
<1>6. PICK A : /\ IsFiniteSet(A) /\ Cardinality(A) + Cardinality(S) < Cardinality(Requests) + 2
               /\ A \cup {Null} = {c, t, Null}
    BY <1>5
<1>7. PICK o \in Objects : o \notin A /\ \A q \in S : f[q] # o
  <2> HIDE DEF S, f
  <2> QED BY <1>1, <1>6, Room
<1>8. o # Null
    BY ConfigAssumption
<1>9. o # c /\ o # t
    BY <1>6, <1>7, <1>8
<1>10. IsFree(o, r)
    BY <1>1, <1>7, <1>9 DEF IsFree, Kinds
<1>11. FreeObject(r) = CHOOSE x \in Objects : IsFree(x, r)
    BY DEF FreeObject, IsFree
<1> QED BY <1>10, <1>11

-----------------------------------------------------------------------------
\* Every step keeps the types.
LEMMA SetsGrow ==
    ASSUME NEW m \in Nat, NEW n \in Nat, m <= n
    PROVE  /\ [Replicas -> DocsTo(m)] \subseteq [Replicas -> DocsTo(n)]
           /\ [Replicas -> [Objects -> DocsTo(m)]] \subseteq [Replicas -> [Objects -> DocsTo(n)]]
BY DocsGrow

LEMMA WrittenTyped ==
    ASSUME NEW n \in Nat, NEW S, IsConfig(S, n), NEW w, NEW v, v \in DocsTo(n) \cup {Torn},
           w.write \in {"config", "version", "prune"}, w.kind \in Kinds
    PROVE  /\ IsConfig(Written(S, w, v), n)
           /\ Whole(S) /\ v # Torn => Whole(Written(S, w, v))
<1>1. CASE w.write = "config"
  <2>1. Written(S, w, v) = [S EXCEPT !.config[w.kind] = v]
      BY <1>1 DEF Written
  <2> QED BY <2>1 DEF IsConfig, Whole
<1>2. CASE w.write = "version"
  <2>1. Written(S, w, v) = [S EXCEPT !.versions = Put(S.versions, w.version, v)]
      BY <1>2 DEF Written
  <2>2. \A x \in DOMAIN Put(S.versions, w.version, v) :
          Put(S.versions, w.version, v)[x] \in DocsTo(n) \cup {Torn}
      BY DEF IsConfig, Put
  <2> QED BY <2>1, <2>2 DEF IsConfig, Whole
<1>3. CASE w.write = "prune"
  <2>1. Written(S, w, v) = [S EXCEPT !.versions = Drop(S.versions, w.prune[1])]
      BY <1>3 DEF Written
  <2>2. \A x \in DOMAIN Drop(S.versions, w.prune[1]) :
          Drop(S.versions, w.prune[1])[x] \in DocsTo(n) \cup {Torn}
      BY DEF IsConfig, Drop
  <2> QED BY <2>1, <2>2 DEF IsConfig, Whole
<1> QED BY <1>1, <1>2, <1>3

LEMMA RequestSet ==
    ASSUME RequestTypes, NEW q \in Requests, NEW w, req' = [req EXCEPT ![q] = w],
           changes \in Nat, changes' \in Nat, changes <= changes', up \subseteq up',
           store' = store,
           w = Idle \/ Flying(w, changes', up', store)
    PROVE  RequestTypes'
<1>1. req' = [p \in Requests |-> req'[p]]
    BY DEF RequestTypes
<1>2. ASSUME NEW p \in Requests, req'[p].stage # "idle"
      PROVE  Flying(req'[p], changes', up', store')
  <2>1. CASE p = q
      BY <2>1, <1>2 DEF RequestTypes, Idle
  <2>2. CASE p # q
    <3>1. req'[p] = req[p]
        BY <2>2 DEF RequestTypes
    <3>2. Flying(req[p], changes, up, store)
        BY <1>2, <3>1 DEF RequestTypes, Live
    <3> QED BY <3>1, <3>2, FlyingGrows
  <2> QED BY <2>1, <2>2
<1> QED BY <1>1, <1>2 DEF RequestTypes, Live

LEMMA RequestsSame ==
    ASSUME RequestTypes, req' = req,
           changes \in Nat, changes' \in Nat, changes <= changes', up \subseteq up',
           store' = store
    PROVE  RequestTypes'
<1>1. ASSUME NEW p \in Requests, req[p].stage # "idle"
      PROVE  Flying(req'[p], changes', up', store')
  <2>1. Flying(req[p], changes, up, store)
      BY <1>1 DEF RequestTypes, Live
  <2> QED BY <2>1, FlyingGrows
<1> QED BY <1>1 DEF RequestTypes, Live

\* What is known of a request that is not idle.
LEMMA LiveTyped ==
    ASSUME Types, NEW q \in Requests, Live(q)
    PROVE  /\ IsFlight(req[q], changes)
           /\ ~Orphan(q) => AtWork(req[q], up)
           /\ store = "file" => ~Orphan(q)
           /\ Orphan(q) => LeftBehind(req[q], store)
           /\ req[q].rep \in Replicas /\ req[q].kind \in Kinds
           /\ req[q].write \in {"config", "version", "prune"}
           /\ req[q].item \in Items \cup {Null} /\ req[q].change \in 0..changes
           /\ req[q].value \in DocsTo(changes) /\ changes \in Nat
<1>1. Flying(req[q], changes, up, store)
    BY DEF Types, RequestTypes
<1>2. IsFlight(req[q], changes) /\ (AtWork(req[q], up) \/ LeftBehind(req[q], store))
    BY <1>1 DEF Flying
<1>3. /\ ~Orphan(q) => AtWork(req[q], up)
      /\ store = "file" => ~Orphan(q)
      /\ Orphan(q) => LeftBehind(req[q], store)
    BY <1>2 DEF AtWork, LeftBehind, Orphan
<1>4. /\ req[q].rep \in Replicas /\ req[q].kind \in Kinds
      /\ req[q].write \in {"config", "version", "prune"}
      /\ req[q].item \in Items \cup {Null} /\ req[q].change \in 0..changes
      /\ req[q].value \in DocsTo(changes)
    BY <1>2 DEF IsFlight
<1> QED BY <1>2, <1>3, <1>4 DEF Types, StoreTypes

\* Nothing of the memory or of the history changes but the number of changes.
LEMMA HistoryGrows ==
    ASSUME HistoryTypes, changes \in Nat, changes' \in Nat, changes <= changes',
           UNCHANGED <<floor, open>>
    PROVE  HistoryTypes'
BY SetsGrow DEF HistoryTypes

LEMMA MemoryGrows ==
    ASSUME MemoryTypes, changes \in Nat, changes' \in Nat, changes <= changes',
           UNCHANGED <<cache, heap, up>>
    PROVE  MemoryTypes'
BY SetsGrow DEF MemoryTypes

LEMMA StoreGrows ==
    ASSUME StoreTypes, changes' \in Nat, changes <= changes',
           UNCHANGED <<store, remote, mirror, up>>
    PROVE  StoreTypes'
<1>1. changes \in Nat
    BY DEF StoreTypes
<1>2. IsConfig(remote, changes')
    BY <1>1, ConfigGrows DEF StoreTypes
<1>3. ASSUME store = "k8s", NEW r \in up PROVE IsConfig(mirror[r], changes')
  <2>1. IsConfig(mirror[r], changes)
      BY <1>3 DEF StoreTypes
  <2> QED BY <1>1, <2>1, ConfigGrows
<1> QED BY <1>1, <1>2, <1>3 DEF StoreTypes

LEMMA ChangeTypes ==
    ASSUME Types, NEW q \in Requests, NEW r \in Replicas, NEW k \in Kinds,
           NEW i \in Items, NEW remove \in BOOLEAN, Change(q, r, k, i, remove)
    PROVE  Types'
<1>1. PICK o : o = ObjectOf(r, k)
    OBVIOUS
<1>2. PICK doc : doc = [InForce(r, k) EXCEPT ![i] = changes + 1]
    OBVIOUS
<1>3. /\ r \in up /\ InForce(r, k) # Torn /\ changes' = changes + 1 /\ i \in ItemsOf(k)
      /\ cache' = [cache EXCEPT ![r][k] = o]
      /\ heap' = [heap EXCEPT ![r][o] = doc]
      /\ req' = [req EXCEPT ![q] =
                   [stage |-> "config", write |-> "config", io |-> "sent", rep |-> r,
                    kind |-> k, item |-> i, change |-> changes + 1, obj |-> o,
                    value |-> doc, version |-> 0, prune |-> <<>>]]
      /\ open' = [open EXCEPT ![r] = @ \cup {<<i, changes + 1>>}]
      /\ UNCHANGED <<store, remote, mirror, up, floor>>
    BY <1>1, <1>2 DEF Change, Begin, Readable, Filled
<1>4. changes \in Nat /\ changes' \in Nat /\ changes <= changes' /\ StoreTypes /\ MemoryTypes
    BY <1>3 DEF Types, StoreTypes
<1>5. o \in Objects
    BY <1>1, <1>4, FreeObjectIsFree DEF ObjectOf, IsFree, MemoryTypes
<1>6. doc \in DocsTo(changes')
  <2>1. InForce(r, k) \in DocsTo(changes)
      BY <1>3, <1>4, InForceTyped
  <2> QED BY <2>1, <1>2, <1>3, <1>4 DEF DocsTo
<1>7. StoreTypes'
    BY <1>3, <1>4, StoreGrows
<1>8. MemoryTypes'
  <2>1. cache' \in [Replicas -> [Kinds -> Objects \cup {Null}]]
      BY <1>3, <1>4, <1>5 DEF MemoryTypes
  <2>2. heap \in [Replicas -> [Objects -> DocsTo(changes')]]
      BY <1>4, SetsGrow DEF MemoryTypes
  <2>3. heap' \in [Replicas -> [Objects -> DocsTo(changes')]]
      BY <1>3, <1>5, <1>6, <2>2
  <2>4. \A p \in Replicas \ up', l \in Kinds : cache'[p][l] = Null
      BY <1>3, <1>4 DEF MemoryTypes
  <2> QED BY <2>1, <2>3, <2>4 DEF MemoryTypes
<1>9. HistoryTypes'
  <2>1. floor' \in [Replicas -> DocsTo(changes')]
      BY <1>3, <1>4, SetsGrow DEF Types, HistoryTypes
  <2>2. open' \in [Replicas -> SUBSET (Items \X Nat)]
      BY <1>3, <1>4 DEF Types, HistoryTypes
  <2> QED BY <2>1, <2>2 DEF HistoryTypes
<1>10. RequestTypes'
  <2>1. PICK w : w = [stage |-> "config", write |-> "config", io |-> "sent", rep |-> r,
                      kind |-> k, item |-> i, change |-> changes + 1, obj |-> o,
                      value |-> doc, version |-> 0, prune |-> <<>>]
      OBVIOUS
  <2>2. changes + 1 \in 0..changes' /\ i # Null
      BY <1>3, <1>4, ConfigAssumption
  <2>3. IsFlight(w, changes')
      BY <2>1, <2>2, <1>5, <1>6 DEF IsFlight
  <2>4. AtWork(w, up')
      BY <2>1, <2>2, <1>3, <1>5 DEF AtWork
  <2>5. Flying(w, changes', up', store)
      BY <2>3, <2>4 DEF Flying
  <2>6. req' = [req EXCEPT ![q] = w] /\ RequestTypes /\ up \subseteq up' /\ store' = store
      BY <1>3, <2>1 DEF Types
  <2> QED BY <2>5, <2>6, <1>4, RequestSet
<1> QED BY <1>7, <1>8, <1>9, <1>10 DEF Types

LEMMA RollbackTypes ==
    ASSUME Types, NEW q \in Requests, NEW r \in Replicas, NEW k \in Kinds, NEW n,
           Rollback(q, r, k, n)
    PROVE  Types'
<1>1. PICK doc : doc = View(r).versions[n]
    OBVIOUS
<1>3. /\ r \in up /\ k \in Versioned /\ n \in DOMAIN View(r).versions /\ doc # Torn
      /\ changes' = changes + 1
      /\ req' = [req EXCEPT ![q] =
                   [stage |-> "config", write |-> "config", io |-> "sent", rep |-> r,
                    kind |-> k, item |-> Null, change |-> changes + 1, obj |-> Null,
                    value |-> doc, version |-> n, prune |-> <<>>]]
      /\ open' = [open EXCEPT ![r] = @ \cup {<<i, doc[i]>> : i \in ItemsOf(k)}]
      /\ UNCHANGED <<store, remote, mirror, up, cache, heap, floor>>
    BY <1>1 DEF Rollback, memory
<1>2. changes \in Nat /\ StoreTypes /\ MemoryTypes
    BY DEF Types, StoreTypes
<1>4. changes \in Nat /\ changes' \in Nat /\ changes <= changes' /\ StoreTypes /\ MemoryTypes
    BY <1>2, <1>3
<1>5. doc \in DocsTo(changes)
  <2>1. IsConfig(View(r), changes)
      BY <1>3, <1>4, ViewTyped
  <2> QED BY <2>1, <1>1, <1>3 DEF IsConfig
<1>6. doc \in DocsTo(changes')
    BY <1>4, <1>5, DocsGrow
<1>7. StoreTypes'
    BY <1>3, <1>4, StoreGrows
<1>8. MemoryTypes'
    BY <1>3, <1>4, MemoryGrows
<1>9. HistoryTypes'
  <2>1. floor' \in [Replicas -> DocsTo(changes')]
      BY <1>3, <1>4, SetsGrow DEF Types, HistoryTypes
  <2>2. \A i \in ItemsOf(k) : i \in Items /\ doc[i] \in Nat
      BY <1>4, <1>5, ConfigAssumption DEF ItemsOf, DocsTo
  <2>3. open' \in [Replicas -> SUBSET (Items \X Nat)]
      BY <1>3, <1>4, <2>2 DEF Types, HistoryTypes
  <2> QED BY <2>1, <2>3 DEF HistoryTypes
<1>10. RequestTypes'
  <2>1. PICK w : w = [stage |-> "config", write |-> "config", io |-> "sent", rep |-> r,
                      kind |-> k, item |-> Null, change |-> changes + 1, obj |-> Null,
                      value |-> doc, version |-> n, prune |-> <<>>]
      OBVIOUS
  <2>2. changes + 1 \in 0..changes'
      BY <1>3, <1>4
  <2>3. IsFlight(w, changes')
      BY <2>1, <2>2, <1>6 DEF IsFlight
  <2>4. AtWork(w, up')
      BY <2>1, <2>2, <1>3 DEF AtWork
  <2>5. Flying(w, changes', up', store)
      BY <2>3, <2>4 DEF Flying
  <2>6. req' = [req EXCEPT ![q] = w] /\ RequestTypes /\ up \subseteq up' /\ store' = store
      BY <1>3, <2>1 DEF Types
  <2> QED BY <2>5, <2>6, <1>4, RequestSet
<1> QED BY <1>7, <1>8, <1>9, <1>10 DEF Types

LEMMA ApplyTypes ==
    ASSUME Types, NEW q \in Requests, Apply(q)
    PROVE  Types'
<1>1. PICK w : w = req[q]
    OBVIOUS
<1>2. /\ Live(q) /\ w.io = "sent"
      /\ remote' = Written(remote, w, w.value)
      /\ req' = [req EXCEPT ![q] = IF Orphan(q) THEN Idle ELSE [w EXCEPT !.io = "applied"]]
      /\ UNCHANGED <<store, mirror, up, cache, heap, floor, open, changes>>
    BY <1>1 DEF Apply, memory, clock, history
<1>3. changes \in Nat /\ StoreTypes /\ MemoryTypes /\ HistoryTypes /\ RequestTypes
    BY DEF Types, StoreTypes
<1>4. /\ IsFlight(w, changes) /\ (~Orphan(q) => AtWork(w, up))
      /\ w.value \in DocsTo(changes) /\ w.kind \in Kinds
      /\ w.write \in {"config", "version", "prune"}
    BY <1>1, <1>2, LiveTyped
<1>5. StoreTypes'
  <2>1. w.value \in DocsTo(changes) \cup {Torn} /\ w.value # Torn
      BY <1>3, <1>4, DocsGrow
  <2>2. IsConfig(remote, changes)
      BY <1>3 DEF StoreTypes
  <2>3. IsConfig(remote', changes) /\ (Whole(remote) => Whole(remote'))
      BY <2>1, <2>2, <1>2, <1>3, <1>4, WrittenTyped
  <2> QED BY <2>3, <1>2, <1>3 DEF StoreTypes
<1>6. MemoryTypes' /\ HistoryTypes'
    BY <1>2, <1>3 DEF MemoryTypes, HistoryTypes
<1>7. RequestTypes'
  <2>1. PICK x : x = IF Orphan(q) THEN Idle ELSE [w EXCEPT !.io = "applied"]
      OBVIOUS
  <2>2. ASSUME ~Orphan(q) PROVE Flying(x, changes', up', store)
    <3>1. x = [w EXCEPT !.io = "applied"]
        BY <2>1, <2>2
    <3>2. IsFlight(x, changes)
        BY <3>1, <1>4 DEF IsFlight
    <3>3. AtWork(x, up)
        BY <3>1, <2>2, <1>4 DEF AtWork, IsFlight
    <3> QED BY <3>2, <3>3, <1>2 DEF Flying
  <2>3. req' = [req EXCEPT ![q] = x] /\ changes' = changes /\ up' = up /\ store' = store
      BY <1>2, <2>1
  <2>4. x = Idle \/ Flying(x, changes', up', store)
      BY <2>1, <2>2
  <2>5. changes \in Nat /\ changes' \in Nat /\ changes <= changes' /\ up \subseteq up'
      BY <2>3, <1>3
  <2> QED BY <2>3, <2>4, <2>5, <1>3, RequestSet
<1> QED BY <1>5, <1>6, <1>7 DEF Types

\* addLog and the answer.
LEMMA AcknowledgeTypes ==
    ASSUME Types, NEW q \in Requests, Live(q), Acknowledge(q), UNCHANGED <<changes, up, store>>
    PROVE  HistoryTypes' /\ RequestTypes'
<1>1. PICK w : w = req[q]
    OBVIOUS
<1>2. /\ req' = [req EXCEPT ![q] = Idle]
      /\ IF w.item = Null
         THEN /\ floor' = [floor EXCEPT ![w.rep] =
                   [i \in Items |-> IF i \in ItemsOf(w.kind) THEN w.value[i] ELSE floor[w.rep][i]]]
              /\ open' = [open EXCEPT ![w.rep] = @ \ {<<i, w.value[i]>> : i \in ItemsOf(w.kind)}]
         ELSE /\ floor' = [floor EXCEPT ![w.rep][w.item] = IF w.change > @ THEN w.change ELSE @]
              /\ open' = [open EXCEPT ![w.rep] =
                            {e \in @ : e[1] # w.item \/ e[2] > w.change}]
    BY <1>1 DEF Acknowledge
<1>3. changes \in Nat /\ HistoryTypes /\ RequestTypes
    BY DEF Types, StoreTypes
<1>4. /\ w.rep \in Replicas /\ w.item \in Items \cup {Null} /\ w.change \in 0..changes
      /\ w.value \in DocsTo(changes)
    BY <1>1, LiveTyped
<1>5. floor' \in [Replicas -> DocsTo(changes)]
  <2>1. CASE w.item = Null
    <3>1. PICK d : d = [i \in Items |-> IF i \in ItemsOf(w.kind) THEN w.value[i] ELSE floor[w.rep][i]]
        OBVIOUS
    <3>2. d \in DocsTo(changes)
        BY <3>1, <1>3, <1>4 DEF HistoryTypes, DocsTo
    <3>3. floor' = [floor EXCEPT ![w.rep] = d]
        BY <3>1, <2>1, <1>2
    <3> QED BY <3>2, <3>3, <1>3 DEF HistoryTypes
  <2>2. CASE w.item # Null
    <3>1. floor' = [floor EXCEPT ![w.rep][w.item] = IF w.change > @ THEN w.change ELSE @]
        BY <2>2, <1>2
    <3> QED BY <3>1, <1>3, <1>4 DEF HistoryTypes, DocsTo
  <2> QED BY <2>1, <2>2
<1>6. open' \in [Replicas -> SUBSET (Items \X Nat)]
  <2>1. \E s : open' = [open EXCEPT ![w.rep] = s] /\ s \subseteq open[w.rep]
    <3>1. CASE w.item = Null
        BY <3>1, <1>2
    <3>2. CASE w.item # Null
      <4>1. PICK s : s = {e \in open[w.rep] : e[1] # w.item \/ e[2] > w.change}
          OBVIOUS
      <4>2. open' = [open EXCEPT ![w.rep] = s]
          BY <4>1, <3>2, <1>2
      <4>3. s \subseteq open[w.rep]
          BY <4>1
      <4> QED BY <4>2, <4>3
    <3> QED BY <3>1, <3>2
  <2> QED BY <2>1, <1>3, <1>4 DEF HistoryTypes
<1>7. RequestTypes'
  <2>1. /\ changes' \in Nat /\ changes <= changes' /\ up \subseteq up' /\ store' = store
        /\ req' = [req EXCEPT ![q] = Idle]
      BY <1>2, <1>3
  <2> QED BY <2>1, <1>3, RequestSet
<1> QED BY <1>3, <1>5, <1>6, <1>7 DEF HistoryTypes

\* The process's copy of the ConfigMap follows an answered write.
LEMMA MirrorTypes ==
    ASSUME Types, NEW q \in Requests, Live(q), ~Orphan(q),
           mirror' = IF store = "file" THEN mirror
                     ELSE [mirror EXCEPT ![req[q].rep] = Written(@, req[q], req[q].value)],
           UNCHANGED <<store, remote, up, changes>>
    PROVE  StoreTypes'
<1>1. PICK w : w = req[q]
    OBVIOUS
<1>2. /\ AtWork(w, up) /\ w.rep \in Replicas /\ w.kind \in Kinds
      /\ w.write \in {"config", "version", "prune"}
      /\ w.value \in DocsTo(changes) /\ changes \in Nat
    BY <1>1, LiveTyped
<1>3. w.value \in DocsTo(changes) \cup {Torn} /\ w.value # Torn /\ w.rep \in up /\ StoreTypes
    BY <1>2, DocsGrow DEF AtWork, Types
<1>4. mirror' = [r \in Replicas |-> mirror'[r]]
    BY <1>3 DEF StoreTypes
<1>5. ASSUME store = "k8s", NEW r \in up
      PROVE  IsConfig(mirror'[r], changes) /\ Whole(mirror'[r])
  <2>1. IsConfig(mirror[r], changes) /\ Whole(mirror[r]) /\ r \in Replicas
      BY <1>3, <1>5 DEF StoreTypes
  <2>2. IsConfig(Written(mirror[r], w, w.value), changes) /\ Whole(Written(mirror[r], w, w.value))
      BY <2>1, <1>2, <1>3, WrittenTyped
  <2>3. mirror'[r] = IF r = w.rep THEN Written(mirror[r], w, w.value) ELSE mirror[r]
      BY <1>1, <1>3, <1>5, <2>1 DEF StoreTypes
  <2> QED BY <2>1, <2>2, <2>3
<1> QED BY <1>3, <1>4, <1>5 DEF StoreTypes

LEMMA AfterVersionTypes ==
    ASSUME Types, NEW q \in Requests, Live(q), ~Orphan(q), req[q].stage # "config",
           NEW rest, AfterVersion(q, rest), UNCHANGED <<changes, up, store>>
    PROVE  HistoryTypes' /\ RequestTypes'
<1>1. CASE rest = <<>>
    BY <1>1, AcknowledgeTypes DEF AfterVersion
<1>2. CASE rest # <<>>
  <2>1. PICK w : w = req[q]
      OBVIOUS
  <2>2. PICK x : x = [w EXCEPT !.stage = "prune", !.write = "prune", !.io = "sent", !.prune = rest]
      OBVIOUS
  <2>3. /\ req' = [req EXCEPT ![q].stage = "prune", ![q].write = "prune",
                              ![q].io = "sent", ![q].prune = rest]
        /\ UNCHANGED <<floor, open>>
      BY <1>2 DEF AfterVersion, history
  <2>4. /\ changes \in Nat /\ changes' \in Nat /\ changes <= changes' /\ up \subseteq up'
        /\ changes' = changes /\ up' = up
        /\ store' = store /\ HistoryTypes /\ RequestTypes
      BY DEF Types, StoreTypes
  <2>5. req' = [req EXCEPT ![q] = x]
      BY <2>1, <2>2, <2>3, <2>4 DEF RequestTypes
  <2>6. IsFlight(w, changes) /\ AtWork(w, up) /\ w.stage # "config"
      BY <2>1, LiveTyped
  <2>7. IsFlight(x, changes)
      BY <2>2, <2>6 DEF IsFlight
  <2>8. AtWork(x, up)
      BY <2>2, <2>6 DEF AtWork, IsFlight
  <2>9. Flying(x, changes', up', store)
      BY <2>4, <2>7, <2>8 DEF Flying
  <2>10. RequestTypes'
      BY <2>4, <2>5, <2>9, RequestSet
  <2> QED BY <2>3, <2>4, <2>10 DEF HistoryTypes
<1> QED BY <1>1, <1>2

LEMMA ConfigSavedTypes ==
    ASSUME Types, NEW q \in Requests, ConfigSaved(q)
    PROVE  Types'
<1>1. PICK w : w = req[q]
    OBVIOUS
<1>2. /\ w.stage = "config" /\ w.io = "applied"
      /\ mirror' = IF store = "file" THEN mirror
                   ELSE [mirror EXCEPT ![w.rep] = Written(@, w, w.value)]
      /\ cache' = [cache EXCEPT ![w.rep][w.kind] = IF w.item = Null THEN Null ELSE w.obj]
      /\ UNCHANGED <<store, remote, up, heap, changes>>
    BY <1>1 DEF ConfigSaved, clock
<1>3. \/ /\ req' = [req EXCEPT ![q] =
                  [w EXCEPT !.stage = "version", !.write = "version", !.io = "sent",
                            !.value = heap[w.rep][w.obj], !.version = Len(Listed(w.rep)) + 1,
                            !.prune = SubSeq(Listed(w.rep), 1,
                                             (Len(Listed(w.rep)) + 1) - MaxVersions)]]
         /\ w.item # Null
         /\ UNCHANGED <<floor, open>>
      \/ Acknowledge(q)
    BY <1>1 DEF ConfigSaved, StartVersion, history
<1>4. Live(q) /\ ~Orphan(q)
    BY <1>1, <1>2 DEF Live, Orphan
<1>5. /\ IsFlight(w, changes) /\ AtWork(w, up) /\ w.rep \in Replicas /\ w.kind \in Kinds
      /\ changes \in Nat
    BY <1>1, <1>4, LiveTyped
<1>6. w.rep \in up /\ (w.item # Null => w.obj \in Objects /\ w.item \in ItemsOf(w.kind))
    BY <1>5 DEF AtWork
<1>7. StoreTypes'
    BY <1>1, <1>2, <1>4, MirrorTypes
<1>8. MemoryTypes'
  <2>1. MemoryTypes
      BY DEF Types
  <2>2. cache' \in [Replicas -> [Kinds -> Objects \cup {Null}]]
      BY <2>1, <1>2, <1>5, <1>6 DEF MemoryTypes
  <2>3. \A p \in Replicas \ up, k \in Kinds : cache'[p][k] = Null
      BY <2>1, <1>2, <1>6 DEF MemoryTypes
  <2> QED BY <2>1, <2>2, <2>3, <1>2 DEF MemoryTypes
<1>9. CASE Acknowledge(q)
  <2>1. HistoryTypes' /\ RequestTypes'
      BY <1>2, <1>4, <1>9, AcknowledgeTypes
  <2> QED BY <2>1, <1>7, <1>8 DEF Types
<1>10. CASE ~Acknowledge(q)
  <2>1. PICK x : x = [w EXCEPT !.stage = "version", !.write = "version", !.io = "sent",
                            !.value = heap[w.rep][w.obj], !.version = Len(Listed(w.rep)) + 1,
                            !.prune = SubSeq(Listed(w.rep), 1,
                                             (Len(Listed(w.rep)) + 1) - MaxVersions)]
      OBVIOUS
  <2>2. w.item # Null /\ req' = [req EXCEPT ![q] = x] /\ UNCHANGED <<floor, open>>
      BY <1>3, <1>10, <2>1
  <2>3. heap[w.rep][w.obj] \in DocsTo(changes)
      BY <2>2, <1>5, <1>6 DEF Types, MemoryTypes
  <2>4. IsFlight(x, changes)
      BY <2>1, <2>3, <1>5 DEF IsFlight
  <2>5. AtWork(x, up)
      BY <2>1, <2>2, <1>5 DEF AtWork, IsFlight
  <2>6. Flying(x, changes', up', store)
      BY <2>4, <2>5, <1>2 DEF Flying
  <2>7. /\ changes' \in Nat /\ changes <= changes' /\ up \subseteq up' /\ store' = store
        /\ RequestTypes /\ HistoryTypes
      BY <1>2, <1>5 DEF Types
  <2>8. RequestTypes'
      BY <2>2, <2>6, <2>7, <1>5, RequestSet
  <2>9. HistoryTypes'
      BY <2>2, <2>7, <1>2 DEF HistoryTypes
  <2> QED BY <2>8, <2>9, <1>7, <1>8 DEF Types
<1> QED BY <1>9, <1>10

LEMMA VersionSavedTypes ==
    ASSUME Types, NEW q \in Requests, VersionSaved(q) \/ Pruned(q)
    PROVE  Types'
<1>1. /\ Live(q) /\ ~Orphan(q) /\ req[q].stage # "config"
      /\ mirror' = IF store = "file" THEN mirror
                   ELSE [mirror EXCEPT ![req[q].rep] = Written(@, req[q], req[q].value)]
      /\ UNCHANGED <<store, remote, up, cache, heap, changes>>
    BY DEF VersionSaved, Pruned, Live, Orphan, clock
<1>2. \E rest : AfterVersion(q, rest)
    BY DEF VersionSaved, Pruned
<1>3. StoreTypes'
    BY <1>1, MirrorTypes
<1>4. MemoryTypes'
    BY <1>1 DEF Types, MemoryTypes
<1>5. HistoryTypes' /\ RequestTypes'
    BY <1>1, <1>2, AfterVersionTypes
<1> QED BY <1>3, <1>4, <1>5 DEF Types

LEMMA WriteFailsTypes ==
    ASSUME Types, NEW q \in Requests, WriteFails(q)
    PROVE  Types'
<1>1. PICK w : w = req[q]
    OBVIOUS
<1>2. /\ Live(q) /\ ~Orphan(q)
      /\ remote' = remote \/ (store = "file" /\ remote' = Written(remote, w, Torn))
      /\ UNCHANGED <<store, mirror, up, cache, heap, changes>>
    BY <1>1 DEF WriteFails, clock
<1>3. \/ w.stage = "prune" /\ AfterVersion(q, Tail(w.prune))
      \/ req' = [req EXCEPT ![q] = Idle] /\ UNCHANGED <<floor, open>>
    BY <1>1 DEF WriteFails, history
<1>4. w.kind \in Kinds /\ w.write \in {"config", "version", "prune"} /\ changes \in Nat
    BY <1>1, <1>2, LiveTyped
<1>5. StoreTypes /\ MemoryTypes /\ HistoryTypes /\ RequestTypes
    BY DEF Types
<1>6. StoreTypes'
  <2>1. IsConfig(remote, changes)
      BY <1>5 DEF StoreTypes
  <2>2. IsConfig(Written(remote, w, Torn), changes)
      BY <2>1, <1>4, WrittenTyped
  <2> QED BY <2>1, <2>2, <1>2, <1>5 DEF StoreTypes
<1>7. MemoryTypes'
    BY <1>2, <1>5 DEF MemoryTypes
<1>8. HistoryTypes' /\ RequestTypes'
  <2>1. CASE w.stage = "prune" /\ AfterVersion(q, Tail(w.prune))
      BY <2>1, <1>1, <1>2, AfterVersionTypes
  <2>2. CASE req' = [req EXCEPT ![q] = Idle] /\ UNCHANGED <<floor, open>>
    <3>1. /\ changes' \in Nat /\ changes <= changes' /\ up \subseteq up' /\ store' = store
          /\ req' = [req EXCEPT ![q] = Idle]
        BY <2>2, <1>2, <1>4
    <3>2. RequestTypes'
        BY <3>1, <1>4, <1>5, RequestSet
    <3> QED BY <3>2, <2>2, <1>2, <1>5 DEF HistoryTypes
  <2> QED BY <2>1, <2>2, <1>3
<1> QED BY <1>6, <1>7, <1>8 DEF Types

LEMMA OrphanVanishesTypes ==
    ASSUME Types, NEW q \in Requests, OrphanVanishes(q)
    PROVE  Types'
<1>1. /\ req' = [req EXCEPT ![q] = Idle]
      /\ UNCHANGED <<store, remote, mirror, up, cache, heap, changes, floor, open>>
    BY DEF OrphanVanishes, memory, clock, history
<1>2. /\ changes \in Nat /\ StoreTypes /\ MemoryTypes /\ HistoryTypes /\ RequestTypes
    BY DEF Types, StoreTypes
<1>3. changes' \in Nat /\ changes <= changes' /\ up \subseteq up' /\ store' = store
    BY <1>1, <1>2
<1>4. RequestTypes'
    BY <1>1, <1>2, <1>3, RequestSet
<1>5. StoreTypes'
    BY <1>1, <1>2, <1>3, StoreGrows
<1>6. MemoryTypes' /\ HistoryTypes'
    BY <1>1, <1>2 DEF MemoryTypes, HistoryTypes
<1> QED BY <1>4, <1>5, <1>6 DEF Types

\* A process dies; what the directory holds is the caller's concern.
LEMMA LoseMemoryTypes ==
    ASSUME Types, NEW r \in Replicas, LoseMemory(r)
    PROVE  MemoryTypes' /\ HistoryTypes' /\ RequestTypes'
<1>1. /\ up' = up \ {r}
      /\ cache' = [cache EXCEPT ![r] = [k \in Kinds |-> Null]]
      /\ heap' = [heap EXCEPT ![r] = [o \in Objects |-> NoItems]]
      /\ UNCHANGED <<store, changes, floor, open>>
    BY DEF LoseMemory
<1>2. req' = [q \in Requests |->
                 IF q \notin InFlight(r) THEN req[q]
                 ELSE IF store = "k8s" /\ req[q].io = "sent"
                      THEN [req[q] EXCEPT !.stage = "orphan", !.obj = Null] ELSE Idle]
    BY DEF LoseMemory
<1>3. /\ changes \in Nat /\ MemoryTypes /\ HistoryTypes /\ RequestTypes
    BY DEF Types, StoreTypes
<1>4. MemoryTypes'
  <2>1. NoItems \in DocsTo(changes)
      BY <1>3, DocsGrow
  <2>2. heap' \in [Replicas -> [Objects -> DocsTo(changes)]]
      BY <2>1, <1>1, <1>3 DEF MemoryTypes
  <2>3. cache' \in [Replicas -> [Kinds -> Objects \cup {Null}]]
      BY <1>1, <1>3 DEF MemoryTypes
  <2>4. \A p \in Replicas \ up', k \in Kinds : cache'[p][k] = Null
      BY <1>1, <1>3 DEF MemoryTypes
  <2> QED BY <2>2, <2>3, <2>4, <1>1 DEF MemoryTypes
<1>5. HistoryTypes'
    BY <1>1, <1>3 DEF HistoryTypes
<1>6. RequestTypes'
  <2>1. req' = [q \in Requests |-> req'[q]]
      BY <1>2
  <2>2. ASSUME NEW q \in Requests, req'[q].stage # "idle"
        PROVE  Flying(req'[q], changes, up', store)
    <3>1. PICK w : w = req[q]
        OBVIOUS
    <3>2. Live(q)
        BY <2>2, <1>2 DEF Live, Idle, InFlight
    <3>3. /\ IsFlight(w, changes) /\ (~Orphan(q) => AtWork(w, up))
          /\ (Orphan(q) => LeftBehind(w, store))
        BY <3>1, <3>2, LiveTyped
    <3>4. CASE q \notin InFlight(r)
      <4>1. req'[q] = w
          BY <3>1, <3>4, <1>2
      <4>2. ~Orphan(q) => w.rep # r
          BY <3>1, <3>2, <3>4 DEF InFlight
      <4>3. ~Orphan(q) => AtWork(w, up')
          BY <3>3, <4>2, <1>1 DEF AtWork
      <4> QED BY <4>1, <4>3, <3>3 DEF Flying
    <3>5. CASE q \in InFlight(r)
      <4>1. store = "k8s" /\ w.io = "sent" /\ req'[q] = [w EXCEPT !.stage = "orphan", !.obj = Null]
          BY <3>1, <3>5, <2>2, <1>2 DEF Idle
      <4>2. PICK x : x = [w EXCEPT !.stage = "orphan", !.obj = Null]
          OBVIOUS
      <4>3. IsFlight(x, changes)
          BY <4>2, <3>3 DEF IsFlight
      <4>4. LeftBehind(x, store)
          BY <4>1, <4>2, <3>3 DEF LeftBehind, IsFlight
      <4> QED BY <4>1, <4>2, <4>3, <4>4 DEF Flying
    <3> QED BY <3>4, <3>5
  <2> QED BY <2>1, <2>2, <1>1 DEF RequestTypes, Live
<1> QED BY <1>4, <1>5, <1>6

LEMMA CrashTypes ==
    ASSUME Types, \/ \E r \in Replicas : Crash(r)
                  \/ \E q \in Requests : CrashInWrite(q)
    PROVE  Types'
<1>1. \E r \in Replicas :
        /\ LoseMemory(r)
        /\ \/ remote' = remote
           \/ /\ store = "file"
              /\ \E q \in Requests : Live(q) /\ remote' = Written(remote, req[q], Torn)
  <2>1. ASSUME NEW q \in Requests, CrashInWrite(q)
        PROVE  req[q].rep \in Replicas /\ LoseMemory(req[q].rep)
               /\ store = "file" /\ Live(q) /\ remote' = Written(remote, req[q], Torn)
    <3>1. Live(q)
        BY <2>1 DEF CrashInWrite
    <3>2. req[q].rep \in Replicas
        BY <3>1, LiveTyped
    <3> QED BY <2>1, <3>2 DEF CrashInWrite
  <2>2. ASSUME NEW r \in Replicas, Crash(r) PROVE LoseMemory(r) /\ remote' = remote
      BY <2>2 DEF Crash
  <2> QED BY <2>1, <2>2
<1>2. PICK r \in Replicas :
        /\ LoseMemory(r)
        /\ \/ remote' = remote
           \/ /\ store = "file"
              /\ \E q \in Requests : Live(q) /\ remote' = Written(remote, req[q], Torn)
    BY <1>1
<1>3. /\ up' = up \ {r}
      /\ mirror' = [mirror EXCEPT ![r] = Null]
      /\ UNCHANGED <<store, changes>>
    BY <1>2 DEF LoseMemory
<1>4. StoreTypes /\ changes \in Nat
    BY DEF Types, StoreTypes
<1>5. IsConfig(remote', changes)
  <2>1. IsConfig(remote, changes)
      BY <1>4 DEF StoreTypes
  <2>2. ASSUME NEW q \in Requests, Live(q) PROVE IsConfig(Written(remote, req[q], Torn), changes)
    <3>1. req[q].kind \in Kinds /\ req[q].write \in {"config", "version", "prune"}
        BY <2>2, LiveTyped
    <3> QED BY <3>1, <2>1, <1>4, WrittenTyped
  <2> QED BY <2>1, <2>2, <1>2
<1>6. StoreTypes'
  <2>1. mirror' = [p \in Replicas |-> mirror'[p]]
      BY <1>3, <1>4 DEF StoreTypes
  <2>2. store = "k8s" => /\ Whole(remote')
                         /\ \A p \in up' : IsConfig(mirror'[p], changes) /\ Whole(mirror'[p])
      BY <1>2, <1>3, <1>4 DEF StoreTypes
  <2> QED BY <2>1, <2>2, <1>3, <1>4, <1>5 DEF StoreTypes
<1> QED BY <1>2, <1>6, LoseMemoryTypes DEF Types

\* Filling a cache from the store.
LEMMA FillTypes ==
    ASSUME StoreTypes, MemoryTypes, NEW r \in up, NEW k \in Kinds, IsFree(FreeObject(r), r),
           Stored(r, k) # Torn,
           cache' = [cache EXCEPT ![r][k] = FreeObject(r)],
           heap' = [heap EXCEPT ![r][FreeObject(r)] = Stored(r, k)],
           UNCHANGED <<up, changes>>
    PROVE  MemoryTypes'
<1>1. Stored(r, k) \in DocsTo(changes) /\ r \in Replicas
    BY InForceTyped DEF StoreTypes
<1>2. FreeObject(r) \in Objects
    BY DEF IsFree
<1>3. cache' \in [Replicas -> [Kinds -> Objects \cup {Null}]]
    BY <1>2 DEF MemoryTypes
<1>4. heap' \in [Replicas -> [Objects -> DocsTo(changes)]]
    BY <1>1, <1>2 DEF MemoryTypes
<1>5. \A p \in Replicas \ up', l \in Kinds : cache'[p][l] = Null
    BY DEF MemoryTypes
<1> QED BY <1>3, <1>4, <1>5 DEF MemoryTypes

LEMMA ReadConfigTypes ==
    ASSUME Types, NEW r \in Replicas, NEW k \in Kinds, ReadConfig(r, k)
    PROVE  Types'
<1>1. /\ r \in up /\ cache[r][k] = Null /\ Stored(r, k) # Torn
      /\ cache' = [cache EXCEPT ![r][k] = FreeObject(r)]
      /\ heap' = [heap EXCEPT ![r][FreeObject(r)] = Stored(r, k)]
      /\ UNCHANGED <<store, remote, mirror, up, req, changes, floor, open>>
    BY DEF ReadConfig, Readable, InForce, Filled, ObjectOf, clock, history
<1>2. /\ changes \in Nat /\ StoreTypes /\ MemoryTypes /\ HistoryTypes /\ RequestTypes
    BY DEF Types, StoreTypes
<1>3. IsFree(FreeObject(r), r)
    BY <1>1, <1>2, FreeObjectIsFree
<1>4. MemoryTypes'
    BY <1>1, <1>2, <1>3, FillTypes
<1>5. changes' \in Nat /\ changes <= changes' /\ up \subseteq up'
    BY <1>1, <1>2
<1> QED BY <1>1, <1>2, <1>4, <1>5, StoreGrows, HistoryGrows, RequestsSame DEF Types

LEMMA WatchFiresTypes ==
    ASSUME Types, NEW r \in Replicas, NEW k \in Kinds, WatchFires(r, k), InFlight(r) = {}
    PROVE  Types'
<1>1. /\ r \in up
      /\ \/ /\ Stored(r, k) = Torn
            /\ cache' = [cache EXCEPT ![r][k] = Null]
            /\ UNCHANGED <<heap, floor, open>>
         \/ /\ Stored(r, k) # Torn
            /\ cache' = [cache EXCEPT ![r][k] = FreeObject(r)]
            /\ heap' = [heap EXCEPT ![r][FreeObject(r)] = Stored(r, k)]
            /\ floor' = [floor EXCEPT ![r] =
                 [i \in Items |-> IF i \in ItemsOf(k) THEN Stored(r, k)[i] ELSE floor[r][i]]]
            /\ open' = [open EXCEPT ![r] = {e \in @ : e[1] \notin ItemsOf(k)}]
      /\ UNCHANGED <<store, remote, mirror, up, req, changes>>
    BY DEF WatchFires, Reload, clock
<1>2. /\ changes \in Nat /\ StoreTypes /\ MemoryTypes /\ HistoryTypes /\ RequestTypes
    BY DEF Types, StoreTypes
<1>3. IsFree(FreeObject(r), r)
    BY <1>1, <1>2, FreeObjectIsFree
<1>4. MemoryTypes' /\ HistoryTypes'
  <2>1. CASE Stored(r, k) = Torn
    <3>1. cache' = [cache EXCEPT ![r][k] = Null] /\ heap' = heap /\ up' = up /\ changes' = changes
        BY <2>1, <1>1
    <3>2. cache' \in [Replicas -> [Kinds -> Objects \cup {Null}]]
        BY <3>1, <1>2 DEF MemoryTypes
    <3>3. \A p \in Replicas \ up', l \in Kinds : cache'[p][l] = Null
        BY <3>1, <1>2 DEF MemoryTypes
    <3>4. MemoryTypes'
        BY <3>1, <3>2, <3>3, <1>2 DEF MemoryTypes
    <3> QED BY <3>4, <2>1, <1>1, <1>2 DEF HistoryTypes
  <2>2. CASE Stored(r, k) # Torn
    <3>1. MemoryTypes'
        BY <2>2, <1>1, <1>2, <1>3, FillTypes
    <3>2. PICK d : d = Stored(r, k)
        OBVIOUS
    <3>3. d \in DocsTo(changes)
        BY <3>2, <2>2, <1>1, <1>2, InForceTyped
    <3>4. PICK f : f = [i \in Items |-> IF i \in ItemsOf(k) THEN d[i] ELSE floor[r][i]]
        OBVIOUS
    <3>5. f \in DocsTo(changes)
        BY <3>3, <3>4, <1>2 DEF HistoryTypes, DocsTo
    <3>6. floor' = [floor EXCEPT ![r] = f]
        BY <3>2, <3>4, <2>2, <1>1
    <3>7. floor' \in [Replicas -> DocsTo(changes)]
        BY <3>5, <3>6, <1>2 DEF HistoryTypes
    <3>8. PICK s : s = {e \in open[r] : e[1] \notin ItemsOf(k)}
        OBVIOUS
    <3>9. open' = [open EXCEPT ![r] = s] /\ s \subseteq open[r]
        BY <3>8, <2>2, <1>1
    <3>10. open' \in [Replicas -> SUBSET (Items \X Nat)]
        BY <3>9, <1>2 DEF HistoryTypes
    <3> QED BY <3>1, <3>7, <3>10, <1>1 DEF HistoryTypes
  <2> QED BY <2>1, <2>2
<1>5. changes' \in Nat /\ changes <= changes' /\ up \subseteq up'
    BY <1>1, <1>2
<1> QED BY <1>1, <1>2, <1>4, <1>5, StoreGrows, RequestsSame DEF Types

LEMMA LogStepTypes ==
    ASSUME Types, NEW r \in Replicas, ReadLog(r) \/ FlushLog(r),
           opLog \in [Replicas -> Seq(Nat)]
    PROVE  Types'
<1>1. /\ UNCHANGED <<store, up, cache, heap, req, changes, floor, open>>
      /\ remote' \in {remote, [remote EXCEPT !.log = opLog[r]]}
      /\ mirror' = mirror \/ (store # "file" /\ mirror' = [mirror EXCEPT ![r].log = opLog[r]])
    BY DEF ReadLog, FlushLog, clock, history
<1>2. /\ changes \in Nat /\ StoreTypes /\ MemoryTypes /\ HistoryTypes /\ RequestTypes
    BY DEF Types, StoreTypes
<1>3. changes' \in Nat /\ changes <= changes' /\ up \subseteq up'
    BY <1>1, <1>2
<1>4. ASSUME NEW S, IsConfig(S, changes)
      PROVE  /\ IsConfig([S EXCEPT !.log = opLog[r]], changes)
             /\ Whole(S) => Whole([S EXCEPT !.log = opLog[r]])
  <2>1. PICK l \in Seq(Nat) : l = opLog[r]
      OBVIOUS
  <2>2. PICK T : T = [S EXCEPT !.log = l]
      OBVIOUS
  <2>3. T.config = S.config /\ T.versions = S.versions /\ T.log = l
      BY <1>4, <2>2 DEF IsConfig
  <2>4. T = [config |-> T.config, versions |-> T.versions, log |-> T.log]
      BY <1>4, <2>2 DEF IsConfig
  <2>5. IsConfig(T, changes) /\ (Whole(S) => Whole(T))
      BY <2>3, <2>4, <1>4 DEF IsConfig, Whole
  <2> QED BY <2>1, <2>2, <2>5
<1>5. IsConfig(remote', changes) /\ (Whole(remote) => Whole(remote'))
    BY <1>1, <1>2, <1>4 DEF StoreTypes
<1>6. mirror' = [p \in Replicas |-> mirror'[p]]
    BY <1>1, <1>2 DEF StoreTypes
<1>7. ASSUME store = "k8s", NEW p \in up
      PROVE  IsConfig(mirror'[p], changes) /\ Whole(mirror'[p])
  <2>1. p \in Replicas /\ IsConfig(mirror[p], changes) /\ Whole(mirror[p])
      BY <1>2, <1>7 DEF StoreTypes
  <2>2. mirror'[p] \in {mirror[p], [mirror[p] EXCEPT !.log = opLog[r]]}
      BY <1>1, <1>2, <2>1 DEF StoreTypes
  <2> QED BY <2>1, <2>2, <1>4
<1>8. StoreTypes'
    BY <1>1, <1>2, <1>5, <1>6, <1>7 DEF StoreTypes
<1> QED BY <1>1, <1>2, <1>3, <1>8, MemoryGrows, HistoryGrows, RequestsSame DEF Types

LEMMA EditTypes ==
    ASSUME Types, NEW k \in Kinds, NEW i \in Items, Edit(k, i)
    PROVE  Types'
<1>1. PICK old : old = IF remote.config[k] = Torn THEN NoItems ELSE remote.config[k]
    OBVIOUS
<1>2. PICK new : new = [old EXCEPT ![i] = changes + 1]
    OBVIOUS
<1>3. /\ store = "file" /\ remote.config[k] # Null
      /\ changes' = changes + 1
      /\ remote' = [remote EXCEPT !.config[k] = new]
      /\ open' = [r \in Replicas |-> open[r] \cup {<<j, new[j]>> : j \in ItemsOf(k)}]
      /\ UNCHANGED <<store, mirror, up, cache, heap, req, floor>>
    BY <1>1, <1>2 DEF Edit, memory
<1>4. changes \in Nat /\ StoreTypes /\ MemoryTypes /\ HistoryTypes /\ RequestTypes
    BY DEF Types, StoreTypes
<1>5. changes' \in Nat /\ changes <= changes' /\ up \subseteq up' /\ changes' = changes + 1
    BY <1>3, <1>4
<1>6. new \in DocsTo(changes')
  <2>1. remote.config[k] \in DocsTo(changes) \cup {Torn, Null}
      BY <1>4 DEF StoreTypes, IsConfig
  <2>2. old \in DocsTo(changes)
      BY <2>1, <1>1, <1>3, <1>4, DocsGrow
  <2>3. old \in DocsTo(changes')
      BY <2>2, <1>4, <1>5, DocsGrow
  <2> QED BY <2>3, <1>2, <1>4, <1>5 DEF DocsTo
<1>7. StoreTypes'
  <2>1. IsConfig(remote, changes')
      BY <1>4, <1>5, ConfigGrows DEF StoreTypes
  <2>2. IsConfig(remote', changes')
      BY <2>1, <1>3, <1>6 DEF IsConfig
  <2>3. store # "k8s"
      BY <1>3
  <2> QED BY <2>2, <2>3, <1>3, <1>4, <1>5 DEF StoreTypes
<1>8. HistoryTypes'
  <2>1. \A j \in ItemsOf(k) : j \in Items /\ new[j] \in Nat
      BY <1>5, <1>6, ConfigAssumption DEF ItemsOf, DocsTo
  <2>2. open' \in [Replicas -> SUBSET (Items \X Nat)]
      BY <1>3, <1>4, <2>1 DEF HistoryTypes
  <2>3. floor' \in [Replicas -> DocsTo(changes')]
      BY <1>3, <1>4, <1>5, SetsGrow DEF HistoryTypes
  <2> QED BY <2>2, <2>3 DEF HistoryTypes
<1>9. UNCHANGED <<cache, heap, up>> /\ req' = req /\ store' = store
    BY <1>3
<1> QED BY <1>4, <1>5, <1>7, <1>8, <1>9, MemoryGrows, RequestsSame DEF Types

\* What a start writes, and the tags and callbacks it finds.
StartTags == IF remote.config["tags"] = Null THEN NoItems ELSE remote.config["tags"]
StartDoc  == [i \in Items |-> IF i \in MissingBuiltIns(StartTags) THEN changes + 1 ELSE StartTags[i]]
Booted    == IF MissingBuiltIns(StartTags) = {} THEN remote
             ELSE [remote EXCEPT !.config["tags"] = StartDoc]
StartFloor(r) ==
    [i \in Items |->
       IF i \in MissingBuiltIns(StartTags) THEN changes + 1
       ELSE IF store = "file" THEN floor[r][i]
       ELSE IF i \in Tags THEN StartDoc[i]
       ELSE IF Booted.config["callbacks"] = Null THEN 0
       ELSE Booted.config["callbacks"][i]]

LEMMA StartStep ==
    ASSUME NEW r, Start(r)
    PROVE  /\ r \notin up /\ StartTags # Torn
           /\ up' = up \cup {r}
           /\ changes' = IF MissingBuiltIns(StartTags) = {} THEN changes ELSE changes + 1
           /\ remote' = Booted
           /\ mirror' = IF store = "file" THEN mirror ELSE [mirror EXCEPT ![r] = Booted]
           /\ cache' = [cache EXCEPT ![r]["tags"] = 1]
           /\ heap' = [heap EXCEPT ![r][1] = StartDoc]
           /\ floor' = [floor EXCEPT ![r] = StartFloor(r)]
           /\ UNCHANGED <<store, req, opLog, logTimer, crashes, deleted, raced, open, acks,
                          runAcks>>
BY Zenon DEF Start, StartTags, StartDoc, Booted, StartFloor

LEMMA StartTypes ==
    ASSUME Types, NEW r \in Replicas, Start(r)
    PROVE  /\ Types'
           /\ StartDoc \in DocsTo(changes') /\ StartTags \in DocsTo(changes)
           /\ StartFloor(r) \in DocsTo(changes')
           /\ changes' \in Nat /\ changes <= changes' /\ changes \in Nat
           /\ IsConfig(Booted, changes')
<1> DEFINE missing == MissingBuiltIns(StartTags)
<1>1. /\ StartTags # Torn /\ up' = up \cup {r}
      /\ changes' = IF missing = {} THEN changes ELSE changes + 1
      /\ remote' = Booted
      /\ mirror' = IF store = "file" THEN mirror ELSE [mirror EXCEPT ![r] = Booted]
      /\ cache' = [cache EXCEPT ![r]["tags"] = 1]
      /\ heap' = [heap EXCEPT ![r][1] = StartDoc]
      /\ floor' = [floor EXCEPT ![r] = StartFloor(r)]
      /\ UNCHANGED <<store, req, open>>
    BY StartStep
<1>2. changes \in Nat /\ StoreTypes /\ MemoryTypes /\ HistoryTypes /\ RequestTypes
    BY DEF Types, StoreTypes
<1>3. changes' \in Nat /\ changes <= changes' /\ up \subseteq up' /\ changes' \in {changes, changes + 1}
    BY <1>1, <1>2
<1>4. missing # {} => changes' = changes + 1
    BY <1>1
<1>5. IsConfig(remote, changes)
    BY <1>2 DEF StoreTypes
<1>6. StartTags \in DocsTo(changes) /\ StartTags \in DocsTo(changes')
  <2>1. remote.config["tags"] \in DocsTo(changes) \cup {Torn, Null}
      BY <1>5 DEF IsConfig, Kinds
  <2>2. StartTags \in DocsTo(changes)
      BY <2>1, <1>1, <1>2, DocsGrow DEF StartTags
  <2> QED BY <2>2, <1>2, <1>3, DocsGrow
<1>7. StartDoc \in DocsTo(changes')
  <2>1. \A i \in Items : i \in missing => changes + 1 \in 0..changes'
      BY <1>2, <1>4
  <2> QED BY <2>1, <1>6 DEF StartDoc, DocsTo
<1>8. IsConfig(Booted, changes')
  <2>1. IsConfig(remote, changes')
      BY <1>2, <1>3, <1>5, ConfigGrows
  <2> QED BY <2>1, <1>7 DEF Booted, IsConfig, Kinds
<1>9. Whole(remote) => Whole(Booted)
  <2>1. StartDoc # Torn
      BY <1>3, <1>7, DocsGrow
  <2> QED BY <2>1, <1>5 DEF Booted, Whole, IsConfig, Kinds
<1>10. StoreTypes'
  <2>1. mirror' = [p \in Replicas |-> mirror'[p]]
      BY <1>1, <1>2 DEF StoreTypes
  <2>2. ASSUME store = "k8s", NEW p \in up'
        PROVE  IsConfig(mirror'[p], changes') /\ Whole(mirror'[p])
    <3>1. Whole(Booted)
        BY <2>2, <1>2, <1>9 DEF StoreTypes
    <3>2. mirror'[p] = IF p = r THEN Booted ELSE mirror[p]
        BY <2>2, <1>1, <1>2 DEF StoreTypes
    <3>3. CASE p # r
      <4>1. IsConfig(mirror[p], changes) /\ Whole(mirror[p])
          BY <2>2, <3>3, <1>1, <1>2 DEF StoreTypes
      <4>2. IsConfig(mirror[p], changes')
          BY <4>1, <1>2, <1>3, ConfigGrows
      <4> QED BY <4>1, <4>2, <3>2, <3>3
    <3> QED BY <3>1, <3>2, <3>3, <1>8
  <2>3. store = "k8s" => Whole(remote')
      BY <1>1, <1>2, <1>9 DEF StoreTypes
  <2> QED BY <2>1, <2>2, <2>3, <1>1, <1>2, <1>3, <1>8 DEF StoreTypes
<1>11. 1 \in Objects
  <2>1. Cardinality(Requests) \in Nat
      BY ConfigAssumption, FS_CardinalityType
  <2> QED BY <2>1 DEF Objects
<1>12. MemoryTypes'
  <2>1. cache' \in [Replicas -> [Kinds -> Objects \cup {Null}]]
      BY <1>1, <1>2, <1>11 DEF MemoryTypes, Kinds
  <2>2. heap \in [Replicas -> [Objects -> DocsTo(changes')]]
      BY <1>2, <1>3, SetsGrow DEF MemoryTypes
  <2>3. heap' \in [Replicas -> [Objects -> DocsTo(changes')]]
      BY <1>1, <1>7, <1>11, <2>2
  <2>4. \A p \in Replicas \ up', k \in Kinds : cache'[p][k] = Null
      BY <1>1, <1>2 DEF MemoryTypes
  <2> QED BY <2>1, <2>3, <2>4 DEF MemoryTypes
<1>13. StartFloor(r) \in DocsTo(changes')
  <2>1. floor \in [Replicas -> DocsTo(changes')]
      BY <1>2, <1>3, SetsGrow DEF HistoryTypes
  <2>2. store = "file" \/ Booted.config["callbacks"] = Null
        \/ Booted.config["callbacks"] \in DocsTo(changes')
    <3>1. Booted.config["callbacks"] \in DocsTo(changes') \cup {Null, Torn}
        BY <1>8 DEF IsConfig, Kinds
    <3>2. store = "k8s" => Booted.config["callbacks"] # Torn
        BY <1>2, <1>9 DEF StoreTypes, Whole, Kinds
    <3>3. store \in {"file", "k8s"}
        BY <1>2, ConfigAssumption DEF StoreTypes
    <3> QED BY <3>1, <3>2, <3>3
  <2>3. ASSUME NEW i \in Items PROVE StartFloor(r)[i] \in 0..changes'
    <3>1. i \in missing => changes + 1 \in 0..changes'
        BY <1>2, <1>4
    <3>2. 0 \in 0..changes' /\ floor[r][i] \in 0..changes' /\ StartDoc[i] \in 0..changes'
        BY <1>3, <1>7, <2>1 DEF DocsTo
    <3>3. store = "file" \/ Booted.config["callbacks"] = Null
          \/ Booted.config["callbacks"][i] \in 0..changes'
        BY <2>2 DEF DocsTo
    <3> QED BY <3>1, <3>2, <3>3 DEF StartFloor
  <2> QED BY <2>3 DEF StartFloor, DocsTo
<1>14. HistoryTypes'
  <2>1. floor \in [Replicas -> DocsTo(changes')]
      BY <1>2, <1>3, SetsGrow DEF HistoryTypes
  <2> QED BY <2>1, <1>1, <1>2, <1>13 DEF HistoryTypes
<1>15. RequestTypes'
    BY <1>1, <1>2, <1>3, RequestsSame
<1> QED BY <1>2, <1>3, <1>6, <1>7, <1>8, <1>10, <1>12, <1>13, <1>14, <1>15 DEF Types

LEMMA InitTypes == Init => Types
<1> SUFFICES ASSUME Init PROVE Types
    OBVIOUS
<1>1. PICK c \in {Null, NoItems} :
        remote = [config |-> [k \in Kinds |-> IF k = "tags" THEN Null ELSE c],
                  versions |-> <<>>, log |-> <<>>]
    BY DEF Init
<1>2. /\ store \in Stores /\ changes = 0 /\ up = {}
      /\ mirror = [r \in Replicas |-> Null]
      /\ cache = [r \in Replicas |-> [k \in Kinds |-> Null]]
      /\ heap = [r \in Replicas |-> [o \in Objects |-> NoItems]]
      /\ req = [q \in Requests |-> Idle]
      /\ floor = [r \in Replicas |-> NoItems] /\ open = [r \in Replicas |-> {}]
    BY DEF Init
<1>3. 0 \in Nat /\ NoItems \in DocsTo(0) /\ NoItems # Torn
    BY DocsGrow
<1>4. StoreTypes
  <2>1. IsConfig(remote, 0)
      BY <1>1, <1>3 DEF IsConfig
  <2>2. Whole(remote)
      BY <1>1, <1>3, ConfigAssumption DEF Whole
  <2> QED BY <2>1, <2>2, <1>2 DEF StoreTypes
<1>5. MemoryTypes /\ HistoryTypes
    BY <1>2, <1>3 DEF MemoryTypes, HistoryTypes
<1>6. RequestTypes
    BY <1>2 DEF RequestTypes, Live, Idle
<1> QED BY <1>4, <1>5, <1>6 DEF Types

-----------------------------------------------------------------------------
\* The operation log.  What a process has acknowledged since its start is at the head of
\* its list, which is the stored one only while that is nothing.
LogTypes ==
    /\ opLog \in [Replicas -> Seq(Nat)] /\ runAcks \in [Replicas -> Nat]
    /\ acks \in [Replicas -> Seq([change : Nat, item : Items \cup {Null}])]

Lasting(n) == IF n < MaxLogs THEN n ELSE MaxLogs
Tells(log, n, xs) ==
    n <= Len(xs) /\ Lasting(n) <= Len(log) /\ \A j \in 1..Lasting(n) : log[j] = xs[j].change

LogInv == LogTypes /\ \A r \in Replicas : Tells(opLog[r], runAcks[r], acks[r])

LEMMA Prepended ==
    ASSUME NEW R, NEW e \in R, NEW xs \in Seq(R)
    PROVE  /\ <<e>> \o xs \in Seq(R) /\ Len(xs) \in Nat
           /\ Len(<<e>> \o xs) = Len(xs) + 1
           /\ \A j \in 1..Len(xs) + 1 : (<<e>> \o xs)[j] = IF j = 1 THEN e ELSE xs[j - 1]
<1>1. <<e>> \in Seq(R) /\ Len(<<e>>) = 1 /\ <<e>>[1] = e
    OBVIOUS
<1>2. Len(xs) \in Nat
    BY LenProperties
<1>3. /\ <<e>> \o xs \in Seq(R) /\ Len(<<e>> \o xs) = 1 + Len(xs)
      /\ \A j \in 1..1 + Len(xs) : (<<e>> \o xs)[j] = IF j <= 1 THEN <<e>>[j] ELSE xs[j - 1]
    BY <1>1, ConcatProperties
<1> QED BY <1>1, <1>2, <1>3

LEMMA LoggedTells ==
    ASSUME NEW log \in Seq(Nat), NEW n \in Nat, NEW c \in Nat, NEW R, NEW e \in R,
           NEW xs \in Seq(R), Tells(log, n, xs), e.change = c
    PROVE  /\ Logged(log, c) \in Seq(Nat) /\ <<e>> \o xs \in Seq(R)
           /\ Tells(Logged(log, c), n + 1, <<e>> \o xs)
<1>m. PICK m : m = IF Len(log) < MaxLogs THEN Len(log) + 1 ELSE MaxLogs
    OBVIOUS
<1>2. PICK long : long = <<c>> \o log
    OBVIOUS
<1>3. PICK bs : bs = <<e>> \o xs
    OBVIOUS
<1>5. /\ long \in Seq(Nat) /\ Len(long) = Len(log) + 1
      /\ \A j \in 1..Len(log) + 1 : long[j] = IF j = 1 THEN c ELSE log[j - 1]
    BY <1>2, Prepended
<1>6. /\ bs \in Seq(R) /\ Len(bs) = Len(xs) + 1
      /\ \A j \in 1..Len(xs) + 1 : bs[j] = IF j = 1 THEN e ELSE xs[j - 1]
    BY <1>3, Prepended
<1>7. MaxLogs \in Nat \ {0} /\ Len(log) \in Nat /\ Len(xs) \in Nat
    BY ConfigAssumption, LenProperties
<1>8. m \in 1..Len(log) + 1
    BY <1>7, <1>m
<1>9. PICK new : new = SubSeq(long, 1, m)
    OBVIOUS
<1>10. /\ new \in Seq(Nat) /\ Len(new) = m
       /\ \A j \in 1..m : new[j] = long[j]
  <2>1. \A j \in 1..m : long[j] \in Nat
      BY <1>5, <1>7, <1>8, ElementOfSeq
  <2>2. 1 \in Int /\ m \in Int /\ 1 <= m /\ \A j \in 1..m : j \in 1..m - 1 + 1 /\ 1 + j - 1 = j
      BY <1>7, <1>8
  <2>3. /\ new \in Seq(Nat) /\ Len(new) = IF 1 <= m THEN m - 1 + 1 ELSE 0
        /\ \A j \in 1..m - 1 + 1 : new[j] = long[1 + j - 1]
      BY <2>1, <2>2, <1>9, SubSeqProperties
  <2> QED BY <2>2, <2>3
<1>11. Logged(log, c) = new
    BY <1>2, <1>9, <1>m DEF Logged
<1>12. Tells(new, n + 1, bs)
  <2>1. n <= Len(xs) /\ Lasting(n) <= Len(log) /\ \A j \in 1..Lasting(n) : log[j] = xs[j].change
      BY DEF Tells
  <2>2. n + 1 <= Len(bs)
      BY <2>1, <1>6, <1>7
  <2>3. Lasting(n + 1) <= m /\ Lasting(n + 1) <= Lasting(n) + 1 /\ Lasting(n) \in Nat
        /\ Lasting(n + 1) \in Nat /\ Lasting(n) <= n
      BY <2>1, <1>7, <1>m DEF Lasting
  <2>4. ASSUME NEW j \in 1..Lasting(n + 1) PROVE new[j] = bs[j].change
    <3>1. j \in 1..m /\ j \in 1..Len(log) + 1 /\ j \in 1..Len(xs) + 1
        BY <2>1, <2>2, <2>3, <1>6, <1>7, <1>8
    <3>2. CASE j = 1
        BY <3>1, <3>2, <1>5, <1>6, <1>10
    <3>3. CASE j # 1
      <4>1. j - 1 \in 1..Lasting(n)
          BY <3>3, <2>3
      <4> QED BY <3>1, <3>3, <4>1, <2>1, <1>5, <1>6, <1>10
    <3> QED BY <3>2, <3>3
  <2> QED BY <2>2, <2>3, <2>4, <1>10 DEF Tells
<1> QED BY <1>3, <1>6, <1>10, <1>11, <1>12

\* Only four kinds of step touch the log.
LEMMA LogSteps ==
    ASSUME Types, Next
    PROVE  \/ UNCHANGED <<opLog, acks, runAcks>>
           \/ \E q \in Requests : Live(q) /\ Acknowledge(q)
           \/ \E r \in Replicas : ReadLog(r)
           \/ \E r \in Replicas : LoseMemory(r)
<1> DEFINE Goal == \/ UNCHANGED <<opLog, acks, runAcks>>
                   \/ \E q \in Requests : Live(q) /\ Acknowledge(q)
                   \/ \E r \in Replicas : ReadLog(r)
                   \/ \E r \in Replicas : LoseMemory(r)
<1>1. ASSUME NEW q \in Requests, NEW r \in Replicas, NEW k \in Kinds,
             \/ \E i \in Items, remove \in BOOLEAN : Change(q, r, k, i, remove)
             \/ \E n \in 1..MaxChanges : Rollback(q, r, k, n)
      PROVE  UNCHANGED <<opLog, acks, runAcks>>
    BY <1>1 DEF Change, Rollback, memory
<1>2. ASSUME NEW q \in Requests, Apply(q) \/ OrphanVanishes(q)
      PROVE  UNCHANGED <<opLog, acks, runAcks>>
    BY <1>2 DEF Apply, OrphanVanishes, memory, history
<1>3. ASSUME NEW q \in Requests, Proceed(q) \/ WriteFails(q)
      PROVE  UNCHANGED <<opLog, acks, runAcks>> \/ (Live(q) /\ Acknowledge(q))
  <2>1. Live(q)
      BY <1>3 DEF Proceed, ConfigSaved, VersionSaved, Pruned, WriteFails, Live
  <2>2. CASE ConfigSaved(q)
      BY <2>1, <2>2 DEF ConfigSaved, history
  <2>3. CASE VersionSaved(q) \/ Pruned(q)
      BY <2>1, <2>3 DEF VersionSaved, Pruned, AfterVersion, history
  <2>4. CASE WriteFails(q)
      BY <2>1, <2>4 DEF WriteFails, AfterVersion, history
  <2> QED BY <2>2, <2>3, <2>4, <1>3 DEF Proceed
<1>4. ASSUME NEW q \in Requests, CrashInWrite(q)
      PROVE  \E r \in Replicas : LoseMemory(r)
    BY <1>4, LiveTyped DEF CrashInWrite
<1>5. ASSUME NEW r \in Replicas, FlushLog(r) \/ Start(r)
      PROVE  UNCHANGED <<opLog, acks, runAcks>>
  <2>1. CASE FlushLog(r)
      BY <2>1 DEF FlushLog, history
  <2>2. CASE Start(r)
      BY <2>2, StartStep
  <2> QED BY <2>1, <2>2, <1>5
<1>6. ASSUME NEW r \in Replicas, NEW k \in Kinds, ReadConfig(r, k) \/ WatchFires(r, k)
      PROVE  UNCHANGED <<opLog, acks, runAcks>>
    BY <1>6 DEF ReadConfig, WatchFires, history
<1>7. ASSUME NEW k \in Kinds, NEW i \in Items, Edit(k, i)
      PROVE  UNCHANGED <<opLog, acks, runAcks>>
    BY <1>7 DEF Edit, memory
<1>8. ASSUME NEW r \in Replicas, Crash(r) PROVE LoseMemory(r)
    BY <1>8 DEF Crash
<1> QED BY <1>1, <1>2, <1>3, <1>4, <1>5, <1>6, <1>7, <1>8 DEF Next

LEMMA LogInvNext ==
    ASSUME Types, LogInv, [Next]_vars
    PROVE  LogInv'
<1>1. LogTypes /\ \A r \in Replicas : Tells(opLog[r], runAcks[r], acks[r])
    BY DEF LogInv
<1>2. CASE UNCHANGED <<opLog, acks, runAcks>>
    BY <1>1, <1>2 DEF LogInv, LogTypes
<1>3. ASSUME NEW q \in Requests, Live(q), Acknowledge(q)
      PROVE  LogInv'
  <2>1. PICK w : w = req[q]
      OBVIOUS
  <2>2. PICK e : e = [change |-> w.change, item |-> w.item]
      OBVIOUS
  <2>3. PICK r : r = w.rep
      OBVIOUS
  <2>4. /\ opLog' = [opLog EXCEPT ![r] = Logged(@, w.change)]
        /\ acks' = [acks EXCEPT ![r] = <<e>> \o @]
        /\ runAcks' = [runAcks EXCEPT ![r] = @ + 1]
      BY <1>3, <2>1, <2>2, <2>3 DEF Acknowledge
  <2>5. /\ r \in Replicas /\ w.change \in Nat
        /\ e \in [change : Nat, item : Items \cup {Null}] /\ e.change = w.change
    <3>1. w.rep \in Replicas /\ w.item \in Items \cup {Null} /\ w.change \in 0..changes /\ changes \in Nat
        BY <1>3, <2>1, LiveTyped
    <3> QED BY <3>1, <2>2, <2>3
  <2>6. /\ opLog[r] \in Seq(Nat) /\ runAcks[r] \in Nat
        /\ acks[r] \in Seq([change : Nat, item : Items \cup {Null}])
        /\ Tells(opLog[r], runAcks[r], acks[r])
      BY <1>1, <2>5 DEF LogTypes
  <2>7. /\ Logged(opLog[r], w.change) \in Seq(Nat)
        /\ <<e>> \o acks[r] \in Seq([change : Nat, item : Items \cup {Null}])
        /\ Tells(Logged(opLog[r], w.change), runAcks[r] + 1, <<e>> \o acks[r])
    <3>1. PICK R : R = [change : Nat, item : Items \cup {Null}]
        OBVIOUS
    <3>2. e \in R /\ acks[r] \in Seq(R)
        BY <3>1, <2>5, <2>6
    <3>3. /\ Logged(opLog[r], w.change) \in Seq(Nat) /\ <<e>> \o acks[r] \in Seq(R)
          /\ Tells(Logged(opLog[r], w.change), runAcks[r] + 1, <<e>> \o acks[r])
        BY <3>2, <2>5, <2>6, LoggedTells
    <3> QED BY <3>1, <3>3
  <2>8. PICK log, xs : log = Logged(opLog[r], w.change) /\ xs = <<e>> \o acks[r]
      OBVIOUS
  <2>9. /\ opLog' = [opLog EXCEPT ![r] = log]
        /\ acks' = [acks EXCEPT ![r] = xs]
      BY <2>4, <2>8
  <2>10. LogTypes'
    <3>1. PICK R : R = [change : Nat, item : Items \cup {Null}]
        OBVIOUS
    <3>2. xs \in Seq(R) /\ acks \in [Replicas -> Seq(R)]
        BY <3>1, <1>1, <2>7, <2>8 DEF LogTypes
    <3>3. acks' \in [Replicas -> Seq(R)]
        BY <3>2, <2>9
    <3>4. opLog' \in [Replicas -> Seq(Nat)]
        BY <1>1, <2>7, <2>8, <2>9 DEF LogTypes
    <3>5. runAcks' \in [Replicas -> Nat]
      <4>1. runAcks[r] + 1 \in Nat /\ runAcks \in [Replicas -> Nat]
          BY <1>1, <2>6 DEF LogTypes
      <4> QED BY <4>1, <2>4
    <3> QED BY <3>1, <3>3, <3>4, <3>5 DEF LogTypes
  <2>11. ASSUME NEW p \in Replicas PROVE Tells(opLog'[p], runAcks'[p], acks'[p])
    <3>1. CASE p = r
      <4>1. opLog'[p] = log /\ acks'[p] = xs /\ runAcks'[p] = runAcks[r] + 1
          BY <3>1, <1>1, <2>4, <2>9 DEF LogTypes
      <4> QED BY <4>1, <2>7, <2>8
    <3>2. CASE p # r
      <4>1. opLog'[p] = opLog[p] /\ acks'[p] = acks[p] /\ runAcks'[p] = runAcks[p]
          BY <3>2, <1>1, <2>4, <2>9 DEF LogTypes
      <4> QED BY <4>1, <1>1
    <3> QED BY <3>1, <3>2
  <2> QED BY <2>10, <2>11 DEF LogInv
<1>4. ASSUME NEW r \in Replicas, \/ ReadLog(r)
                                 \/ LoseMemory(r)
      PROVE  LogInv'
  <2>1. \E log \in Seq(Nat), n \in {0, runAcks[r]} :
          /\ opLog' = [opLog EXCEPT ![r] = log] /\ runAcks' = [runAcks EXCEPT ![r] = n]
          /\ acks' = acks /\ Lasting(n) = 0
    <3>1. CASE ReadLog(r)
      <4>1. r \in up /\ opLog[r] = <<>> /\ opLog' = [opLog EXCEPT ![r] = View(r).log]
            /\ runAcks' = runAcks /\ acks' = acks
          BY <3>1 DEF ReadLog, history
      <4>2. View(r).log \in Seq(Nat)
          BY <4>1, ViewTyped DEF Types, IsConfig
      <4>3. Lasting(runAcks[r]) <= Len(opLog[r]) /\ runAcks[r] \in Nat
          BY <1>1 DEF Tells, LogTypes
      <4>4. Len(opLog[r]) = 0
          BY <4>1
      <4>5. Lasting(runAcks[r]) = 0
          BY <4>3, <4>4, ConfigAssumption DEF Lasting
      <4>6. runAcks' = [runAcks EXCEPT ![r] = runAcks[r]]
          BY <4>1, <1>1 DEF LogTypes
      <4> QED BY <4>1, <4>2, <4>5, <4>6
    <3>2. CASE LoseMemory(r)
      <4>1. opLog' = [opLog EXCEPT ![r] = <<>>] /\ runAcks' = [runAcks EXCEPT ![r] = 0] /\ acks' = acks
          BY <3>2 DEF LoseMemory
      <4>2. <<>> \in Seq(Nat) /\ Lasting(0) = 0
          BY ConfigAssumption DEF Lasting
      <4> QED BY <4>1, <4>2
    <3> QED BY <3>1, <3>2, <1>4
  <2>2. PICK log \in Seq(Nat), n \in {0, runAcks[r]} :
          /\ opLog' = [opLog EXCEPT ![r] = log] /\ runAcks' = [runAcks EXCEPT ![r] = n]
          /\ acks' = acks /\ Lasting(n) = 0
      BY <2>1
  <2>3. LogTypes' /\ n \in Nat /\ n <= runAcks[r]
    <3>1. opLog' \in [Replicas -> Seq(Nat)]
        BY <2>2, <1>1 DEF LogTypes
    <3>2. runAcks[r] \in Nat /\ n \in Nat /\ n <= runAcks[r]
        BY <2>2, <1>1 DEF LogTypes
    <3>3. runAcks' \in [Replicas -> Nat]
        BY <2>2, <3>2, <1>1 DEF LogTypes
    <3> QED BY <3>1, <3>2, <3>3, <2>2, <1>1 DEF LogTypes
  <2>4. ASSUME NEW p \in Replicas PROVE Tells(opLog'[p], runAcks'[p], acks'[p])
    <3>1. CASE p = r
      <4>1. opLog'[p] = log /\ runAcks'[p] = n /\ acks'[p] = acks[r]
          BY <3>1, <1>1, <2>2 DEF LogTypes
      <4>2. n <= Len(acks[r])
        <5>1. acks[r] \in Seq([change : Nat, item : Items \cup {Null}])
            BY <1>1 DEF LogTypes
        <5>2. Len(acks[r]) \in Nat
            BY <5>1, LenProperties
        <5>3. runAcks[r] <= Len(acks[r]) /\ runAcks[r] \in Nat
            BY <1>1 DEF Tells, LogTypes
        <5> QED BY <5>2, <5>3, <2>3
      <4>3. Len(log) \in Nat
          BY LenProperties
      <4>4. Tells(log, n, acks[r])
          BY <4>2, <4>3, <2>2 DEF Tells
      <4> QED BY <4>1, <4>4
    <3>2. CASE p # r
      <4>1. opLog'[p] = opLog[p] /\ acks'[p] = acks[p] /\ runAcks'[p] = runAcks[p]
          BY <3>2, <1>1, <2>2 DEF LogTypes
      <4> QED BY <4>1, <1>1
    <3> QED BY <3>1, <3>2
  <2> QED BY <2>3, <2>4 DEF LogInv
<1>5. CASE UNCHANGED vars
    BY <1>2, <1>5 DEF vars
<1> QED BY <1>2, <1>3, <1>4, <1>5, LogSteps

-----------------------------------------------------------------------------
\* Nothing is watched over the Kubernetes store, so that a timer that fires finds the
\* process between two requests.
WatchTypes ==
    /\ watch = [k \in Kinds |-> watch[k]]
    /\ store = "k8s" => \A k \in Kinds : watch[k] = "off"

LEMMA WatchNext ==
    ASSUME Types, WatchTypes, [Next]_vars
    PROVE  WatchTypes'
<1>0. store \in {"file", "k8s"}
    BY ConfigAssumption DEF Types, StoreTypes
<1>1. CASE UNCHANGED <<watch, store>>
    BY <1>1 DEF WatchTypes
<1>2. ASSUME NEW q \in Requests, Apply(q) \/ WriteFails(q)
      PROVE  WatchTypes'
  <2>1. store' = store /\ watch' \in {watch, [watch EXCEPT ![req[q].kind] = "armed"]}
        /\ (store = "k8s" => (watch' = watch \/ watch[req[q].kind] # "off"))
      BY <1>2 DEF Apply, WriteFails, Rearmed
  <2>2. req[q].kind \in Kinds
    <3>1. Live(q)
        BY <1>2 DEF Apply, WriteFails
    <3> QED BY <3>1, LiveTyped
  <2> QED BY <2>1, <2>2 DEF WatchTypes
<1>3. ASSUME store = "file", store' = store, watch' = [k \in Kinds |-> watch'[k]]
      PROVE  WatchTypes'
    BY <1>3 DEF WatchTypes
<1>4. ASSUME NEW r \in Replicas, Crash(r) \/ Start(r) \/ FlushLog(r) \/ ReadLog(r)
      PROVE  WatchTypes'
  <2>1. CASE Crash(r)
    <3>1. store' = store /\ watch' = IF store = "file" THEN [k \in Kinds |-> "off"] ELSE watch
        BY <2>1 DEF Crash, LoseMemory
    <3> QED BY <3>1 DEF WatchTypes
  <2>2. CASE Start(r)
    <3>1. store' = store /\ (store # "file" => watch' = watch)
          /\ (store = "file" => watch' = [k \in Kinds |-> watch'[k]])
        BY <2>2 DEF Start
    <3> QED BY <3>1, <1>0 DEF WatchTypes
  <2>3. CASE FlushLog(r) \/ ReadLog(r)
      BY <2>3, <1>1 DEF FlushLog, ReadLog
  <2> QED BY <2>1, <2>2, <2>3, <1>4
<1>5. ASSUME NEW q \in Requests, CrashInWrite(q)
      PROVE  WatchTypes'
    BY <1>5 DEF CrashInWrite, LoseMemory, WatchTypes
<1>6. ASSUME NEW r \in Replicas, NEW k \in Kinds, ReadConfig(r, k) \/ WatchFires(r, k)
      PROVE  WatchTypes'
  <2>1. CASE ReadConfig(r, k)
      BY <2>1, <1>1 DEF ReadConfig
  <2>2. CASE WatchFires(r, k)
    <3>1. store' = store /\ watch[k] = "armed" /\ watch' = [watch EXCEPT ![k] = "idle"]
        BY <2>2 DEF WatchFires
    <3> QED BY <3>1 DEF WatchTypes
  <2> QED BY <2>1, <2>2, <1>6
<1>7. ASSUME NEW k \in Kinds, NEW i \in Items, Edit(k, i)
      PROVE  WatchTypes'
  <2>1. store = "file" /\ store' = store /\ watch' \in {watch, [watch EXCEPT ![k] = "armed"]}
      BY <1>7 DEF Edit
  <2> QED BY <2>1 DEF WatchTypes
<1>8. ASSUME NEW q \in Requests, Proceed(q) \/ OrphanVanishes(q)
      PROVE  WatchTypes'
    BY <1>8, <1>1 DEF Proceed, ConfigSaved, VersionSaved, Pruned, OrphanVanishes
<1>9. ASSUME NEW q \in Requests, NEW r \in Replicas, NEW k \in Kinds,
             \/ \E i \in Items, remove \in BOOLEAN : Change(q, r, k, i, remove)
             \/ \E n \in 1..MaxChanges : Rollback(q, r, k, n)
      PROVE  WatchTypes'
    BY <1>9, <1>1 DEF Change, Rollback
<1>10. CASE UNCHANGED vars
    BY <1>10, <1>1 DEF vars
<1> QED BY <1>2, <1>4, <1>5, <1>6, <1>7, <1>8, <1>9, <1>10 DEF Next

LEMMA FiresAlone ==
    ASSUME Types, WatchTypes, NEW r \in Replicas, NEW k \in Kinds, WatchFires(r, k)
    PROVE  store = "file" /\ InFlight(r) = {} /\ View(r) = remote
<1>1. store \in {"file", "k8s"}
    BY ConfigAssumption DEF Types, StoreTypes
<1> QED BY <1>1 DEF WatchFires, LoopFree, WatchTypes, View

LEMMA TypesNext ==
    ASSUME Types, WatchTypes, LogInv, [Next]_vars
    PROVE  Types'
<1>1. ASSUME NEW r \in Replicas, NEW k \in Kinds, WatchFires(r, k) PROVE Types'
    BY <1>1, FiresAlone, WatchFiresTypes
<1>2. ASSUME NEW r \in Replicas, ReadLog(r) \/ FlushLog(r) PROVE Types'
    BY <1>2, LogStepTypes DEF LogInv, LogTypes
<1>3. ASSUME NEW r \in Replicas, Start(r) PROVE Types'
    BY <1>3, StartTypes
<1>4. CASE UNCHANGED vars
  <2>1. /\ UNCHANGED <<store, remote, mirror, up>> /\ UNCHANGED <<cache, heap, up>>
        /\ UNCHANGED <<floor, open>> /\ req' = req /\ changes' = changes /\ store' = store
      BY <1>4 DEF vars
  <2>2. /\ changes \in Nat /\ changes' \in Nat /\ changes <= changes' /\ up \subseteq up'
        /\ StoreTypes /\ MemoryTypes /\ HistoryTypes /\ RequestTypes
      BY <2>1 DEF Types, StoreTypes
  <2> QED BY <2>1, <2>2, StoreGrows, MemoryGrows, HistoryGrows, RequestsSame DEF Types
<1>5. ASSUME NEW q \in Requests, Proceed(q) PROVE Types'
    BY <1>5, ConfigSavedTypes, VersionSavedTypes DEF Proceed
<1>6. ASSUME NEW q \in Requests, CrashInWrite(q) PROVE Types'
    BY <1>6, CrashTypes
<1>7. ASSUME NEW r \in Replicas, Crash(r) PROVE Types'
    BY <1>7, CrashTypes
<1>8. ASSUME NEW q \in Requests, Apply(q) \/ WriteFails(q) \/ OrphanVanishes(q) PROVE Types'
    BY <1>8, ApplyTypes, WriteFailsTypes, OrphanVanishesTypes
<1>9. ASSUME NEW q \in Requests, NEW r \in Replicas, NEW k \in Kinds, NEW i \in Items,
             NEW remove \in BOOLEAN, Change(q, r, k, i, remove)
      PROVE  Types'
    BY <1>9, ChangeTypes
<1>10. ASSUME NEW q \in Requests, NEW r \in Replicas, NEW k \in Kinds, NEW n \in 1..MaxChanges,
              Rollback(q, r, k, n)
       PROVE  Types'
    BY <1>10, RollbackTypes
<1>11. ASSUME NEW r \in Replicas, NEW k \in Kinds, ReadConfig(r, k) PROVE Types'
    BY <1>11, ReadConfigTypes
<1>12. ASSUME NEW k \in Kinds, NEW i \in Items, Edit(k, i) PROVE Types'
    BY <1>12, EditTypes
<1> QED BY <1>1, <1>2, <1>3, <1>4, <1>5, <1>6, <1>7, <1>8, <1>9, <1>10, <1>11, <1>12 DEF Next

\* The types, which processes and requests go by, and the log.
BaseInv == Types /\ WatchTypes /\ LogInv

LEMMA BaseInvHolds == Spec => []BaseInv
<1>1. Init => BaseInv
  <2> SUFFICES ASSUME Init PROVE BaseInv
      OBVIOUS
  <2>1. /\ watch = [k \in Kinds |-> "off"]
        /\ opLog = [r \in Replicas |-> <<>>]
        /\ acks = [r \in Replicas |-> <<>>] /\ runAcks = [r \in Replicas |-> 0]
      BY DEF Init
  <2>2. WatchTypes
      BY <2>1 DEF WatchTypes
  <2>3. LogTypes
      BY <2>1 DEF LogTypes
  <2>4. Lasting(0) = 0 /\ Len(<<>>) = 0
      BY ConfigAssumption DEF Lasting
  <2>5. \A r \in Replicas : Tells(opLog[r], runAcks[r], acks[r])
      BY <2>1, <2>4 DEF Tells
  <2> QED BY <2>2, <2>3, <2>5, InitTypes DEF BaseInv, LogInv
<1>2. BaseInv /\ [Next]_vars => BaseInv'
    BY TypesNext, WatchNext, LogInvNext DEF BaseInv
<1> QED BY <1>1, <1>2, PTL DEF Spec

\* Every variable keeps its type: whatever is written, cut off, edited, rolled back or
\* lost with a process, no document names a change that was not begun, no file but a
\* file is ever torn, and the request in a process that died is at most a PATCH.
THEOREM ConfigTypeCorrect == Spec => []Types
BY BaseInvHolds, PTL DEF BaseInv

\* The operation log a process shows begins with what it acknowledged since its start
\* (addLog, getOperationLogs, flushLogsToFile), for any number of processes, limit,
\* order of reads and flushes, and store.
THEOREM LogTellsItsRun == Spec => []LogTellsThisRun
<1>1. BaseInv => LogTellsThisRun
  <2> SUFFICES ASSUME BaseInv, NEW r \in up
               PROVE  /\ Len(ShownLog(r)) >= Lasting(runAcks[r])
                      /\ \A j \in 1..Lasting(runAcks[r]) : ShownLog(r)[j] = acks[r][j].change
      BY DEF LogTellsThisRun, Lasting
  <2>1. r \in Replicas /\ Types
      BY DEF BaseInv, Types, StoreTypes
  <2>2. /\ opLog[r] \in Seq(Nat) /\ runAcks[r] \in Nat
        /\ Tells(opLog[r], runAcks[r], acks[r])
      BY <2>1 DEF BaseInv, LogInv, LogTypes
  <2>3. Len(opLog[r]) \in Nat /\ Lasting(runAcks[r]) \in Nat
      BY <2>2, LenProperties, ConfigAssumption DEF Lasting
  <2>4. Lasting(runAcks[r]) <= Len(opLog[r])
        /\ \A j \in 1..Lasting(runAcks[r]) : opLog[r][j] = acks[r][j].change
      BY <2>2 DEF Tells
  <2>5. CASE opLog[r] # <<>>
      BY <2>3, <2>4, <2>5 DEF ShownLog
  <2>6. CASE opLog[r] = <<>>
    <3>1. Len(opLog[r]) = 0
        BY <2>6
    <3>2. Lasting(runAcks[r]) = 0
        BY <3>1, <2>3, <2>4
    <3>3. View(r).log \in Seq(Nat)
        BY <2>1, ViewTyped DEF Types, IsConfig
    <3>4. Len(View(r).log) \in Nat
        BY <3>3, LenProperties
    <3> QED BY <3>2, <3>4, <2>6 DEF ShownLog
  <2> QED BY <2>5, <2>6
<1> QED BY <1>1, BaseInvHolds, PTL

-----------------------------------------------------------------------------
\* What is in force, and what a file holds.
LEMMA ItemsDisjoint ==
    ASSUME NEW k \in Kinds, NEW l \in Kinds
    PROVE  /\ ItemsOf(k) \subseteq Items
           /\ k # l => ItemsOf(k) \cap ItemsOf(l) = {}
BY ConfigAssumption DEF ItemsOf, Kinds

\* Two processes share a store only if it is the ConfigMap, each with its own copy.
LEMMA Apart ==
    ASSUME Types, NEW p \in Replicas, NEW r \in Replicas, p # r
    PROVE  store = "k8s" /\ store # "file"
BY ConfigAssumption DEF Types, StoreTypes

LEMMA NoneLive ==
    ASSUME Types, store = "file", \A r \in up : InFlight(r) = {}, NEW q \in Requests
    PROVE  ~Live(q)
<1> SUFFICES ASSUME Live(q) PROVE FALSE
    OBVIOUS
<1>1. ~Orphan(q) /\ AtWork(req[q], up)
    BY LiveTyped
<1>2. req[q].rep \in up /\ q \in InFlight(req[q].rep)
    BY <1>1 DEF AtWork, InFlight
<1> QED BY <1>2

\* A request in a running process.
LEMMA WorkTyped ==
    ASSUME Types, NEW r \in Replicas, NEW q \in InFlight(r)
    PROVE  /\ q \in Requests /\ Live(q) /\ ~Orphan(q) /\ req[q].rep = r /\ r \in up
           /\ req[q].item = Null => req[q].stage = "config" /\ req[q].kind \in Versioned
           /\ req[q].item # Null => /\ req[q].obj \in Objects /\ req[q].obj # Null
                                    /\ req[q].item \in ItemsOf(req[q].kind)
           /\ req[q].kind \in Kinds /\ req[q].write = req[q].stage
           /\ req[q].change \in 0..changes /\ req[q].value \in DocsTo(changes)
<1>1. q \in Requests /\ Live(q) /\ ~Orphan(q) /\ req[q].rep = r
    BY DEF InFlight
<1>2. /\ AtWork(req[q], up) /\ req[q].kind \in Kinds /\ req[q].change \in 0..changes
      /\ req[q].value \in DocsTo(changes)
    BY <1>1, LiveTyped
<1> QED BY <1>1, <1>2, ConfigAssumption DEF AtWork

\* A step that leaves a process alone.
LEMMA SoundSame ==
    ASSUME Types, NEW p \in Replicas, Sound(p), cache'[p] = cache[p], heap'[p] = heap[p],
           floor'[p] = floor[p], open[p] \subseteq open'[p], InFlight(p)' \subseteq InFlight(p),
           \A q \in InFlight(p)' : /\ req'[q].item = req[q].item /\ req'[q].kind = req[q].kind
                                   /\ req'[q].obj = req[q].obj /\ req'[q].change = req[q].change,
           p \in up' => p \in up,
           \A k \in Kinds : cache[p][k] = Null =>
               \/ View(p)'.config[k] = View(p).config[k]
               \/ View(p)'.config[k] = Torn
    PROVE  Sound(p)'
<1>1. Distinct(cache'[p])
    BY DEF Sound
<1>2. ASSUME NEW q \in InFlight(p)'
      PROVE  /\ InObject(req'[q], cache'[p], heap'[p], floor'[p])
             /\ req'[q].item = Null => InFlight(p)' = {q}
  <2>1. InObject(req[q], cache[p], heap[p], floor[p]) /\ (req[q].item = Null => InFlight(p) = {q})
      BY <1>2 DEF Sound
  <2> QED BY <2>1, <1>2 DEF InObject
<1>3. ASSUME p \in up', NEW k \in Kinds
      PROVE  Holds(InForce(p, k)', k, floor'[p], open'[p])
  <2>1. Holds(InForce(p, k), k, floor[p], open[p])
      BY <1>3 DEF Sound
  <2>2. InForce(p, k)' = InForce(p, k) \/ InForce(p, k)' = Torn
      BY <1>3, ConfigAssumption DEF InForce, Stored
  <2> QED BY <2>1, <2>2 DEF Holds
<1> QED BY <1>1, <1>2, <1>3 DEF Sound

\* What an answer does to what a document holds.
LEMMA HoldsAfterChange ==
    ASSUME NEW n \in Nat, NEW doc, doc # Torn => doc \in DocsTo(n), NEW k \in Kinds,
           NEW f \in DocsTo(n), NEW o, Holds(doc, k, f, o), NEW i \in Items, NEW c \in 0..n,
           doc # Torn /\ i \in ItemsOf(k) => c <= doc[i] /\ f[i] <= doc[i],
           NEW g, g = [f EXCEPT ![i] = IF c > f[i] THEN c ELSE f[i]],
           NEW s, s = {e \in o : e[1] # i \/ e[2] > c}
    PROVE  Holds(doc, k, g, s)
<1> SUFFICES ASSUME doc # Torn, NEW j \in ItemsOf(k)
             PROVE  doc[j] = g[j] \/ <<j, doc[j]>> \in s
    BY DEF Holds
<1>1. doc[j] = f[j] \/ <<j, doc[j]>> \in o
    BY ItemsDisjoint DEF Holds
<1>2. j \in Items
    BY ItemsDisjoint
<1>3. CASE j # i
    BY <1>1, <1>2, <1>3 DEF DocsTo
<1>4. CASE j = i
  <2>1. c <= doc[i] /\ f[i] <= doc[i] /\ c \in Nat /\ doc[i] \in Nat /\ f[i] \in Nat
      BY <1>4 DEF DocsTo
  <2>2. g[i] = IF c > f[i] THEN c ELSE f[i]
      BY DEF DocsTo
  <2>3. CASE doc[i] > c
      BY <2>1, <2>2, <2>3, <1>1, <1>4
  <2>4. CASE ~(doc[i] > c)
      BY <2>1, <2>2, <2>4, <1>4
  <2> QED BY <2>3, <2>4
<1> QED BY <1>3, <1>4

LEMMA HoldsAfterRollback ==
    ASSUME NEW doc, NEW k \in Kinds, NEW l \in Kinds, NEW f, NEW o, NEW v,
           k = l => doc = v,
           k # l => Holds(doc, k, f, o),
           NEW g, g = [i \in Items |-> IF i \in ItemsOf(l) THEN v[i] ELSE f[i]],
           NEW s, s = {e \in o : e[1] \notin ItemsOf(l)} \/ s = o \ {<<i, v[i]>> : i \in ItemsOf(l)}
    PROVE  Holds(doc, k, g, s)
<1> SUFFICES ASSUME doc # Torn, NEW j \in ItemsOf(k)
             PROVE  doc[j] = g[j] \/ <<j, doc[j]>> \in s
    BY DEF Holds
<1>1. j \in Items /\ (k # l => j \notin ItemsOf(l))
    BY ItemsDisjoint
<1>2. CASE k = l
    BY <1>1, <1>2
<1>3. CASE k # l
  <2>1. doc[j] = f[j] \/ <<j, doc[j]>> \in o
      BY <1>3 DEF Holds
  <2>2. g[j] = f[j] /\ (<<j, doc[j]>> \in o => <<j, doc[j]>> \in s)
      BY <1>1, <1>3
  <2> QED BY <2>1, <2>2
<1> QED BY <1>2, <1>3

AfterChange(w, f, o, g, s) ==
    /\ g = [f EXCEPT ![w.item] = IF w.change > f[w.item] THEN w.change ELSE f[w.item]]
    /\ s = {e \in o : e[1] # w.item \/ e[2] > w.change}

AfterRollback(w, f, o, g, s) ==
    /\ g = [i \in Items |-> IF i \in ItemsOf(w.kind) THEN w.value[i] ELSE f[i]]
    /\ s = o \ {<<i, w.value[i]>> : i \in ItemsOf(w.kind)}

LEMMA AcknowledgeStep ==
    ASSUME Types, NEW q \in Requests, Live(q), Acknowledge(q), NEW r \in Replicas, req[q].rep = r
    PROVE  /\ req' = [req EXCEPT ![q] = Idle] /\ InFlight(r)' = InFlight(r) \ {q}
           /\ req[q].item # Null => AfterChange(req[q], floor[r], open[r], floor'[r], open'[r])
           /\ req[q].item = Null => AfterRollback(req[q], floor[r], open[r], floor'[r], open'[r])
           /\ \A p \in Replicas \ {r} : /\ floor'[p] = floor[p] /\ open'[p] = open[p]
                                        /\ InFlight(p)' = InFlight(p)
<1>0. PICK w : w = req[q]
    OBVIOUS
<1>1. r \in Replicas /\ w.item \in Items \cup {Null} /\ r = w.rep
    BY <1>0, LiveTyped
<1>2. HistoryTypes /\ RequestTypes
    BY DEF Types
<1>3. /\ req' = [req EXCEPT ![q] = Idle]
      /\ IF w.item = Null
         THEN /\ floor' = [floor EXCEPT ![r] =
                   [i \in Items |-> IF i \in ItemsOf(w.kind) THEN w.value[i] ELSE floor[r][i]]]
              /\ open' = [open EXCEPT ![r] = @ \ {<<i, w.value[i]>> : i \in ItemsOf(w.kind)}]
         ELSE /\ floor' = [floor EXCEPT ![r][w.item] = IF w.change > @ THEN w.change ELSE @]
              /\ open' = [open EXCEPT ![r] =
                            {e \in @ : e[1] # w.item \/ e[2] > w.change}]
    BY <1>0, <1>1 DEF Acknowledge
<1>4. \A p \in Requests : req'[p] = IF p = q THEN Idle ELSE req[p]
    BY <1>2, <1>3 DEF RequestTypes
<1>5. \A p \in Replicas : InFlight(p)' = InFlight(p) \ {q}
    BY <1>4 DEF InFlight, Live, Orphan, Idle
<1>6. \A p \in Replicas \ {r} : q \notin InFlight(p)
    BY <1>0, <1>1 DEF InFlight
<1>7. \A p \in Replicas \ {r} : InFlight(p)' = InFlight(p)
    BY <1>5, <1>6
<1>8. CASE w.item = Null
  <2>1. PICK d : d = [i \in Items |-> IF i \in ItemsOf(w.kind) THEN w.value[i] ELSE floor[r][i]]
      OBVIOUS
  <2>2. PICK s : s = open[r] \ {<<i, w.value[i]>> : i \in ItemsOf(w.kind)}
      OBVIOUS
  <2>3. floor' = [floor EXCEPT ![r] = d] /\ open' = [open EXCEPT ![r] = s]
      BY <2>1, <2>2, <1>3, <1>8
  <2>4. /\ floor'[r] = d /\ open'[r] = s
        /\ \A p \in Replicas \ {r} : floor'[p] = floor[p] /\ open'[p] = open[p]
      BY <2>3, <1>1, <1>2 DEF HistoryTypes
  <2>5. AfterRollback(w, floor[r], open[r], floor'[r], open'[r])
      BY <2>1, <2>2, <2>4 DEF AfterRollback
  <2> QED BY <2>4, <2>5, <1>0, <1>3, <1>5, <1>7, <1>8
<1>9. CASE w.item # Null
  <2>1. PICK d : d = [floor[r] EXCEPT ![w.item] =
                        IF w.change > floor[r][w.item] THEN w.change ELSE floor[r][w.item]]
      OBVIOUS
  <2>2. PICK s : s = {e \in open[r] : e[1] # w.item \/ e[2] > w.change}
      OBVIOUS
  <2>3. floor' = [floor EXCEPT ![r][w.item] = IF w.change > @ THEN w.change ELSE @]
        /\ open' = [open EXCEPT ![r] = s]
      BY <2>2, <1>3, <1>9
  <2>4. /\ floor'[r] = d /\ open'[r] = s
        /\ \A p \in Replicas \ {r} : floor'[p] = floor[p] /\ open'[p] = open[p]
      BY <2>1, <2>3, <1>1, <1>2 DEF HistoryTypes
  <2>5. AfterChange(w, floor[r], open[r], floor'[r], open'[r])
      BY <2>1, <2>2, <2>4 DEF AfterChange
  <2> QED BY <2>4, <2>5, <1>0, <1>3, <1>5, <1>7, <1>9
<1> QED BY <1>8, <1>9

\* An answer to a change keeps what a document holds that has the change or a later one.
LEMMA AcknowledgeHolds ==
    ASSUME Types, NEW q \in Requests, Live(q), ~Orphan(q), Acknowledge(q), req[q].item # Null,
           NEW r \in Replicas, r = req[q].rep, NEW k \in Kinds, NEW doc,
           doc # Torn => doc \in DocsTo(changes),
           Holds(doc, k, floor[r], open[r]),
           doc # Torn /\ k = req[q].kind => /\ req[q].change <= doc[req[q].item]
                                           /\ floor[r][req[q].item] <= doc[req[q].item]
    PROVE  Holds(doc, k, floor'[r], open'[r])
<1>1. PICK w : w = req[q]
    OBVIOUS
<1>2. PICK i : i = w.item
    OBVIOUS
<1>3. /\ floor'[r] = [floor[r] EXCEPT ![i] = IF w.change > floor[r][i] THEN w.change ELSE floor[r][i]]
      /\ open'[r] = {e \in open[r] : e[1] # i \/ e[2] > w.change}
  <2>1. AfterChange(w, floor[r], open[r], floor'[r], open'[r])
      BY <1>1, AcknowledgeStep
  <2> QED BY <2>1, <1>2 DEF AfterChange
<1>4. /\ i \in Items /\ w.change \in 0..changes /\ changes \in Nat /\ w.kind \in Kinds
      /\ AtWork(w, up) /\ i # Null
    BY <1>1, <1>2, LiveTyped
<1>5. i \in ItemsOf(w.kind)
    BY <1>2, <1>4 DEF AtWork
<1>6. i \in ItemsOf(k) => k = w.kind
    BY <1>4, <1>5, ItemsDisjoint
<1>7. floor[r] \in DocsTo(changes)
    BY DEF Types, HistoryTypes
<1>8. doc # Torn /\ i \in ItemsOf(k) => w.change <= doc[i] /\ floor[r][i] <= doc[i]
    BY <1>1, <1>2, <1>6
<1> QED BY <1>3, <1>4, <1>7, <1>8, HoldsAfterChange

LEMMA AcknowledgeSound ==
    ASSUME Types, NEW q \in Requests, Live(q), ~Orphan(q), Acknowledge(q), req[q].item # Null,
           NEW r \in Replicas, r = req[q].rep, Sound(r),
           cache'[r] = cache[r], UNCHANGED <<heap, up, changes>>,
           \A k \in Kinds : cache[r][k] = Null => View(r)'.config[k] = View(r).config[k]
    PROVE  Sound(r)'
<1>1. PICK w : w = req[q]
    OBVIOUS
<1>2. /\ req' = [req EXCEPT ![q] = Idle] /\ InFlight(r)' = InFlight(r) \ {q}
      /\ floor'[r] = [floor[r] EXCEPT ![w.item] =
                        IF w.change > floor[r][w.item] THEN w.change ELSE floor[r][w.item]]
  <2>1. AfterChange(w, floor[r], open[r], floor'[r], open'[r])
      BY <1>1, AcknowledgeStep
  <2> QED BY <2>1, AcknowledgeStep DEF AfterChange
<1>3. q \in InFlight(r)
    BY DEF InFlight
<1>4. /\ w.item \in ItemsOf(w.kind) /\ w.kind \in Kinds /\ w.obj # Null /\ w.obj \in Objects
      /\ r \in up /\ w.change \in 0..changes /\ w.item \in Items /\ changes \in Nat
    BY <1>1, <1>3, WorkTyped, ItemsDisjoint DEF Types, StoreTypes
<1>5. /\ cache[r][w.kind] = w.obj
      /\ w.change <= heap[r][w.obj][w.item] /\ floor[r][w.item] <= heap[r][w.obj][w.item]
    BY <1>1, <1>3 DEF Sound, InObject
<1>6. Distinct(cache'[r])
    BY DEF Sound
<1>7. ASSUME NEW x \in InFlight(r)'
      PROVE  /\ InObject(req'[x], cache'[r], heap'[r], floor'[r])
             /\ req'[x].item = Null => InFlight(r)' = {x}
  <2>1. x \in InFlight(r) /\ x # q /\ x \in Requests
      BY <1>7, <1>2 DEF InFlight
  <2>2. req'[x] = req[x]
      BY <2>1, <1>2 DEF Types, RequestTypes
  <2>3. PICK y : y = req[x]
      OBVIOUS
  <2>4. InObject(y, cache[r], heap[r], floor[r]) /\ (y.item = Null => InFlight(r) = {x})
      BY <2>1, <2>3 DEF Sound
  <2>5. y.item # Null
      BY <2>1, <2>4, <1>3
  <2>6. y.item \in ItemsOf(y.kind) /\ y.kind \in Kinds
      BY <2>1, <2>3, <2>5, WorkTyped
  <2>7. CASE y.item = w.item
    <3>1. y.kind = w.kind
        BY <2>6, <2>7, <1>4, ItemsDisjoint
    <3>2. y.obj = w.obj
        BY <2>4, <2>5, <3>1, <1>5 DEF InObject
    <3>3. floor[r] \in DocsTo(changes)
        BY DEF Types, HistoryTypes
    <3>4. floor'[r][w.item] \in {w.change, floor[r][w.item]}
        BY <3>3, <1>2, <1>4 DEF DocsTo
    <3>5. floor'[r][w.item] <= heap[r][w.obj][w.item]
        BY <3>4, <1>5
    <3> QED BY <2>2, <2>3, <2>4, <2>5, <2>7, <3>2, <3>5 DEF InObject
  <2>8. CASE y.item # w.item
    <3>1. floor'[r][y.item] = floor[r][y.item]
      <4>1. y.item \in Items
          BY <2>6, ItemsDisjoint
      <4> QED BY <4>1, <2>8, <1>2 DEF Types, HistoryTypes, DocsTo
    <3> QED BY <2>2, <2>3, <2>4, <2>5, <3>1 DEF InObject
  <2> QED BY <2>7, <2>8
<1>8. ASSUME NEW k \in Kinds
      PROVE  Holds(InForce(r, k)', k, floor'[r], open'[r])
  <2>1. InForce(r, k)' = InForce(r, k)
      BY DEF InForce, Stored
  <2>2. Holds(InForce(r, k), k, floor[r], open[r])
      BY <1>4 DEF Sound
  <2>3. k = w.kind => InForce(r, k) = heap[r][w.obj]
      BY <1>4, <1>5 DEF InForce
  <2>4. InForce(r, k) # Torn => InForce(r, k) \in DocsTo(changes)
      BY <1>4, InForceTyped DEF Types
  <2>5. Holds(InForce(r, k), k, floor'[r], open'[r])
      BY <2>2, <2>3, <2>4, <1>1, <1>5, AcknowledgeHolds
  <2> QED BY <2>1, <2>5
<1> QED BY <1>6, <1>7, <1>8 DEF Sound

-----------------------------------------------------------------------------
\* Every step keeps what is explained.
LEMMA ChangeExplained ==
    ASSUME Types, Explained, NEW q \in Requests, NEW r \in Replicas, NEW k \in Kinds,
           NEW i \in Items, NEW remove \in BOOLEAN, Change(q, r, k, i, remove)
    PROVE  Explained'
<1>1. PICK o : o = ObjectOf(r, k)
    OBVIOUS
<1>2. PICK doc : doc = [InForce(r, k) EXCEPT ![i] = changes + 1]
    OBVIOUS
<1>3. PICK w : w = [stage |-> "config", write |-> "config", io |-> "sent", rep |-> r,
                    kind |-> k, item |-> i, change |-> changes + 1, obj |-> o,
                    value |-> doc, version |-> 0, prune |-> <<>>]
    OBVIOUS
<1>4. /\ r \in up /\ ~Live(q) /\ LoopFree(r) /\ InForce(r, k) # Torn /\ i \in ItemsOf(k)
      /\ cache' = [cache EXCEPT ![r][k] = o]
      /\ heap' = [heap EXCEPT ![r][o] = doc]
      /\ req' = [req EXCEPT ![q] = w]
      /\ open' = [open EXCEPT ![r] = @ \cup {<<i, changes + 1>>}]
      /\ raced' = raced \cup {p \in {r} : \E x \in InFlight(p) : req[x].item = Null}
      /\ UNCHANGED <<store, remote, mirror, up, floor>>
    BY <1>1, <1>2, <1>3 DEF Change, Begin, Readable, Filled
<1>5. /\ changes \in Nat /\ StoreTypes /\ MemoryTypes /\ HistoryTypes
      /\ req = [p \in Requests |-> req[p]]
    BY DEF Types, StoreTypes, RequestTypes
<1>6. IF cache[r][k] = Null THEN IsFree(o, r) ELSE o = cache[r][k]
    BY <1>1, <1>5, FreeObjectIsFree DEF ObjectOf
<1>7. o \in Objects /\ o # Null
    BY <1>5, <1>6, ConfigAssumption DEF IsFree, MemoryTypes
<1>8. InForce(r, k) \in DocsTo(changes)
    BY <1>4, <1>5, InForceTyped
<1>9. /\ doc[i] = changes + 1
      /\ \A j \in Items \ {i} : doc[j] = InForce(r, k)[j]
      /\ \A j \in Items : InForce(r, k)[j] <= doc[j]
    BY <1>2, <1>5, <1>8 DEF DocsTo
<1>10. /\ InFlight(r)' = InFlight(r) \cup {q} /\ q \notin InFlight(r)
       /\ req'[q] = w /\ \A x \in Requests \ {q} : req'[x] = req[x]
  <2>1. req'[q] = w /\ \A x \in Requests \ {q} : req'[x] = req[x]
      BY <1>4, <1>5
  <2>2. w.stage = "config" /\ w.rep = r
      BY <1>3
  <2> QED BY <2>1, <2>2, <1>4 DEF InFlight, Live, Orphan
<1>11. ASSUME NEW p \in Replicas \ raced', p # r
       PROVE  Sound(p)'
  <2>1. Sound(p) /\ p \in Replicas
      BY <1>11, <1>4 DEF Explained
  <2>2. cache'[p] = cache[p] /\ heap'[p] = heap[p] /\ open'[p] = open[p] /\ floor'[p] = floor[p]
      BY <1>4, <1>5, <1>11 DEF MemoryTypes, HistoryTypes
  <2>3. InFlight(p)' = InFlight(p)
      BY <1>3, <1>4, <1>10, <1>11 DEF InFlight, Live, Orphan
  <2>4. q \notin InFlight(p)
      BY <1>4 DEF InFlight
  <2>5. View(p)' = View(p) /\ up' = up
      BY <1>4 DEF View
  <2>6. \A x \in InFlight(p)' : x \in Requests
      BY DEF InFlight
  <2> QED BY <2>1, <2>2, <2>3, <2>4, <2>5, <2>6, <1>10, SoundSame
<1>12. ASSUME r \notin raced' PROVE Sound(r)'
  <2>1. Sound(r) /\ \A x \in InFlight(r) : req[x].item # Null
      BY <1>12, <1>4 DEF Explained
  <2>2. /\ cache'[r] = [cache[r] EXCEPT ![k] = o] /\ heap'[r] = [heap[r] EXCEPT ![o] = doc]
        /\ open'[r] = open[r] \cup {<<i, changes + 1>>} /\ floor'[r] = floor[r]
      BY <1>4, <1>5 DEF MemoryTypes, HistoryTypes
  <2>3. /\ cache'[r][k] = o /\ heap'[r][o] = doc
        /\ \A l \in Kinds \ {k} : cache'[r][l] = cache[r][l]
        /\ \A x \in Objects \ {o} : heap'[r][x] = heap[r][x]
      BY <2>2, <1>5, <1>7 DEF MemoryTypes
  <2>4. \A l \in Kinds \ {k} : cache[r][l] # o
      BY <2>1, <1>6, <1>7 DEF Sound, Distinct, IsFree, Kinds
  <2>5. Distinct(cache'[r])
      BY <2>1, <2>3, <2>4 DEF Sound, Distinct, Kinds
  <2>6. InObject(w, cache'[r], heap'[r], floor'[r])
    <3>1. w.item = i /\ w.kind = k /\ w.obj = o /\ w.change = changes + 1
        BY <1>3
    <3>2. floor[r][i] \in 0..changes
        BY <1>5 DEF HistoryTypes, DocsTo
    <3>3. floor[r][i] <= changes + 1
        BY <3>2, <1>5
    <3> QED BY <3>1, <3>3, <2>2, <2>3, <1>5, <1>9 DEF InObject
  <2>7. i # Null
      BY ConfigAssumption
  <2>8. ASSUME NEW x \in InFlight(r) PROVE InObject(req[x], cache'[r], heap'[r], floor'[r])
    <3>1. PICK y : y = req[x]
        OBVIOUS
    <3>2. /\ y.item # Null /\ y.obj \in Objects /\ y.obj # Null /\ y.kind \in Kinds
          /\ y.item \in Items
        BY <3>1, <2>1, WorkTyped, ItemsDisjoint
    <3>3. /\ cache[r][y.kind] = y.obj /\ y.change <= heap[r][y.obj][y.item]
          /\ floor[r][y.item] <= heap[r][y.obj][y.item]
        BY <3>1, <3>2, <2>1 DEF Sound, InObject
    <3>4. CASE y.kind = k
      <4>1. o = y.obj /\ InForce(r, k) = heap[r][o]
          BY <3>2, <3>3, <3>4, <1>6 DEF InForce
      <4>2. /\ InForce(r, k)[y.item] <= doc[y.item]
          BY <1>9, <3>2
      <4>3. /\ y.change \in Int /\ floor[r][y.item] \in Int /\ doc[y.item] \in Int
            /\ InForce(r, k)[y.item] \in Int
        <5>1. y.change \in 0..changes
            BY <3>1, WorkTyped
        <5>2. floor[r][y.item] \in 0..changes /\ InForce(r, k)[y.item] \in 0..changes
            BY <3>2, <1>5, <1>8 DEF HistoryTypes, DocsTo
        <5>3. doc[y.item] \in {changes + 1, InForce(r, k)[y.item]}
            BY <3>2, <1>9
        <5> QED BY <5>1, <5>2, <5>3, <1>5
      <4>4. y.change <= doc[y.item] /\ floor[r][y.item] <= doc[y.item]
          BY <4>1, <4>2, <4>3, <3>3
      <4> QED BY <4>1, <4>4, <3>1, <3>4, <2>2, <2>3 DEF InObject
    <3>5. CASE y.kind # k
      <4>1. y.obj # o
          BY <3>2, <3>3, <3>5, <2>4
      <4> QED BY <4>1, <3>1, <3>2, <3>3, <3>5, <2>2, <2>3 DEF InObject
    <3> QED BY <3>4, <3>5
  <2>9. ASSUME NEW x \in InFlight(r)'
        PROVE  /\ InObject(req'[x], cache'[r], heap'[r], floor'[r])
               /\ req'[x].item = Null => InFlight(r)' = {x}
    <3>1. CASE x = q
        BY <3>1, <2>6, <2>7, <1>3, <1>10
    <3>2. CASE x # q
      <4>1. x \in InFlight(r) /\ req'[x] = req[x]
          BY <3>2, <2>9, <1>10 DEF InFlight
      <4> QED BY <4>1, <2>1, <2>8
    <3> QED BY <3>1, <3>2
  <2>10. ASSUME NEW l \in Kinds
         PROVE  Holds(InForce(r, l)', l, floor'[r], open'[r])
    <3>1. Holds(InForce(r, l), l, floor[r], open[r])
        BY <2>1, <1>4 DEF Sound
    <3>2. CASE l = k
      <4>1. InForce(r, l)' = doc
          BY <3>2, <2>3, <1>7 DEF InForce
      <4>2. ASSUME NEW j \in ItemsOf(k) PROVE doc[j] = floor[r][j] \/ <<j, doc[j]>> \in open'[r]
        <5>1. j \in Items
            BY ItemsDisjoint
        <5>2. CASE j = i
            BY <5>2, <2>2, <1>9
        <5>3. CASE j # i
            BY <5>1, <5>3, <3>1, <3>2, <2>2, <1>4, <1>9 DEF Holds
        <5> QED BY <5>2, <5>3
      <4> QED BY <4>1, <4>2, <3>2, <2>2 DEF Holds
    <3>3. CASE l # k
      <4>1. cache'[r][l] = cache[r][l] /\ cache[r][l] # o
          BY <3>3, <2>3, <2>4
      <4>2. cache[r][l] # Null => cache[r][l] \in Objects
          BY <1>5 DEF MemoryTypes
      <4>3. Stored(r, l)' = Stored(r, l)
          BY <1>4 DEF Stored, View
      <4>4. InForce(r, l)' = InForce(r, l)
          BY <4>1, <4>2, <4>3, <2>3 DEF InForce
      <4> QED BY <4>4, <3>1, <2>2 DEF Holds
    <3> QED BY <3>2, <3>3
  <2> QED BY <2>5, <2>9, <2>10 DEF Sound
<1>13. ASSUME store = "file" PROVE FileSound'
  <2>1. FileSound /\ InFlight(r) = {} /\ \A p \in Replicas : p = r
      BY <1>13, <1>4, ConfigAssumption DEF Explained, LoopFree, Types, StoreTypes
  <2>2. \A p \in Requests : ~Live(p)
    <3>1. \A p \in up : InFlight(p) = {}
        BY <2>1 DEF Types, StoreTypes
    <3> QED BY <3>1, <1>13, NoneLive
  <2>3. raced' = {}
      BY <2>1, <1>4 DEF FileSound
  <2>4. \A p \in Requests : Live(p)' => p = q
      BY <2>2, <1>10 DEF Live
  <2>5. heap'[r][o] = doc
      BY <1>4, <1>5, <1>7 DEF MemoryTypes
  <2>6. InFile(w, remote', heap'[r], open'[r])
      BY <2>5, <1>3, ConfigAssumption DEF InFile
  <2>7. \A p \in Requests : Live(p)' => InFile(req'[p], remote', heap'[req'[p].rep], open'[req'[p].rep])
      BY <2>4, <2>6, <1>3, <1>10
  <2>8. ASSUME NEW p \in Replicas, NEW l \in Kinds
        PROVE  Holds(InStore(remote', l), l, floor'[p], open'[p])
    <3>1. Holds(InStore(remote, l), l, floor[p], open[p])
        BY <2>1 DEF FileSound
    <3>2. floor'[p] = floor[p] /\ open[p] \subseteq open'[p] /\ remote' = remote
        BY <1>4, <1>5 DEF HistoryTypes
    <3> QED BY <3>1, <3>2 DEF Holds
  <2> QED BY <2>3, <2>4, <2>7, <2>8 DEF FileSound
<1> QED BY <1>4, <1>11, <1>12, <1>13 DEF Explained

LEMMA RollbackExplained ==
    ASSUME Types, Explained, NEW q \in Requests, NEW r \in Replicas, NEW k \in Kinds, NEW n,
           Rollback(q, r, k, n)
    PROVE  Explained'
<1>1. PICK doc : doc = View(r).versions[n]
    OBVIOUS
<1>2. PICK w : w = [stage |-> "config", write |-> "config", io |-> "sent", rep |-> r,
                    kind |-> k, item |-> Null, change |-> changes + 1, obj |-> Null,
                    value |-> doc, version |-> n, prune |-> <<>>]
    OBVIOUS
<1>3. /\ r \in up /\ ~Live(q) /\ LoopFree(r)
      /\ req' = [req EXCEPT ![q] = w]
      /\ open' = [open EXCEPT ![r] = @ \cup {<<i, doc[i]>> : i \in ItemsOf(k)}]
      /\ raced' = raced \cup {p \in {r} : InFlight(p) # {}}
      /\ UNCHANGED <<store, remote, mirror, up, cache, heap, floor>>
    BY <1>1, <1>2 DEF Rollback, memory
<1>4. HistoryTypes /\ req = [p \in Requests |-> req[p]] /\ up \subseteq Replicas
    BY DEF Types, StoreTypes, RequestTypes
<1>5. /\ open'[r] = open[r] \cup {<<i, doc[i]>> : i \in ItemsOf(k)}
      /\ \A p \in Replicas : open[p] \subseteq open'[p]
      /\ floor' = floor /\ cache' = cache /\ heap' = heap
    BY <1>3, <1>4 DEF HistoryTypes
<1>6. req'[q] = w /\ \A x \in Requests \ {q} : req'[x] = req[x]
    BY <1>3, <1>4
<1>7. /\ InFlight(r)' = InFlight(r) \cup {q}
      /\ \A p \in Replicas \ {r} : InFlight(p)' = InFlight(p) /\ q \notin InFlight(p)
  <2>1. w.stage = "config" /\ w.rep = r
      BY <1>2
  <2> QED BY <2>1, <1>3, <1>6 DEF InFlight, Live, Orphan
<1>8. \A p \in Replicas : View(p)' = View(p)
    BY <1>3 DEF View
<1>9. ASSUME NEW p \in Replicas \ raced', p # r
      PROVE  Sound(p)'
  <2>1. Sound(p) /\ p \in Replicas
      BY <1>9, <1>3 DEF Explained
  <2>2. \A x \in InFlight(p)' : x \in Requests \ {q}
      BY <1>7, <1>9 DEF InFlight
  <2> QED BY <2>1, <2>2, <1>3, <1>5, <1>6, <1>7, <1>8, <1>9, SoundSame
<1>10. ASSUME r \notin raced' PROVE Sound(r)'
  <2>1. Sound(r) /\ InFlight(r) = {}
      BY <1>10, <1>3 DEF Explained
  <2>2. InFlight(r)' = {q}
      BY <2>1, <1>7
  <2>3. w.item = Null
      BY <1>2
  <2>4. ASSUME NEW l \in Kinds PROVE Holds(InForce(r, l)', l, floor'[r], open'[r])
    <3>1. Holds(InForce(r, l), l, floor[r], open[r])
        BY <2>1, <1>3 DEF Sound
    <3>2. InForce(r, l)' = InForce(r, l)
        BY <1>5, <1>8 DEF InForce, Stored
    <3> QED BY <3>1, <3>2, <1>5 DEF Holds
  <2>5. \A x \in InFlight(r)' : InObject(req'[x], cache'[r], heap'[r], floor'[r])
      BY <2>2, <2>3, <1>6 DEF InObject
  <2> QED BY <2>1, <2>2, <2>4, <2>5, <1>5 DEF Sound
<1>11. ASSUME store = "file" PROVE FileSound'
  <2>1. FileSound /\ InFlight(r) = {} /\ \A p \in Replicas : p = r
      BY <1>11, <1>3, ConfigAssumption DEF Explained, LoopFree, Types, StoreTypes
  <2>2. \A p \in Requests : ~Live(p)
    <3>1. \A p \in up : InFlight(p) = {}
        BY <2>1, <1>4
    <3> QED BY <3>1, <1>11, NoneLive
  <2>3. raced' = {}
      BY <2>1, <1>3 DEF FileSound
  <2>4. \A p \in Requests : Live(p)' => p = q
      BY <2>2, <1>6 DEF Live
  <2>5. InFile(w, remote', heap'[r], open'[r])
    <3>1. w.item = Null /\ w.kind = k /\ w.value = doc /\ w.io = "sent"
        BY <1>2
    <3> QED BY <3>1, <1>5 DEF InFile
  <2>6. \A p \in Requests : Live(p)' => InFile(req'[p], remote', heap'[req'[p].rep], open'[req'[p].rep])
      BY <2>4, <2>5, <1>2, <1>6
  <2>7. ASSUME NEW p \in Replicas, NEW l \in Kinds
        PROVE  Holds(InStore(remote', l), l, floor'[p], open'[p])
    <3>1. Holds(InStore(remote, l), l, floor[p], open[p])
        BY <2>1 DEF FileSound
    <3> QED BY <3>1, <1>3, <1>5 DEF Holds
  <2> QED BY <2>3, <2>4, <2>6, <2>7 DEF FileSound
<1> QED BY <1>3, <1>9, <1>10, <1>11 DEF Explained

\* What an applied write makes of the configuration.
OneConfigSet(T, S, w, v) ==
    /\ w.write = "config" => /\ T.config[w.kind] = v
                             /\ \A l \in Kinds \ {w.kind} : T.config[l] = S.config[l]
    /\ w.write # "config" => T.config = S.config

LEMMA WrittenConfig ==
    ASSUME NEW n, NEW S, IsConfig(S, n), NEW w, NEW v,
           w.write \in {"config", "version", "prune"}, w.kind \in Kinds
    PROVE  OneConfigSet(Written(S, w, v), S, w, v)
<1>1. CASE w.write = "config"
  <2>1. Written(S, w, v) = [S EXCEPT !.config[w.kind] = v]
      BY <1>1 DEF Written
  <2>2. Written(S, w, v).config = [S.config EXCEPT ![w.kind] = v]
      BY <2>1 DEF IsConfig
  <2> QED BY <2>2, <1>1 DEF IsConfig, OneConfigSet
<1>2. CASE w.write = "version"
  <2>1. Written(S, w, v) = [S EXCEPT !.versions = Put(S.versions, w.version, v)]
      BY <1>2 DEF Written
  <2> QED BY <2>1, <1>2 DEF IsConfig, OneConfigSet
<1>3. CASE w.write = "prune"
  <2>1. Written(S, w, v) = [S EXCEPT !.versions = Drop(S.versions, w.prune[1])]
      BY <1>3 DEF Written
  <2> QED BY <2>1, <1>3 DEF IsConfig, OneConfigSet
<1> QED BY <1>1, <1>2, <1>3

LEMMA ApplyExplained ==
    ASSUME Types, Explained, NEW q \in Requests, Apply(q)
    PROVE  Explained'
<1>1. PICK w : w = req[q]
    OBVIOUS
<1>2. /\ Live(q) /\ w.io = "sent"
      /\ remote' = Written(remote, w, w.value)
      /\ req' = [req EXCEPT ![q] = IF Orphan(q) THEN Idle ELSE [w EXCEPT !.io = "applied"]]
      /\ UNCHANGED <<store, mirror, up, cache, heap, floor, open, raced>>
    BY <1>1 DEF Apply, memory, clock, history
<1>3. /\ IsFlight(w, changes) /\ (~Orphan(q) => AtWork(w, up))
      /\ (store = "file" => ~Orphan(q))
      /\ w.kind \in Kinds /\ w.write \in {"config", "version", "prune"}
      /\ w.value \in DocsTo(changes) /\ w.rep \in Replicas /\ changes \in Nat
    BY <1>1, <1>2, LiveTyped
<1>4. PICK x : x = IF Orphan(q) THEN Idle ELSE [w EXCEPT !.io = "applied"]
    OBVIOUS
<1>5. req'[q] = x /\ \A p \in Requests \ {q} : req'[p] = req[p]
    BY <1>2, <1>4 DEF Types, RequestTypes
<1>6. ~Orphan(q) => /\ x.item = w.item /\ x.kind = w.kind /\ x.obj = w.obj /\ x.change = w.change
                    /\ x.stage = w.stage /\ x.rep = w.rep /\ x.value = w.value /\ x.io = "applied"
    BY <1>3, <1>4 DEF IsFlight
<1>7. \A p \in Replicas : InFlight(p)' = InFlight(p) /\ (q \in InFlight(p) => ~Orphan(q))
  <2>1. Orphan(q) => x.stage = "idle" /\ w.stage = "orphan"
      BY <1>1, <1>4 DEF Orphan, Idle
  <2> QED BY <2>1, <1>1, <1>5, <1>6 DEF InFlight, Live, Orphan
<1>8. IsConfig(remote, changes)
    BY DEF Types, StoreTypes
<1>9. ASSUME NEW p \in Replicas \ raced', store # "file"
      PROVE  Sound(p)'
  <2>1. Sound(p) /\ p \in Replicas
      BY <1>2, <1>9 DEF Explained
  <2>2. View(p)' = View(p)
      BY <1>2, <1>9 DEF View
  <2>3. \A y \in InFlight(p)' : /\ req'[y].item = req[y].item /\ req'[y].kind = req[y].kind
                                /\ req'[y].obj = req[y].obj /\ req'[y].change = req[y].change
    <3>1. \A y \in InFlight(p) : y \in Requests
        BY DEF InFlight
    <3> QED BY <3>1, <1>1, <1>5, <1>6, <1>7
  <2> QED BY <2>1, <2>2, <2>3, <1>2, <1>7, SoundSame
<1>10. ASSUME store = "file", NEW p \in Replicas
       PROVE  Sound(p)' /\ FileSound'
  <2>1. FileSound /\ Sound(p) /\ (\A y \in Replicas : y = p) /\ p = w.rep
      BY <1>3, <1>10, ConfigAssumption DEF Explained, FileSound, Types, StoreTypes
  <2>2. AtWork(w, up) /\ ~Orphan(q) /\ p \in up /\ w.write = w.stage
      BY <2>1, <1>3, <1>10 DEF AtWork
  <2>3. InFile(w, remote, heap[p], open[p]) /\ \A y \in Requests \ {q} : ~Live(y)
      BY <2>1, <1>1, <1>2 DEF FileSound
  <2>4. q \in InFlight(p)
      BY <2>1, <2>2, <1>1, <1>2 DEF InFlight
  <2>5. /\ w.item # Null => w.obj \in Objects /\ w.obj # Null
        /\ w.item = Null => w.stage = "config"
      BY <2>4, <1>1, WorkTyped
  <2>6. InObject(w, cache[p], heap[p], floor[p])
      BY <2>1, <2>4, <1>1 DEF Sound
  <2>7. w.item # Null => cache[p][w.kind] = w.obj /\ InForce(p, w.kind) = heap[p][w.obj]
      BY <2>5, <2>6 DEF InObject, InForce
  <2>8. w.value # Torn /\ w.value # Null
      BY <1>3, DocsGrow
  <2>9. /\ w.stage = "config" => /\ remote'.config[w.kind] = w.value
                                 /\ \A l \in Kinds \ {w.kind} : remote'.config[l] = remote.config[l]
        /\ w.stage # "config" => remote'.config = remote.config
    <3>1. OneConfigSet(remote', remote, w, w.value)
        BY <1>2, <1>3, <1>8, WrittenConfig
    <3> QED BY <3>1, <2>2 DEF OneConfigSet
  <2>10. \A y \in InFlight(p)' : y = q
      BY <2>3, <1>7 DEF InFlight
  <2>11. x.stage # "idle"
      BY <2>2, <1>1, <1>2, <1>6 DEF Live
  <2>12. Sound(p)'
    <3>1. Distinct(cache'[p])
        BY <2>1, <1>2 DEF Sound
    <3>2. \A y \in InFlight(p)' : /\ InObject(req'[y], cache'[p], heap'[p], floor'[p])
                                  /\ req'[y].item = Null => InFlight(p)' = {y}
      <4>1. InObject(x, cache'[p], heap'[p], floor'[p])
          BY <2>2, <2>6, <1>2, <1>6 DEF InObject
      <4>2. InFlight(p)' = {q}
          BY <2>4, <2>10, <1>7
      <4> QED BY <4>1, <4>2, <1>5
    <3>3. ASSUME NEW l \in Kinds PROVE Holds(InForce(p, l)', l, floor'[p], open'[p])
      <4>1. Holds(InForce(p, l), l, floor[p], open[p])
          BY <2>1, <2>2 DEF Sound
      <4>2. View(p)' = remote' /\ View(p) = remote
          BY <1>2, <1>10 DEF View
      <4>3. CASE cache[p][l] # Null \/ w.stage # "config" \/ l # w.kind
        <5>1. InForce(p, l)' = InForce(p, l)
            BY <2>9, <4>2, <4>3, <1>2 DEF InForce, Stored
        <5> QED BY <4>1, <5>1, <1>2
      <4>4. CASE cache[p][l] = Null /\ w.stage = "config" /\ l = w.kind
        <5>1. w.item = Null
            BY <2>5, <2>7, <4>4
        <5>2. InForce(p, l)' = w.value
            BY <2>8, <2>9, <4>2, <4>4, <1>2 DEF InForce, Stored
        <5>3. \A i \in ItemsOf(l) : <<i, w.value[i]>> \in open'[p]
            BY <2>3, <4>4, <5>1, <1>2 DEF InFile
        <5> QED BY <5>2, <5>3 DEF Holds
      <4> QED BY <4>3, <4>4
    <3> QED BY <3>1, <3>2, <3>3 DEF Sound
  <2>13. FileSound'
    <3>1. raced' = {}
        BY <2>1, <1>2 DEF FileSound
    <3>2. \A y \in Requests : Live(y)' => y = q
        BY <2>3, <1>5 DEF Live
    <3>3. InFile(x, remote', heap'[p], open'[p])
      <4>1. CASE w.item = Null
          BY <2>2, <2>3, <2>5, <2>9, <4>1, <1>2, <1>6 DEF InFile
      <4>2. CASE w.item # Null
          BY <2>2, <2>3, <2>9, <4>2, <1>2, <1>6 DEF InFile
      <4> QED BY <4>1, <4>2
    <3>4. \A y \in Requests : Live(y)' => InFile(req'[y], remote', heap'[req'[y].rep], open'[req'[y].rep])
        BY <2>1, <2>2, <3>2, <3>3, <1>5, <1>6
    <3>5. ASSUME NEW l \in Kinds PROVE Holds(InStore(remote', l), l, floor'[p], open'[p])
      <4>1. Holds(InStore(remote, l), l, floor[p], open[p])
          BY <2>1 DEF FileSound
      <4>2. CASE w.stage # "config" \/ l # w.kind
        <5>1. InStore(remote', l) = InStore(remote, l)
            BY <2>9, <4>2 DEF InStore
        <5> QED BY <4>1, <5>1, <1>2
      <4>3. CASE w.stage = "config" /\ l = w.kind
        <5>1. InStore(remote', l) = w.value
            BY <2>8, <2>9, <4>3 DEF InStore
        <5>2. CASE w.item = Null
            BY <2>3, <4>3, <5>1, <5>2, <1>2 DEF InFile, Holds
        <5>3. CASE w.item # Null
          <6>1. w.value = InForce(p, l)
              BY <2>3, <2>7, <4>3, <5>3 DEF InFile
          <6>2. Holds(InForce(p, l), l, floor[p], open[p])
              BY <2>1, <2>2 DEF Sound
          <6> QED BY <5>1, <6>1, <6>2, <1>2
        <5> QED BY <5>2, <5>3
      <4> QED BY <4>2, <4>3
    <3> QED BY <2>1, <3>1, <3>2, <3>4, <3>5 DEF FileSound
  <2> QED BY <2>12, <2>13
<1> QED BY <1>2, <1>3, <1>9, <1>10 DEF Explained

LEMMA OrphanVanishesExplained ==
    ASSUME Types, Explained, NEW q \in Requests, OrphanVanishes(q)
    PROVE  Explained'
<1>1. /\ Orphan(q) /\ req' = [req EXCEPT ![q] = Idle]
      /\ UNCHANGED <<store, remote, mirror, up, cache, heap, floor, open, raced>>
    BY DEF OrphanVanishes, memory, clock, history
<1>2. Live(q) /\ store # "file"
  <2>1. Live(q)
      BY <1>1 DEF Live, Orphan
  <2> QED BY <2>1, <1>1, LiveTyped
<1>3. req'[q] = Idle /\ \A p \in Requests \ {q} : req'[p] = req[p]
    BY <1>1 DEF Types, RequestTypes
<1>4. \A p \in Replicas : InFlight(p)' = InFlight(p) /\ q \notin InFlight(p)
    BY <1>1, <1>3 DEF InFlight, Live, Orphan, Idle
<1>5. ASSUME NEW p \in Replicas \ raced PROVE Sound(p)'
  <2>1. Sound(p) /\ p \in Replicas /\ View(p)' = View(p)
      BY <1>1 DEF Explained, View
  <2>2. \A x \in InFlight(p)' : req'[x] = req[x]
    <3>1. \A x \in InFlight(p)' : x \in Requests
        BY DEF InFlight
    <3> QED BY <3>1, <1>3, <1>4
  <2> QED BY <2>1, <2>2, <1>1, <1>4, SoundSame
<1> QED BY <1>1, <1>2, <1>5 DEF Explained

LEMMA LogStepExplained ==
    ASSUME Types, Explained, NEW r \in Replicas, ReadLog(r) \/ FlushLog(r)
    PROVE  Explained'
<1>1. /\ UNCHANGED <<store, up, cache, heap, req, floor, open, raced>>
      /\ remote' \in {remote, [remote EXCEPT !.log = opLog[r]]}
      /\ mirror' = mirror \/ (store # "file" /\ mirror' = [mirror EXCEPT ![r].log = opLog[r]])
    BY DEF ReadLog, FlushLog, clock, history
<1>2. StoreTypes
    BY DEF Types
<1>3. remote'.config = remote.config
    BY <1>1, <1>2 DEF StoreTypes, IsConfig
<1>4. ASSUME NEW p \in up PROVE View(p)'.config = View(p).config
  <2>1. CASE store = "file"
      BY <2>1, <1>1, <1>3 DEF View
  <2>2. CASE store # "file"
    <3>1. p \in Replicas /\ store = "k8s"
        BY <2>2, <1>2, ConfigAssumption DEF StoreTypes
    <3>2. mirror'[p] \in {mirror[p], [mirror[p] EXCEPT !.log = opLog[r]]}
        BY <3>1, <1>1, <1>2 DEF StoreTypes
    <3>3. IsConfig(mirror[p], changes)
        BY <3>1, <1>2 DEF StoreTypes
    <3>4. mirror'[p].config = mirror[p].config
        BY <3>2, <3>3 DEF IsConfig
    <3> QED BY <3>4, <2>2, <1>1 DEF View
  <2> QED BY <2>1, <2>2
<1>5. ASSUME NEW p \in Replicas \ raced PROVE Sound(p)'
  <2>1. Sound(p)
      BY DEF Explained
  <2>2. CASE p \in up
    <3>1. InFlight(p)' = InFlight(p)
        BY <1>1 DEF InFlight, Live, Orphan
    <3> QED BY <3>1, <2>1, <2>2, <1>1, <1>4, SoundSame
  <2>3. CASE p \notin up
      BY <2>1, <2>3, <1>1 DEF Sound, InFlight, Live, Orphan
  <2> QED BY <2>2, <2>3
<1>6. ASSUME store = "file" PROVE FileSound'
  <2>1. FileSound
      BY <1>6 DEF Explained
  <2>2. \A k \in Kinds : InStore(remote', k) = InStore(remote, k)
      BY <1>3 DEF InStore
  <2>3. \A w, h, o : InFile(w, remote, h, o) => InFile(w, remote', h, o)
      BY <1>3 DEF InFile
  <2> QED BY <2>1, <2>2, <2>3, <1>1 DEF FileSound, Live
<1> QED BY <1>1, <1>5, <1>6 DEF Explained

\* Filling a cache gives the process an object of its own that holds what was in force.
FilledWith(c, h, g, m, k, o, d) ==
    /\ g[k] = o /\ m[o] = d /\ o # Null
    /\ \A l \in Kinds \ {k} : g[l] = c[l]
    /\ \A x \in Objects \ {o} : m[x] = h[x]
    /\ \A l \in Kinds : c[l] # Null => c[l] \in Objects \ {o}
    /\ Distinct(c) => Distinct(g)

LEMMA FilledSound ==
    ASSUME Types, NEW r \in up, NEW k \in Kinds, NEW o, IsFree(o, r),
           cache' = [cache EXCEPT ![r][k] = o], heap' = [heap EXCEPT ![r][o] = Stored(r, k)]
    PROVE  /\ FilledWith(cache[r], heap[r], cache'[r], heap'[r], k, o, Stored(r, k))
           /\ \A p \in Replicas \ {r} : cache'[p] = cache[p] /\ heap'[p] = heap[p]
<1>1. MemoryTypes /\ o \in Objects /\ o # Null /\ r \in Replicas
    BY ConfigAssumption DEF IsFree, Types, StoreTypes
<1>2. cache'[r][k] = o /\ heap'[r][o] = Stored(r, k)
    BY <1>1 DEF MemoryTypes
<1>3. /\ \A l \in Kinds \ {k} : cache'[r][l] = cache[r][l]
      /\ \A x \in Objects \ {o} : heap'[r][x] = heap[r][x]
    BY <1>1 DEF MemoryTypes
<1>4. \A l \in Kinds : cache[r][l] # Null => cache[r][l] \in Objects \ {o}
    BY <1>1 DEF MemoryTypes, IsFree
<1>5. Distinct(cache[r]) => Distinct(cache'[r])
    BY <1>1, <1>2, <1>3, <1>4 DEF Distinct, Kinds
<1>6. \A p \in Replicas \ {r} : cache'[p] = cache[p] /\ heap'[p] = heap[p]
    BY <1>1 DEF MemoryTypes
<1> QED BY <1>1, <1>2, <1>3, <1>4, <1>5, <1>6 DEF FilledWith

LEMMA ReadConfigExplained ==
    ASSUME Types, Explained, NEW r \in Replicas, NEW k \in Kinds, ReadConfig(r, k)
    PROVE  Explained'
<1>1. PICK o : o = FreeObject(r)
    OBVIOUS
<1>2. /\ r \in up /\ LoopFree(r) /\ cache[r][k] = Null
      /\ cache' = [cache EXCEPT ![r][k] = o]
      /\ heap' = [heap EXCEPT ![r][o] = Stored(r, k)]
      /\ UNCHANGED <<store, remote, mirror, up, req, floor, open, raced>>
    BY <1>1 DEF ReadConfig, Filled, ObjectOf, clock, history
<1>3. IsFree(o, r)
    BY <1>1, <1>2, FreeObjectIsFree DEF Types
<1>4. /\ cache'[r][k] = o /\ heap'[r][o] = Stored(r, k) /\ o # Null
      /\ \A l \in Kinds \ {k} : cache'[r][l] = cache[r][l]
      /\ \A x \in Objects \ {o} : heap'[r][x] = heap[r][x]
      /\ \A l \in Kinds : cache[r][l] # Null => cache[r][l] \in Objects \ {o}
      /\ Distinct(cache[r]) => Distinct(cache'[r])
      /\ \A p \in Replicas \ {r} : cache'[p] = cache[p] /\ heap'[p] = heap[p]
  <2>1. /\ FilledWith(cache[r], heap[r], cache'[r], heap'[r], k, o, Stored(r, k))
        /\ \A p \in Replicas \ {r} : cache'[p] = cache[p] /\ heap'[p] = heap[p]
      BY <1>2, <1>3, FilledSound
  <2> QED BY <2>1 DEF FilledWith
<1>5. \A p \in Replicas : InFlight(p)' = InFlight(p) /\ View(p)' = View(p)
    BY <1>2 DEF InFlight, Live, Orphan, View
<1>6. ASSUME NEW p \in Replicas \ raced, p # r PROVE Sound(p)'
  <2>1. Sound(p)
      BY DEF Explained
  <2> QED BY <2>1, <1>2, <1>4, <1>5, <1>6, SoundSame
<1>7. ASSUME r \notin raced PROVE Sound(r)'
  <2>1. Sound(r)
      BY <1>7 DEF Explained
  <2>2. ASSUME NEW x \in InFlight(r)
        PROVE  InObject(req[x], cache'[r], heap'[r], floor'[r])
    <3>1. PICK y : y = req[x]
        OBVIOUS
    <3>2. InObject(y, cache[r], heap[r], floor[r])
        BY <3>1, <2>1 DEF Sound
    <3>3. y.item # Null => y.obj # Null /\ y.kind \in Kinds
        BY <3>1, WorkTyped
    <3>4. y.item # Null => /\ y.kind # k /\ cache'[r][y.kind] = y.obj
                           /\ heap'[r][y.obj] = heap[r][y.obj]
        BY <3>2, <3>3, <1>2, <1>4 DEF InObject
    <3> QED BY <3>1, <3>2, <3>4, <1>2 DEF InObject
  <2>3. ASSUME NEW l \in Kinds
        PROVE  Holds(InForce(r, l)', l, floor'[r], open'[r])
    <3>1. InForce(r, l)' = InForce(r, l)
      <4>1. Stored(r, l)' = Stored(r, l)
          BY <1>5 DEF Stored
      <4>2. CASE l = k
          BY <4>1, <4>2, <1>2, <1>4 DEF InForce
      <4>3. CASE l # k
          BY <4>1, <4>3, <1>2, <1>4 DEF InForce
      <4> QED BY <4>2, <4>3
    <3>2. Holds(InForce(r, l), l, floor[r], open[r])
        BY <2>1, <1>2 DEF Sound
    <3> QED BY <3>1, <3>2, <1>2
  <2> QED BY <2>1, <2>2, <2>3, <1>2, <1>4, <1>5 DEF Sound
<1>8. ASSUME store = "file" PROVE FileSound'
  <2>1. FileSound /\ InFlight(r) = {} /\ \A p \in Replicas : p = r
      BY <1>2, <1>8, ConfigAssumption DEF Explained, LoopFree, Types, StoreTypes
  <2>2. \A p \in Requests : ~Live(p)
    <3>1. \A p \in up : InFlight(p) = {}
        BY <2>1 DEF Types, StoreTypes
    <3> QED BY <3>1, <1>8, NoneLive
  <2> QED BY <2>1, <2>2, <1>2 DEF FileSound, Live
<1> QED BY <1>2, <1>6, <1>7, <1>8 DEF Explained

LEMMA WatchFiresExplained ==
    ASSUME Types, WatchTypes, Explained, NEW r \in Replicas, NEW k \in Kinds, WatchFires(r, k)
    PROVE  Explained'
<1>1. PICK o : o = FreeObject(r)
    OBVIOUS
<1>2. PICK d : d = Stored(r, k)
    OBVIOUS
<1>3. /\ r \in up
      /\ \/ /\ d = Torn
            /\ cache' = [cache EXCEPT ![r][k] = Null]
            /\ UNCHANGED <<heap, floor, open>>
         \/ /\ d # Torn
            /\ cache' = [cache EXCEPT ![r][k] = o]
            /\ heap' = [heap EXCEPT ![r][o] = d]
            /\ floor' = [floor EXCEPT ![r] =
                 [i \in Items |-> IF i \in ItemsOf(k) THEN d[i] ELSE floor[r][i]]]
            /\ open' = [open EXCEPT ![r] = {e \in @ : e[1] \notin ItemsOf(k)}]
      /\ UNCHANGED <<store, remote, mirror, up, req, raced>>
    BY <1>1, <1>2 DEF WatchFires, Reload, clock
<1>4. store = "file" /\ InFlight(r) = {} /\ View(r) = remote /\ View(r)' = remote
  <2>1. store = "file" /\ InFlight(r) = {} /\ View(r) = remote
      BY FiresAlone
  <2> QED BY <2>1, <1>3 DEF View
<1>5. FileSound /\ Sound(r) /\ \A p \in Replicas : p = r
    BY <1>4, ConfigAssumption DEF Explained, FileSound, Types, StoreTypes
<1>6. \A p \in Requests : ~Live(p)
  <2>1. \A p \in up : InFlight(p) = {}
      BY <1>4, <1>5 DEF Types, StoreTypes
  <2> QED BY <2>1, <1>4, NoneLive
<1>7. InFlight(r)' = {} /\ \A p \in Requests : ~Live(p)'
    BY <1>3, <1>6 DEF InFlight, Live
<1>8. MemoryTypes /\ HistoryTypes
    BY DEF Types
<1>9. \A l \in Kinds : InStore(remote', l) = InStore(remote, l) /\ Stored(r, l)' = Stored(r, l)
                       /\ Stored(r, l) = InStore(remote, l)
    BY <1>3, <1>4 DEF InStore, Stored
<1>10. CASE d = Torn
  <2>1. cache' = [cache EXCEPT ![r][k] = Null] /\ heap' = heap /\ floor' = floor /\ open' = open
      BY <1>3, <1>10
  <2>2. cache'[r][k] = Null /\ \A l \in Kinds \ {k} : cache'[r][l] = cache[r][l]
      BY <2>1, <1>8 DEF MemoryTypes
  <2>3. Distinct(cache'[r])
      BY <2>2, <1>5 DEF Sound, Distinct, Kinds
  <2>4. ASSUME NEW l \in Kinds PROVE Holds(InForce(r, l)', l, floor'[r], open'[r])
    <3>1. CASE l = k
      <4>1. InForce(r, l)' = Torn
          BY <3>1, <2>2, <1>2, <1>9, <1>10 DEF InForce
      <4> QED BY <4>1 DEF Holds
    <3>2. CASE l # k
      <4>1. InForce(r, l)' = InForce(r, l)
          BY <3>2, <2>1, <2>2, <1>9 DEF InForce
      <4> QED BY <4>1, <2>1, <1>3, <1>5 DEF Sound
    <3> QED BY <3>1, <3>2
  <2>5. Sound(r)'
      BY <2>3, <2>4, <1>7 DEF Sound
  <2>6. FileSound'
      BY <2>1, <1>3, <1>5, <1>7, <1>9 DEF FileSound
  <2> QED BY <2>5, <2>6, <1>5 DEF Explained
<1>11. CASE d # Torn
  <2>1. /\ cache' = [cache EXCEPT ![r][k] = o]
        /\ heap' = [heap EXCEPT ![r][o] = Stored(r, k)]
      BY <1>2, <1>3, <1>11
  <2>2. PICK f : f = [i \in Items |-> IF i \in ItemsOf(k) THEN d[i] ELSE floor[r][i]]
      OBVIOUS
  <2>3. PICK s : s = {e \in open[r] : e[1] \notin ItemsOf(k)}
      OBVIOUS
  <2>4. floor'[r] = f /\ open'[r] = s
    <3>1. floor' = [floor EXCEPT ![r] = f] /\ open' = [open EXCEPT ![r] = s]
        BY <2>2, <2>3, <1>3, <1>11
    <3> QED BY <3>1, <1>8 DEF HistoryTypes
  <2>5. IsFree(o, r)
      BY <1>1, <1>4, <1>8, FreeObjectIsFree
  <2>6. FilledWith(cache[r], heap[r], cache'[r], heap'[r], k, o, Stored(r, k))
      BY <2>1, <2>5, <1>3, FilledSound
  <2>7. ASSUME NEW l \in Kinds, NEW doc, l = k => doc = d, l # k => Holds(doc, l, floor[r], open[r])
        PROVE  Holds(doc, l, floor'[r], open'[r])
      BY <2>2, <2>3, <2>4, <2>7, HoldsAfterRollback
  <2>8. ASSUME NEW l \in Kinds PROVE Holds(InForce(r, l)', l, floor'[r], open'[r])
    <3>1. l = k => InForce(r, l)' = d
        BY <2>6, <1>2 DEF FilledWith, InForce
    <3>2. l # k => InForce(r, l)' = InForce(r, l)
        BY <2>6, <1>9 DEF FilledWith, InForce
    <3>3. Holds(InForce(r, l), l, floor[r], open[r])
        BY <1>3, <1>5 DEF Sound
    <3> QED BY <2>7, <3>1, <3>2, <3>3
  <2>9. Distinct(cache'[r])
      BY <2>6, <1>5 DEF FilledWith, Sound
  <2>10. Sound(r)'
      BY <2>8, <2>9, <1>7 DEF Sound
  <2>11. ASSUME NEW l \in Kinds PROVE Holds(InStore(remote', l), l, floor'[r], open'[r])
    <3>1. l = k => InStore(remote', l) = d
        BY <1>2, <1>9
    <3>2. Holds(InStore(remote, l), l, floor[r], open[r])
        BY <1>5 DEF FileSound
    <3> QED BY <2>7, <3>1, <3>2, <1>9
  <2>12. FileSound'
      BY <2>11, <1>3, <1>5, <1>7 DEF FileSound
  <2> QED BY <2>10, <2>12, <1>5 DEF Explained
<1> QED BY <1>10, <1>11

LEMMA EditExplained ==
    ASSUME Types, Explained, NEW k \in Kinds, NEW i \in Items, Edit(k, i)
    PROVE  Explained'
<1>1. PICK new : new = [(IF remote.config[k] = Torn THEN NoItems ELSE remote.config[k])
                          EXCEPT ![i] = changes + 1]
    OBVIOUS
<1>2. /\ store = "file" /\ remote.config[k] # Null
      /\ \A r \in up : LoopFree(r)
      /\ remote' = [remote EXCEPT !.config[k] = new]
      /\ open' = [r \in Replicas |-> open[r] \cup {<<j, new[j]>> : j \in ItemsOf(k)}]
      /\ UNCHANGED <<store, mirror, up, cache, heap, req, floor, raced>>
    BY <1>1 DEF Edit, memory
<1>3. FileSound /\ IsConfig(remote, changes) /\ changes \in Nat /\ up \subseteq Replicas
    BY <1>2 DEF Explained, Types, StoreTypes
<1>4. new # Null
  <2>1. changes + 1 \in Nat /\ changes <= changes + 1
      BY <1>3
  <2>2. remote.config[k] \in DocsTo(changes) \cup {Torn, Null} /\ NoItems \in DocsTo(changes)
      BY <1>3, DocsGrow DEF IsConfig
  <2>3. (IF remote.config[k] = Torn THEN NoItems ELSE remote.config[k]) \in DocsTo(changes + 1)
      BY <2>1, <2>2, <1>2, <1>3, DocsGrow
  <2>4. new \in DocsTo(changes + 1)
      BY <2>1, <2>3, <1>1 DEF DocsTo
  <2> QED BY <2>1, <2>4, DocsGrow
<1>5. /\ remote'.config[k] = new
      /\ \A l \in Kinds \ {k} : remote'.config[l] = remote.config[l]
    BY <1>2, <1>3 DEF IsConfig
<1>6. \A r \in up : InFlight(r) = {}
    BY <1>2 DEF LoopFree
<1>7. \A q \in Requests : ~Live(q) /\ ~Live(q)'
    BY <1>2, <1>6, NoneLive DEF Live
<1>8. \A r \in Replicas : InFlight(r)' = {} /\ View(r)' = remote' /\ View(r) = remote
    BY <1>2, <1>7 DEF InFlight, View, Live
<1>9. ASSUME NEW r \in Replicas, NEW l \in Kinds, NEW doc,
             l = k => (doc = new \/ Holds(doc, l, floor[r], open[r])),
             l # k => Holds(doc, l, floor[r], open[r])
      PROVE  Holds(doc, l, floor'[r], open'[r])
    BY <1>2, <1>9 DEF Holds
<1>10. ASSUME NEW r \in Replicas PROVE Sound(r)'
  <2>1. Sound(r)
      BY <1>3 DEF Explained, FileSound
  <2>2. ASSUME r \in up', NEW l \in Kinds PROVE Holds(InForce(r, l)', l, floor'[r], open'[r])
    <3>1. Holds(InForce(r, l), l, floor[r], open[r])
        BY <2>1, <2>2, <1>2 DEF Sound
    <3>2. InForce(r, l)' = InForce(r, l) \/ (l = k /\ InForce(r, l)' = new)
        BY <1>2, <1>4, <1>5, <1>8 DEF InForce, Stored
    <3> QED BY <3>1, <3>2, <1>9
  <2> QED BY <2>1, <2>2, <1>2, <1>8 DEF Sound
<1>11. FileSound'
  <2>1. ASSUME NEW r \in Replicas, NEW l \in Kinds
        PROVE  Holds(InStore(remote', l), l, floor'[r], open'[r])
    <3>1. Holds(InStore(remote, l), l, floor[r], open[r])
        BY <1>3 DEF FileSound
    <3>2. InStore(remote', l) = IF l = k THEN new ELSE InStore(remote, l)
        BY <1>4, <1>5 DEF InStore
    <3> QED BY <3>1, <3>2, <1>9
  <2> QED BY <2>1, <1>2, <1>3, <1>7 DEF FileSound
<1> QED BY <1>10, <1>11 DEF Explained

LEMMA LoseMemoryExplained ==
    ASSUME Types, Explained, NEW r \in Replicas, LoseMemory(r),
           \/ remote' = remote
           \/ /\ store = "file"
              /\ \E q \in Requests : Live(q) /\ remote' = Written(remote, req[q], Torn)
    PROVE  Explained'
<1>1. /\ up' = up \ {r}
      /\ cache' = [cache EXCEPT ![r] = [k \in Kinds |-> Null]]
      /\ heap' = [heap EXCEPT ![r] = [o \in Objects |-> NoItems]]
      /\ mirror' = [mirror EXCEPT ![r] = Null]
      /\ UNCHANGED <<store, floor, open, raced>>
    BY DEF LoseMemory
<1>2. req' = [q \in Requests |->
                 IF q \notin InFlight(r) THEN req[q]
                 ELSE IF store = "k8s" /\ req[q].io = "sent"
                      THEN [req[q] EXCEPT !.stage = "orphan", !.obj = Null] ELSE Idle]
    BY DEF LoseMemory
<1>3. MemoryTypes /\ StoreTypes
    BY DEF Types
<1>4. \A q \in Requests :
        /\ q \notin InFlight(r) => req'[q] = req[q]
        /\ q \in InFlight(r) => req'[q].stage \in {"idle", "orphan"}
                                /\ (store # "k8s" => req'[q].stage = "idle")
  <2>1. ASSUME NEW q \in Requests, q \in InFlight(r), req'[q] # Idle
        PROVE  store = "k8s" /\ req'[q].stage = "orphan"
    <3>1. store = "k8s" /\ req'[q] = [req[q] EXCEPT !.stage = "orphan", !.obj = Null]
        BY <2>1, <1>2
    <3>2. IsFlight(req[q], changes)
        BY <2>1, WorkTyped, LiveTyped
    <3> QED BY <3>1, <3>2 DEF IsFlight
  <2> QED BY <2>1, <1>2 DEF Idle
<1>5. InFlight(r)' = {}
    BY <1>4 DEF InFlight, Live, Orphan
<1>6. \A p \in Replicas \ {r} : InFlight(p)' = InFlight(p)
                                /\ \A q \in InFlight(p) : req'[q] = req[q]
  <2>1. \A p \in Replicas \ {r}, q \in Requests : q \in InFlight(p) => q \notin InFlight(r)
      BY DEF InFlight
  <2> QED BY <2>1, <1>4 DEF InFlight, Live, Orphan
<1>7. ASSUME NEW p \in Replicas \ raced, p # r PROVE Sound(p)'
  <2>1. Sound(p) /\ store # "file"
      BY <1>7, Apart DEF Explained
  <2>2. cache'[p] = cache[p] /\ heap'[p] = heap[p] /\ mirror'[p] = mirror[p]
      BY <1>1, <1>3, <1>7 DEF MemoryTypes, StoreTypes
  <2>3. View(p)' = View(p)
      BY <2>1, <2>2, <1>1 DEF View
  <2> QED BY <2>1, <2>2, <2>3, <1>1, <1>6, <1>7, SoundSame
<1>8. Sound(r)'
  <2>1. cache'[r] = [k \in Kinds |-> Null] /\ r \notin up'
      BY <1>1, <1>3 DEF MemoryTypes
  <2> QED BY <2>1, <1>5 DEF Sound, Distinct, Kinds
<1>9. ASSUME store = "file" PROVE FileSound'
  <2>1. FileSound /\ \A p \in Replicas : p = r
      BY <1>9, ConfigAssumption DEF Explained, Types, StoreTypes
  <2>2. \A q \in Requests : ~Live(q)'
    <3>1. ASSUME NEW q \in Requests, Live(q) PROVE q \in InFlight(r)
        BY <3>1, <2>1, <1>9, LiveTyped DEF InFlight
    <3> QED BY <3>1, <1>4, <1>9 DEF Live
  <2>3. ASSUME NEW l \in Kinds PROVE InStore(remote', l) \in {InStore(remote, l), Torn}
    <3>1. ASSUME NEW q \in Requests, Live(q), remote' = Written(remote, req[q], Torn)
          PROVE  remote'.config[l] \in {remote.config[l], Torn}
      <4>1. req[q].kind \in Kinds /\ req[q].write \in {"config", "version", "prune"}
          BY <3>1, LiveTyped
      <4>2. OneConfigSet(remote', remote, req[q], Torn)
          BY <3>1, <4>1, <1>3, WrittenConfig DEF StoreTypes
      <4> QED BY <4>1, <4>2 DEF OneConfigSet
    <3>2. remote'.config[l] \in {remote.config[l], Torn}
        BY <3>1
    <3> QED BY <3>2, ConfigAssumption DEF InStore
  <2>4. ASSUME NEW p \in Replicas, NEW l \in Kinds
        PROVE  Holds(InStore(remote', l), l, floor'[p], open'[p])
    <3>1. Holds(InStore(remote, l), l, floor[p], open[p])
        BY <2>1 DEF FileSound
    <3> QED BY <3>1, <2>3, <1>1 DEF Holds
  <2> QED BY <2>1, <2>2, <2>4, <1>1 DEF FileSound
<1> QED BY <1>1, <1>7, <1>8, <1>9 DEF Explained

LEMMA CrashExplained ==
    ASSUME Types, Explained, \/ \E r \in Replicas : Crash(r)
                             \/ \E q \in Requests : CrashInWrite(q)
    PROVE  Explained'
<1>1. ASSUME NEW q \in Requests, CrashInWrite(q) PROVE Explained'
  <2>1. Live(q)
      BY <1>1 DEF CrashInWrite
  <2>2. req[q].rep \in Replicas
      BY <2>1, LiveTyped
  <2>3. LoseMemory(req[q].rep) /\ store = "file" /\ remote' = Written(remote, req[q], Torn)
      BY <1>1 DEF CrashInWrite
  <2> QED BY <2>1, <2>2, <2>3, LoseMemoryExplained
<1>2. ASSUME NEW r \in Replicas, Crash(r) PROVE Explained'
    BY <1>2, LoseMemoryExplained DEF Crash
<1> QED BY <1>1, <1>2

LEMMA StartExplained ==
    ASSUME Types, Explained, NEW r \in Replicas, Start(r)
    PROVE  Explained'
<1> DEFINE missing == MissingBuiltIns(StartTags)
<1>1. /\ r \notin up /\ up' = up \cup {r}
      /\ remote' = Booted
      /\ mirror' = IF store = "file" THEN mirror ELSE [mirror EXCEPT ![r] = Booted]
      /\ cache' = [cache EXCEPT ![r]["tags"] = 1]
      /\ heap' = [heap EXCEPT ![r][1] = StartDoc]
      /\ floor' = [floor EXCEPT ![r] = StartFloor(r)]
      /\ UNCHANGED <<store, req, open, raced>>
    BY StartStep
<1>2. /\ StoreTypes /\ MemoryTypes /\ HistoryTypes /\ store \in {"file", "k8s"}
      /\ missing \subseteq Tags
    BY ConfigAssumption DEF Types, StoreTypes, MissingBuiltIns
<1>3. /\ StartDoc \in DocsTo(changes') /\ changes' \in Nat
      /\ IsConfig(Booted, changes')
    BY StartTypes
<1>4. 1 \in Objects /\ 1 # Null
  <2>1. Cardinality(Requests) \in Nat
      BY ConfigAssumption, FS_CardinalityType
  <2>2. 1 \in Objects
      BY <2>1 DEF Objects
  <2> QED BY <2>2, ConfigAssumption
<1>5. /\ cache'[r]["tags"] = 1 /\ cache'[r]["callbacks"] = Null
      /\ heap'[r][1] = StartDoc /\ floor'[r] = StartFloor(r)
      /\ View(r)' = Booted
  <2>1. cache[r]["callbacks"] = Null
      BY <1>1, <1>2 DEF MemoryTypes, Kinds
  <2>2. cache'[r]["tags"] = 1 /\ cache'[r]["callbacks"] = Null
      BY <2>1, <1>1, <1>2 DEF MemoryTypes, Kinds
  <2>3. heap'[r][1] = StartDoc /\ floor'[r] = StartFloor(r)
      BY <1>1, <1>2, <1>4 DEF MemoryTypes, HistoryTypes
  <2>4. View(r)' = Booted
      BY <1>1, <1>2 DEF View, StoreTypes
  <2> QED BY <2>2, <2>3, <2>4
<1>6. InFlight(r)' = {}
  <2>1. InFlight(r) = {}
      BY <1>1, WorkTyped
  <2> QED BY <2>1, <1>1 DEF InFlight, Live, Orphan
<1>7. InStore(Booted, "tags") = StartDoc
  <2>1. StartDoc # Null
      BY <1>3, DocsGrow
  <2>2. CASE missing # {}
    <3>1. IsConfig(remote, changes) /\ "tags" \in Kinds
        BY <1>2 DEF StoreTypes, Kinds
    <3>2. Booted = [remote EXCEPT !.config["tags"] = StartDoc]
        BY <2>2 DEF Booted
    <3>3. Booted.config["tags"] = StartDoc
        BY <3>1, <3>2 DEF IsConfig
    <3> QED BY <3>3, <2>1 DEF InStore
  <2>3. CASE missing = {}
    <3>1. InStore(Booted, "tags") = StartTags
        BY <2>3 DEF Booted, InStore, StartTags
    <3>2. StartTags \in DocsTo(changes)
        BY StartTypes
    <3>3. StartDoc = StartTags
        BY <2>3, <3>2 DEF StartDoc, DocsTo
    <3> QED BY <3>1, <3>3
  <2> QED BY <2>2, <2>3
<1>8. InStore(Booted, "callbacks") = InStore(remote, "callbacks")
      /\ Booted.config["callbacks"] = remote.config["callbacks"]
  <2>1. IsConfig(remote, changes) /\ "tags" \in Kinds
      BY <1>2 DEF StoreTypes, Kinds
  <2>2. Booted.config["callbacks"] = remote.config["callbacks"]
      BY <2>1 DEF Booted, IsConfig, Kinds
  <2> QED BY <2>2 DEF InStore
<1>9. ASSUME store = "file" => FileSound, NEW l \in Kinds
      PROVE  Holds(InStore(Booted, l), l, StartFloor(r), open[r])
  <2> SUFFICES ASSUME InStore(Booted, l) # Torn, NEW i \in ItemsOf(l)
               PROVE  InStore(Booted, l)[i] = StartFloor(r)[i] \/ <<i, InStore(Booted, l)[i]>> \in open[r]
      BY DEF Holds
  <2>1. i \in Items
      BY ItemsDisjoint
  <2>2. store = "file" => Holds(InStore(remote, l), l, floor[r], open[r])
      BY <1>9 DEF FileSound
  <2>3. CASE l = "tags"
    <3>1. i \in Tags /\ InStore(Booted, l)[i] = StartDoc[i]
        BY <2>3, <1>7 DEF ItemsOf
    <3>2. CASE i \in missing
        BY <2>1, <3>1, <3>2 DEF StartDoc, StartFloor
    <3>3. CASE i \notin missing /\ store = "file"
      <4>1. StartFloor(r)[i] = floor[r][i]
          BY <2>1, <3>3 DEF StartFloor
      <4>2. StartDoc[i] = StartTags[i] /\ StartTags = InStore(remote, "tags")
          BY <2>1, <3>3 DEF StartDoc, StartTags, InStore
      <4>3. InStore(remote, "tags") # Torn
          BY <4>2, StartStep
      <4> QED BY <4>1, <4>2, <4>3, <3>1, <3>3, <2>2, <2>3 DEF Holds
    <3>4. CASE i \notin missing /\ store # "file"
        BY <2>1, <3>1, <3>4 DEF StartFloor
    <3> QED BY <3>2, <3>3, <3>4
  <2>4. CASE l = "callbacks"
    <3>1. i \notin Tags /\ i \notin missing
        BY <2>4, <1>2 DEF ItemsOf
    <3>2. CASE store = "file"
      <4>1. StartFloor(r)[i] = floor[r][i]
          BY <2>1, <3>1, <3>2 DEF StartFloor
      <4> QED BY <4>1, <3>2, <2>2, <2>4, <1>8 DEF Holds
    <3>3. CASE store # "file"
      <4>1. StartFloor(r)[i] = IF Booted.config["callbacks"] = Null THEN 0
                               ELSE Booted.config["callbacks"][i]
          BY <2>1, <3>1, <3>3 DEF StartFloor
      <4> QED BY <4>1, <2>1, <2>4 DEF InStore, NoItems
    <3> QED BY <3>2, <3>3
  <2> QED BY <2>3, <2>4 DEF Kinds
<1>10. ASSUME NEW p \in Replicas \ raced, p # r PROVE Sound(p)'
  <2>1. Sound(p) /\ store # "file"
      BY <1>10, Apart DEF Explained
  <2>2. /\ cache'[p] = cache[p] /\ heap'[p] = heap[p] /\ mirror'[p] = mirror[p]
        /\ floor'[p] = floor[p]
      BY <2>1, <1>1, <1>2, <1>10 DEF MemoryTypes, StoreTypes, HistoryTypes
  <2>3. View(p)' = View(p)
      BY <2>1, <2>2, <1>1 DEF View
  <2>4. InFlight(p)' = InFlight(p)
      BY <1>1 DEF InFlight, Live, Orphan
  <2> QED BY <2>1, <2>2, <2>3, <2>4, <1>1, <1>10, SoundSame
<1>11. Sound(r)'
  <2>1. Distinct(cache'[r])
      BY <1>4, <1>5 DEF Distinct
  <2>2. ASSUME NEW l \in Kinds PROVE InForce(r, l)' = InStore(Booted, l)
    <3>1. CASE l = "tags"
        BY <3>1, <1>4, <1>5, <1>7 DEF InForce
    <3>2. CASE l = "callbacks"
        BY <3>2, <1>5 DEF InForce, Stored, InStore
    <3> QED BY <3>1, <3>2 DEF Kinds
  <2>3. \A l \in Kinds : Holds(InStore(Booted, l), l, StartFloor(r), open[r])
      BY <1>9 DEF Explained
  <2> QED BY <2>1, <2>2, <2>3, <1>1, <1>5, <1>6 DEF Sound
<1>12. ASSUME store = "file" PROVE FileSound'
  <2>1. FileSound /\ \A p \in Replicas : p = r
      BY <1>12, ConfigAssumption DEF Explained, Types, StoreTypes
  <2>2. \A q \in Requests : ~Live(q)
    <3>1. \A p \in up : InFlight(p) = {}
        BY <2>1, <1>1, <1>2 DEF StoreTypes
    <3> QED BY <3>1, <1>12, NoneLive
  <2>3. \A l \in Kinds : Holds(InStore(remote', l), l, floor'[r], open'[r])
      BY <2>1, <1>1, <1>5, <1>9
  <2> QED BY <2>1, <2>2, <2>3, <1>1 DEF FileSound, Live
<1> QED BY <1>1, <1>10, <1>11, <1>12 DEF Explained

\* A step of a request for a change that leaves the objects and the configuration as they
\* are.  Over the file store the file already agrees with the object.
Settled(q) ==
    /\ Live(q) /\ ~Orphan(q) /\ req[q].item # Null
    /\ \A p \in Replicas \ raced : cache'[p] = cache[p]
    /\ UNCHANGED <<heap, store, up, raced, changes>> /\ remote'.config = remote.config
    /\ \A p \in up \ raced, k \in Kinds :
         cache[p][k] = Null => View(p)'.config[k] = View(p).config[k]
    /\ store = "file" => remote.config[req[q].kind] = heap[req[q].rep][req[q].obj]

LEMMA AnswerExplained ==
    ASSUME Types, Explained, NEW q \in Requests, Settled(q), Acknowledge(q)
    PROVE  Explained'
<1>1. PICK w : w = req[q]
    OBVIOUS
<1>2. PICK r \in Replicas : r = w.rep
    BY <1>1, LiveTyped DEF Settled
<1>3. /\ req' = [req EXCEPT ![q] = Idle] /\ InFlight(r)' = InFlight(r) \ {q}
      /\ \A p \in Replicas \ {r} : /\ floor'[p] = floor[p] /\ open'[p] = open[p]
                                   /\ InFlight(p)' = InFlight(p)
    BY <1>1, <1>2, AcknowledgeStep DEF Settled
<1>4. req'[q] = Idle /\ \A p \in Requests \ {q} : req'[p] = req[p]
    BY <1>3 DEF Types, RequestTypes
<1>5. q \in InFlight(r)
    BY <1>1, <1>2 DEF Settled, InFlight
<1>6. /\ r \in up /\ w.obj \in Objects /\ w.obj # Null /\ w.kind \in Kinds
      /\ w.item \in ItemsOf(w.kind) /\ w.item # Null
    BY <1>1, <1>5, WorkTyped DEF Settled
<1>7. ASSUME NEW p \in Replicas \ raced, p # r PROVE Sound(p)'
  <2>1. Sound(p)
      BY DEF Explained
  <2>2. InFlight(p)' = InFlight(p) /\ \A x \in InFlight(p)' : x \in Requests \ {q}
    <3>1. q \notin InFlight(p)
        BY <1>1, <1>2, <1>7 DEF InFlight
    <3> QED BY <3>1, <1>3, <1>7 DEF InFlight
  <2>3. CASE p \in up
      BY <2>1, <2>2, <2>3, <1>3, <1>4, <1>7, SoundSame DEF Settled
  <2>4. CASE p \notin up
    <3>1. InFlight(p) = {}
        BY <2>4, WorkTyped
    <3> QED BY <3>1, <2>1, <2>2, <2>4 DEF Sound, Settled
  <2> QED BY <2>3, <2>4
<1>8. ASSUME r \notin raced PROVE Sound(r)'
  <2>1. Sound(r)
      BY <1>8 DEF Explained
  <2>2. cache'[r] = cache[r] /\ UNCHANGED <<heap, up, changes>>
        /\ \A k \in Kinds : cache[r][k] = Null => View(r)'.config[k] = View(r).config[k]
      BY <1>6, <1>8 DEF Settled
  <2>3. Live(q) /\ ~Orphan(q) /\ req[q].item # Null /\ r = req[q].rep
      BY <1>1, <1>2 DEF Settled
  <2> QED BY <2>1, <2>2, <2>3, AcknowledgeSound
<1>9. ASSUME store = "file" PROVE FileSound'
  <2>1. FileSound /\ Sound(r) /\ \A p \in Replicas : p = r
      BY <1>9, ConfigAssumption DEF Explained, FileSound, Types, StoreTypes
  <2>2. \A x \in Requests : ~Live(x)'
      BY <2>1, <1>4 DEF FileSound, Live, Idle, Settled
  <2>3. InObject(w, cache[r], heap[r], floor[r])
      BY <2>1, <1>1, <1>5 DEF Sound
  <2>4. ASSUME NEW l \in Kinds
        PROVE  Holds(InStore(remote', l), l, floor'[r], open'[r])
    <3>1. PICK doc : doc = InStore(remote, l)
        OBVIOUS
    <3>2. Holds(doc, l, floor[r], open[r])
        BY <3>1, <2>1 DEF FileSound
    <3>3. doc # Torn => doc \in DocsTo(changes)
      <4>1. IsConfig(remote, changes) /\ changes \in Nat
          BY DEF Types, StoreTypes
      <4> QED BY <3>1, <4>1, StoredTyped
    <3>4. l = w.kind => w.change <= doc[w.item] /\ floor[r][w.item] <= doc[w.item]
      <4>1. heap[r][w.obj] # Null
        <5>1. heap[r][w.obj] \in DocsTo(changes) /\ changes \in Nat
            BY <1>6 DEF Types, StoreTypes, MemoryTypes
        <5> QED BY <5>1, DocsGrow
      <4>2. l = w.kind => doc = heap[r][w.obj]
          BY <4>1, <3>1, <1>1, <1>2, <1>9 DEF Settled, InStore
      <4> QED BY <4>2, <2>3, <1>6 DEF InObject
    <3>5. Live(q) /\ ~Orphan(q) /\ req[q].item # Null /\ r = req[q].rep
        BY <1>1, <1>2 DEF Settled
    <3>6. Holds(doc, l, floor'[r], open'[r])
        BY <3>2, <3>3, <3>4, <3>5, <1>1, AcknowledgeHolds
    <3>7. InStore(remote', l) = doc
        BY <3>1 DEF InStore, Settled
    <3> QED BY <3>6, <3>7
  <2> QED BY <2>1, <2>2, <2>4 DEF FileSound, Settled
<1> QED BY <1>7, <1>8, <1>9 DEF Explained, Settled

LEMMA ContinueExplained ==
    ASSUME Types, Explained, NEW q \in Requests, Settled(q), NEW x,
           req' = [req EXCEPT ![q] = x], UNCHANGED <<floor, open>>,
           x.item = req[q].item, x.kind = req[q].kind, x.obj = req[q].obj,
           x.change = req[q].change, x.rep = req[q].rep, x.stage \in {"version", "prune"}
    PROVE  Explained'
<1>1. req'[q] = x /\ \A p \in Requests \ {q} : req'[p] = req[p]
    BY DEF Types, RequestTypes
<1>2. \A p \in Replicas : InFlight(p)' = InFlight(p)
    BY <1>1 DEF InFlight, Live, Orphan, Settled
<1>3. ASSUME NEW p \in Replicas \ raced PROVE Sound(p)'
  <2>1. Sound(p) /\ cache'[p] = cache[p]
      BY DEF Explained, Settled
  <2>2. \A y \in InFlight(p)' : /\ req'[y].item = req[y].item /\ req'[y].kind = req[y].kind
                                /\ req'[y].obj = req[y].obj /\ req'[y].change = req[y].change
    <3>1. \A y \in InFlight(p) : y \in Requests
        BY DEF InFlight
    <3> QED BY <3>1, <1>1, <1>2
  <2>3. CASE p \in up
      BY <2>1, <2>2, <2>3, <1>2, SoundSame DEF Settled
  <2>4. CASE p \notin up
    <3>1. InFlight(p) = {}
        BY <2>4, WorkTyped
    <3> QED BY <3>1, <2>1, <2>4, <1>2 DEF Sound, Settled
  <2> QED BY <2>3, <2>4
<1>4. ASSUME store = "file" PROVE FileSound'
  <2>1. FileSound
      BY <1>4 DEF Explained
  <2>2. \A y \in Requests : Live(y)' => y = q
      BY <2>1, <1>1 DEF FileSound, Live, Settled
  <2>3. InFile(x, remote', heap'[x.rep], open'[x.rep])
      BY <1>4 DEF InFile, Settled
  <2>4. \A y \in Requests : Live(y)' => InFile(req'[y], remote', heap'[req'[y].rep], open'[req'[y].rep])
      BY <2>2, <2>3, <1>1
  <2>5. \A k \in Kinds : InStore(remote', k) = InStore(remote, k)
      BY DEF InStore, Settled
  <2> QED BY <2>1, <2>2, <2>4, <2>5 DEF FileSound, Settled
<1> QED BY <1>3, <1>4 DEF Explained, Settled

LEMMA AfterVersionExplained ==
    ASSUME Types, Explained, NEW q \in Requests, Settled(q), req[q].stage \in {"version", "prune"},
           NEW rest, AfterVersion(q, rest)
    PROVE  Explained'
<1>1. CASE rest = <<>>
    BY <1>1, AnswerExplained DEF AfterVersion
<1>2. CASE rest # <<>>
  <2>1. PICK x : x = [req[q] EXCEPT !.stage = "prune", !.write = "prune", !.io = "sent", !.prune = rest]
      OBVIOUS
  <2>2. /\ req' = [req EXCEPT ![q].stage = "prune", ![q].write = "prune",
                              ![q].io = "sent", ![q].prune = rest]
        /\ UNCHANGED <<floor, open>>
      BY <1>2 DEF AfterVersion, history
  <2>3. req' = [req EXCEPT ![q] = x]
      BY <2>1, <2>2 DEF Types, RequestTypes
  <2>4. IsFlight(req[q], changes)
      BY LiveTyped DEF Settled
  <2>5. /\ x.item = req[q].item /\ x.kind = req[q].kind /\ x.obj = req[q].obj
        /\ x.change = req[q].change /\ x.rep = req[q].rep /\ x.stage = "prune"
      BY <2>1, <2>4 DEF IsFlight
  <2> QED BY <2>2, <2>3, <2>5, ContinueExplained
<1> QED BY <1>1, <1>2

\* The copy of the ConfigMap: only the answered write's configuration moves, and only in
\* the process it belongs to.
LEMMA MirrorFollows ==
    ASSUME Types, NEW q \in Requests, Live(q), ~Orphan(q),
           mirror' = IF store = "file" THEN mirror
                     ELSE [mirror EXCEPT ![req[q].rep] = Written(@, req[q], req[q].value)],
           UNCHANGED <<store, remote>>, NEW p \in up
    PROVE  /\ (store = "file" \/ p # req[q].rep) => View(p)' = View(p)
           /\ store # "file" /\ p = req[q].rep => OneConfigSet(View(p)', View(p), req[q], req[q].value)
<1>1. PICK w : w = req[q]
    OBVIOUS
<1>2. /\ w.rep \in Replicas /\ w.kind \in Kinds /\ w.write \in {"config", "version", "prune"}
      /\ p \in Replicas /\ mirror = [r \in Replicas |-> mirror[r]] /\ store \in {"file", "k8s"}
    BY <1>1, LiveTyped, ConfigAssumption DEF Types, StoreTypes
<1>3. CASE store = "file"
    BY <1>3 DEF View
<1>4. CASE store # "file" /\ p # w.rep
    BY <1>1, <1>2, <1>4 DEF View
<1>5. CASE store # "file" /\ p = w.rep
  <2>1. View(p)' = Written(mirror[p], w, w.value) /\ View(p) = mirror[p]
      BY <1>1, <1>2, <1>5 DEF View
  <2>2. IsConfig(mirror[p], changes)
      BY <1>2, <1>5 DEF Types, StoreTypes
  <2>3. OneConfigSet(View(p)', View(p), w, w.value)
      BY <2>1, <2>2, <1>2, WrittenConfig
  <2> QED BY <2>3, <1>1, <1>5
<1> QED BY <1>1, <1>3, <1>4, <1>5

LEMMA VersionSavedExplained ==
    ASSUME Types, Explained, NEW q \in Requests, VersionSaved(q) \/ Pruned(q)
    PROVE  Explained'
<1>1. /\ req[q].stage \in {"version", "prune"}
      /\ mirror' = IF store = "file" THEN mirror
                   ELSE [mirror EXCEPT ![req[q].rep] = Written(@, req[q], req[q].value)]
      /\ UNCHANGED <<store, remote, up, cache, heap, changes, raced>>
    BY DEF VersionSaved, Pruned, clock
<1>2. \E rest : AfterVersion(q, rest)
    BY DEF VersionSaved, Pruned
<1>3. Live(q) /\ ~Orphan(q)
    BY <1>1 DEF Live, Orphan
<1>4. AtWork(req[q], up)
    BY <1>3, LiveTyped
<1>5. req[q].item # Null /\ req[q].write # "config"
    BY <1>1, <1>4 DEF AtWork
<1>6. ASSUME NEW p \in up PROVE View(p)'.config = View(p).config
  <2>1. /\ (store = "file" \/ p # req[q].rep) => View(p)' = View(p)
        /\ store # "file" /\ p = req[q].rep => OneConfigSet(View(p)', View(p), req[q], req[q].value)
      BY <1>1, <1>3, MirrorFollows
  <2> QED BY <2>1, <1>5 DEF OneConfigSet
<1>7. store = "file" => remote.config[req[q].kind] = heap[req[q].rep][req[q].obj]
  <2>1. store = "file" => InFile(req[q], remote, heap[req[q].rep], open[req[q].rep])
      BY <1>3 DEF Explained, FileSound
  <2> QED BY <2>1, <1>1, <1>5 DEF InFile
<1>8. Settled(q)
    BY <1>1, <1>3, <1>5, <1>6, <1>7 DEF Settled
<1> QED BY <1>1, <1>2, <1>8, AfterVersionExplained

LEMMA WriteFailsExplained ==
    ASSUME Types, Explained, NEW q \in Requests, WriteFails(q)
    PROVE  Explained'
<1>1. PICK w : w = req[q]
    OBVIOUS
<1>2. /\ Live(q) /\ ~Orphan(q)
      /\ \/ remote' = remote
         \/ store = "file" /\ w.stage # "prune" /\ remote' = Written(remote, w, Torn)
      /\ UNCHANGED <<store, mirror, up, cache, heap, changes, raced>>
    BY <1>1 DEF WriteFails, clock
<1>3. \/ w.stage = "prune" /\ AfterVersion(q, Tail(w.prune))
      \/ w.stage # "prune" /\ req' = [req EXCEPT ![q] = Idle] /\ UNCHANGED <<floor, open>>
    BY <1>1 DEF WriteFails, history
<1>4. AtWork(w, up) /\ w.kind \in Kinds /\ w.write \in {"config", "version", "prune"}
    BY <1>1, <1>2, LiveTyped
<1>5. CASE w.stage = "prune" /\ AfterVersion(q, Tail(w.prune))
  <2>1. w.item # Null /\ remote' = remote
      BY <1>2, <1>4, <1>5 DEF AtWork
  <2>2. \A p \in up : View(p)' = View(p)
      BY <2>1, <1>2 DEF View
  <2>3. store = "file" => remote.config[w.kind] = heap[w.rep][w.obj]
    <3>1. store = "file" => InFile(w, remote, heap[w.rep], open[w.rep])
        BY <1>1, <1>2 DEF Explained, FileSound
    <3> QED BY <3>1, <2>1, <1>5 DEF InFile
  <2>4. Settled(q)
      BY <2>1, <2>2, <2>3, <1>1, <1>2 DEF Settled
  <2> QED BY <2>4, <1>1, <1>5, AfterVersionExplained
<1>6. CASE w.stage # "prune" /\ req' = [req EXCEPT ![q] = Idle] /\ UNCHANGED <<floor, open>>
  <2>1. req'[q] = Idle /\ \A p \in Requests \ {q} : req'[p] = req[p]
      BY <1>6 DEF Types, RequestTypes
  <2>2. ASSUME NEW l \in Kinds
        PROVE  remote'.config[l] \in {remote.config[l], Torn} /\ (store # "file" => remote' = remote)
    <3>1. CASE remote' = remote
        BY <3>1
    <3>2. CASE store = "file" /\ remote' = Written(remote, w, Torn)
      <4>1. IsConfig(remote, changes)
          BY DEF Types, StoreTypes
      <4>2. OneConfigSet(remote', remote, w, Torn)
          BY <3>2, <4>1, <1>4, WrittenConfig
      <4> QED BY <4>2, <3>2 DEF OneConfigSet
    <3> QED BY <3>1, <3>2, <1>2
  <2>3. ASSUME NEW p \in Replicas \ raced PROVE Sound(p)'
    <3>1. Sound(p)
        BY DEF Explained
    <3>2. InFlight(p)' \subseteq InFlight(p) /\ \A x \in InFlight(p)' : req'[x] = req[x]
        BY <2>1 DEF InFlight, Live, Orphan, Idle
    <3>3. \A k \in Kinds : View(p)'.config[k] \in {View(p).config[k], Torn}
        BY <2>2, <1>2 DEF View
    <3> QED BY <3>1, <3>2, <3>3, <1>2, <1>6, SoundSame
  <2>4. ASSUME store = "file" PROVE FileSound'
    <3>1. FileSound
        BY <2>4 DEF Explained
    <3>2. \A x \in Requests : ~Live(x)'
        BY <3>1, <2>1, <1>2 DEF FileSound, Live, Idle
    <3>3. \A l \in Kinds : InStore(remote', l) \in {InStore(remote, l), Torn}
        BY <2>2, ConfigAssumption DEF InStore
    <3> QED BY <3>1, <3>2, <3>3, <1>2, <1>6 DEF FileSound, Holds
  <2> QED BY <2>3, <2>4, <1>2 DEF Explained
<1> QED BY <1>3, <1>5, <1>6

LEMMA ConfigSavedExplained ==
    ASSUME Types, Explained, NEW q \in Requests, ConfigSaved(q)
    PROVE  Explained'
<1>1. PICK w : w = req[q]
    OBVIOUS
<1>2. /\ w.stage = "config" /\ w.io = "applied"
      /\ mirror' = IF store = "file" THEN mirror
                   ELSE [mirror EXCEPT ![w.rep] = Written(@, w, w.value)]
      /\ cache' = [cache EXCEPT ![w.rep][w.kind] = IF w.item = Null THEN Null ELSE w.obj]
      /\ UNCHANGED <<store, remote, up, heap, changes, raced>>
    BY <1>1 DEF ConfigSaved, clock
<1>3. \/ /\ req' = [req EXCEPT ![q] =
                  [w EXCEPT !.stage = "version", !.write = "version", !.io = "sent",
                            !.value = heap[w.rep][w.obj], !.version = Len(Listed(w.rep)) + 1,
                            !.prune = SubSeq(Listed(w.rep), 1,
                                             (Len(Listed(w.rep)) + 1) - MaxVersions)]]
         /\ w.item # Null
         /\ UNCHANGED <<floor, open>>
      \/ Acknowledge(q)
    BY <1>1 DEF ConfigSaved, StartVersion, history
<1>4. Live(q) /\ ~Orphan(q)
    BY <1>1, <1>2 DEF Live, Orphan
<1>5. PICK r \in Replicas : r = w.rep
    BY <1>1, <1>4, LiveTyped
<1>6. /\ q \in InFlight(r) /\ r \in up /\ w.kind \in Kinds /\ w.write = "config"
      /\ w.item # Null => w.obj \in Objects /\ w.obj # Null
      /\ w.value \in DocsTo(changes) /\ IsFlight(w, changes)
  <2>1. q \in InFlight(r)
      BY <1>1, <1>4, <1>5 DEF InFlight
  <2> QED BY <2>1, <1>1, <1>2, <1>4, LiveTyped, WorkTyped
<1>7. MemoryTypes /\ changes \in Nat
    BY DEF Types, StoreTypes
<1>8. store = "file" => InFile(w, remote, heap[r], open[r]) /\ FileSound
    BY <1>1, <1>4, <1>5 DEF Explained, FileSound
<1>9. ASSUME NEW p \in up
      PROVE  /\ (store = "file" \/ p # r) => View(p)' = View(p)
             /\ store # "file" /\ p = r => OneConfigSet(View(p)', View(p), w, w.value)
    BY <1>1, <1>2, <1>4, <1>5, MirrorFollows
<1>10. ASSUME w.item # Null PROVE Explained'
  <2>1. \A p \in Replicas \ raced : cache'[p] = cache[p]
    <3>1. ASSUME r \notin raced PROVE cache[r][w.kind] = w.obj
      <4>1. InObject(w, cache[r], heap[r], floor[r])
          BY <3>1, <1>1, <1>6 DEF Explained, Sound
      <4> QED BY <4>1, <1>10 DEF InObject
    <3>2. cache' = [cache EXCEPT ![r][w.kind] = w.obj]
        BY <1>2, <1>5, <1>10
    <3> QED BY <3>1, <3>2, <1>6, <1>7 DEF MemoryTypes
  <2>2. ASSUME NEW p \in up \ raced, NEW k \in Kinds, cache[p][k] = Null
        PROVE  View(p)'.config[k] = View(p).config[k]
    <3>1. CASE store = "file" \/ p # r
        BY <3>1, <1>9
    <3>2. CASE store # "file" /\ p = r
      <4>1. InObject(w, cache[r], heap[r], floor[r])
          BY <3>2, <2>2, <1>1, <1>6 DEF Explained, Sound
      <4>2. k # w.kind
          BY <4>1, <3>2, <2>2, <1>6, <1>10 DEF InObject
      <4> QED BY <4>2, <3>2, <1>6, <1>9 DEF OneConfigSet
    <3> QED BY <3>1, <3>2
  <2>3. Settled(q)
      BY <2>1, <2>2, <1>1, <1>2, <1>4, <1>5, <1>8, <1>10 DEF Settled, InFile
  <2>4. CASE Acknowledge(q)
      BY <2>3, <2>4, AnswerExplained
  <2>5. CASE ~Acknowledge(q)
    <3>1. PICK x : x = [w EXCEPT !.stage = "version", !.write = "version", !.io = "sent",
                            !.value = heap[w.rep][w.obj], !.version = Len(Listed(w.rep)) + 1,
                            !.prune = SubSeq(Listed(w.rep), 1,
                                             (Len(Listed(w.rep)) + 1) - MaxVersions)]
        OBVIOUS
    <3>2. req' = [req EXCEPT ![q] = x] /\ UNCHANGED <<floor, open>>
        BY <3>1, <2>5, <1>3
    <3>3. /\ x.item = w.item /\ x.kind = w.kind /\ x.obj = w.obj
          /\ x.change = w.change /\ x.rep = w.rep /\ x.stage = "version"
        BY <3>1, <1>6 DEF IsFlight
    <3> QED BY <3>2, <3>3, <2>3, <1>1, ContinueExplained
  <2> QED BY <2>4, <2>5
<1>11. ASSUME w.item = Null PROVE Explained'
  <2>1. Acknowledge(q)
      BY <1>3, <1>11
  <2>2. /\ AfterRollback(w, floor[r], open[r], floor'[r], open'[r])
        /\ req' = [req EXCEPT ![q] = Idle] /\ InFlight(r)' = InFlight(r) \ {q}
        /\ \A p \in Replicas \ {r} : /\ floor'[p] = floor[p] /\ open'[p] = open[p]
                                     /\ InFlight(p)' = InFlight(p)
      BY <2>1, <1>1, <1>4, <1>5, <1>11, AcknowledgeStep
  <2>3. req'[q] = Idle /\ \A p \in Requests \ {q} : req'[p] = req[p]
      BY <2>2 DEF Types, RequestTypes
  <2>4. /\ cache'[r][w.kind] = Null /\ \A l \in Kinds \ {w.kind} : cache'[r][l] = cache[r][l]
        /\ \A p \in Replicas \ {r} : cache'[p] = cache[p]
      BY <1>2, <1>5, <1>6, <1>7, <1>11 DEF MemoryTypes
  <2>5. ASSUME NEW l \in Kinds, NEW doc, l = w.kind => doc = w.value,
               l # w.kind => Holds(doc, l, floor[r], open[r])
        PROVE  Holds(doc, l, floor'[r], open'[r])
      BY <2>2, <2>5, <1>6, HoldsAfterRollback DEF AfterRollback
  <2>6. w.value # Null
      BY <1>6, <1>7, DocsGrow
  <2>7. store = "file" => remote.config[w.kind] = w.value
      BY <1>2, <1>8, <1>11 DEF InFile
  <2>8. ASSUME NEW p \in Replicas \ raced, p # r PROVE Sound(p)'
    <3>1. Sound(p)
        BY DEF Explained
    <3>2. \A x \in InFlight(p)' : x \in Requests \ {q}
      <4>1. q \notin InFlight(p)
          BY <1>1, <1>5, <2>8 DEF InFlight
      <4> QED BY <4>1, <2>2, <2>8 DEF InFlight
    <3>3. CASE p \in up
        BY <3>1, <3>2, <3>3, <2>2, <2>3, <2>4, <2>8, <1>2, <1>9, SoundSame
    <3>4. CASE p \notin up
      <4>1. InFlight(p) = {}
          BY <3>4, WorkTyped
      <4> QED BY <4>1, <3>1, <3>4, <2>2, <2>4, <2>8, <1>2 DEF Sound
    <3> QED BY <3>3, <3>4
  <2>9. ASSUME r \notin raced PROVE Sound(r)'
    <3>1. Sound(r)
        BY <2>9 DEF Explained
    <3>2. InFlight(r)' = {}
        BY <3>1, <2>2, <1>1, <1>6, <1>11 DEF Sound
    <3>3. Distinct(cache'[r])
        BY <3>1, <2>4 DEF Sound, Distinct, Kinds
    <3>4. ASSUME NEW l \in Kinds PROVE Holds(InForce(r, l)', l, floor'[r], open'[r])
      <4>1. Holds(InForce(r, l), l, floor[r], open[r])
          BY <3>1, <1>6 DEF Sound
      <4>2. l = w.kind => View(r)'.config[l] = w.value
        <5>1. CASE store = "file"
            BY <5>1, <2>7, <1>2 DEF View
        <5>2. CASE store # "file"
            BY <5>2, <1>6, <1>9 DEF OneConfigSet
        <5> QED BY <5>1, <5>2
      <4>3. l # w.kind => View(r)'.config[l] = View(r).config[l]
          BY <1>6, <1>9 DEF OneConfigSet
      <4>4. l = w.kind => InForce(r, l)' = w.value
          BY <4>2, <2>4, <2>6 DEF InForce, Stored
      <4>5. l # w.kind => InForce(r, l)' = InForce(r, l)
          BY <4>3, <2>4, <1>2 DEF InForce, Stored
      <4> QED BY <4>1, <4>4, <4>5, <2>5
    <3> QED BY <3>2, <3>3, <3>4 DEF Sound
  <2>10. ASSUME store = "file" PROVE FileSound'
    <3>1. FileSound /\ \A p \in Replicas : p = r
        BY <2>10, ConfigAssumption DEF Explained, Types, StoreTypes
    <3>2. \A x \in Requests : ~Live(x)'
        BY <3>1, <2>3, <1>4 DEF FileSound, Live, Idle
    <3>3. ASSUME NEW l \in Kinds PROVE Holds(InStore(remote', l), l, floor'[r], open'[r])
      <4>1. Holds(InStore(remote, l), l, floor[r], open[r])
          BY <3>1 DEF FileSound
      <4>2. l = w.kind => InStore(remote, l) = w.value
          BY <2>6, <2>7, <2>10 DEF InStore
      <4>3. remote' = remote
          BY <1>2
      <4> QED BY <4>1, <4>2, <4>3, <2>5
    <3> QED BY <3>1, <3>2, <3>3, <1>2 DEF FileSound
  <2> QED BY <2>8, <2>9, <2>10, <1>2 DEF Explained
<1> QED BY <1>10, <1>11

LEMMA InitExplained ==
    ASSUME Init
    PROVE  Explained
<1>1. PICK c \in {Null, NoItems} :
        remote = [config |-> [k \in Kinds |-> IF k = "tags" THEN Null ELSE c],
                  versions |-> <<>>, log |-> <<>>]
    BY DEF Init
<1>2. /\ up = {} /\ raced = {}
      /\ cache = [r \in Replicas |-> [k \in Kinds |-> Null]]
      /\ req = [q \in Requests |-> Idle]
      /\ floor = [r \in Replicas |-> NoItems] /\ open = [r \in Replicas |-> {}]
    BY DEF Init
<1>3. \A q \in Requests : ~Live(q)
    BY <1>2 DEF Live, Idle
<1>4. ASSUME NEW r \in Replicas PROVE Sound(r)
  <2>1. InFlight(r) = {}
      BY <1>3 DEF InFlight
  <2> QED BY <2>1, <1>2 DEF Sound, Distinct, Kinds
<1>5. ASSUME NEW k \in Kinds PROVE InStore(remote, k) = NoItems
    BY <1>1 DEF InStore
<1>6. ASSUME NEW r \in Replicas, NEW k \in Kinds
      PROVE  Holds(InStore(remote, k), k, floor[r], open[r])
  <2>1. floor[r] = NoItems
      BY <1>2
  <2> QED BY <2>1, <1>5 DEF Holds
<1> QED BY <1>2, <1>3, <1>4, <1>6 DEF Explained, FileSound

LEMMA ExplainedNext ==
    ASSUME Types, WatchTypes, Explained, [Next]_vars
    PROVE  Explained'
<1>1. CASE UNCHANGED vars
  <2>1. /\ UNCHANGED <<store, remote, mirror, up, cache, heap, req, floor, open, raced>>
      BY <1>1 DEF vars
  <2>2. \A r \in Replicas : InFlight(r)' = InFlight(r) /\ View(r)' = View(r)
      BY <2>1 DEF InFlight, Live, Orphan, View
  <2>3. ASSUME NEW r \in Replicas \ raced PROVE Sound(r)'
    <3>1. Sound(r)
        BY DEF Explained
    <3> QED BY <3>1, <2>1, <2>2, SoundSame
  <2> QED BY <2>1, <2>3 DEF Explained, FileSound, Live
<1>2. ASSUME NEW q \in Requests, NEW r \in Replicas, NEW k \in Kinds, NEW i \in Items,
             NEW remove \in BOOLEAN, Change(q, r, k, i, remove)
      PROVE  Explained'
    BY <1>2, ChangeExplained
<1>3. ASSUME NEW q \in Requests, NEW r \in Replicas, NEW k \in Kinds, NEW n \in 1..MaxChanges,
             Rollback(q, r, k, n)
      PROVE  Explained'
    BY <1>3, RollbackExplained
<1>4. ASSUME NEW q \in Requests, Apply(q) \/ WriteFails(q) \/ OrphanVanishes(q) PROVE Explained'
    BY <1>4, ApplyExplained, WriteFailsExplained, OrphanVanishesExplained
<1>5. ASSUME NEW q \in Requests, Proceed(q) PROVE Explained'
    BY <1>5, ConfigSavedExplained, VersionSavedExplained DEF Proceed
<1>6. ASSUME NEW q \in Requests, CrashInWrite(q) PROVE Explained'
    BY <1>6, CrashExplained
<1>7. ASSUME NEW r \in Replicas, Crash(r) PROVE Explained'
    BY <1>7, CrashExplained
<1>8. ASSUME NEW r \in Replicas, ReadLog(r) \/ FlushLog(r) \/ Start(r) PROVE Explained'
    BY <1>8, LogStepExplained, StartExplained
<1>9. ASSUME NEW r \in Replicas, NEW k \in Kinds, ReadConfig(r, k) \/ WatchFires(r, k)
      PROVE  Explained'
    BY <1>9, ReadConfigExplained, WatchFiresExplained
<1>10. ASSUME NEW k \in Kinds, NEW i \in Items, Edit(k, i) PROVE Explained'
    BY <1>10, EditExplained
<1> QED BY <1>1, <1>2, <1>3, <1>4, <1>5, <1>6, <1>7, <1>8, <1>9, <1>10 DEF Next

\* The inductive invariant.
ConfigInv == BaseInv /\ Explained

LEMMA ConfigInvHolds == Spec => []ConfigInv
<1>1. Init => Explained
    BY InitExplained
<1>2. BaseInv /\ Explained /\ [Next]_vars => Explained'
    BY ExplainedNext DEF BaseInv
<1> QED BY <1>1, <1>2, BaseInvHolds, PTL DEF Spec, ConfigInv

\* What a process dispatches by is what its acknowledged changes and rollbacks add up
\* to, except where a change is under way or was reported as failed, or somebody edited
\* the file (config.service.ts over either store): for any number of processes,
\* requests, items and crashes, whichever answers are lost and however they are ordered.
THEOREM ForceIsExplained == Spec => []InForceExplained
<1>1. ConfigInv => InForceExplained
  <2> SUFFICES ASSUME ConfigInv, NEW r \in up \ raced, NEW k \in Kinds, Readable(r, k),
                      NEW i \in ItemsOf(k)
               PROVE  Explains(r, InForce(r, k), i)
      BY DEF InForceExplained
  <2>1. r \in Replicas \ raced /\ r \in up
      BY DEF ConfigInv, BaseInv, Types, StoreTypes
  <2>2. Holds(InForce(r, k), k, floor[r], open[r])
      BY <2>1 DEF ConfigInv, Explained, Sound
  <2> QED BY <2>2 DEF Holds, Readable, Explains
<1> QED BY <1>1, ConfigInvHolds, PTL

\* With the file store a readable file holds the same, so that a start brings back
\* nothing that was acknowledged as gone and loses nothing acknowledged as saved
\* (FileConfigStore, loadFromFile), however often the process dies within a write.
THEOREM FilesKeepWhatWasAcknowledged == Spec => []AcknowledgedLasts
<1>1. ConfigInv => AcknowledgedLasts
  <2> SUFFICES ASSUME ConfigInv, store = "file", NEW r \in Replicas, NEW k \in Kinds,
                      remote.config[k] \notin {Torn, Null}, NEW i \in ItemsOf(k)
               PROVE  Explains(r, remote.config[k], i)
      BY DEF AcknowledgedLasts
  <2>1. Holds(InStore(remote, k), k, floor[r], open[r])
      BY DEF ConfigInv, Explained, FileSound
  <2> QED BY <2>1 DEF Holds, InStore, Explains
<1> QED BY <1>1, ConfigInvHolds, PTL
=============================================================================
