--------------------------- MODULE ConfigService ---------------------------
(***************************************************************************)
(* The configuration: config.service.ts over its two stores,               *)
(* file-config-store.ts and k8s-config-store.ts.  A change is made in the  *)
(* cached object, written to the store, kept as a numbered version and     *)
(* logged; a version can be rolled back to; the file store is watched.     *)
(*                                                                         *)
(* The handlers are the same for both stores; what differs is who runs     *)
(* between two of their steps.  The file store is synchronous behind its   *)
(* promises, so a request runs to its end unless the process dies          *)
(* (LoopFree).  The Kubernetes store awaits one PATCH for every write, and *)
(* anything can happen between sending it, its application and its answer. *)
(***************************************************************************)
EXTENDS Naturals, Sequences, SequencesExt

CONSTANTS
    Stores,        \* which of "file" and "k8s" CONFIG_STORE may say
    Replicas,      \* processes; several of them only make sense with "k8s"
    Requests,      \* POST, PUT, DELETE and rollback requests of the console
    Items,         \* ids of targets and tag definitions
    Tags,          \* those of tag definitions
    BuiltIn,       \* tag definitions the code creates and will not delete
    MaxVersions,   \* MAX_VERSIONS
    MaxLogs,       \* MAX_OPERATION_LOGS
    Radix,         \* of the numerals in version names: ten
    Faults,        \* subset of FaultKinds
    Null, Torn,    \* an absent value; a file truncated and not rewritten
    MaxChanges,    \* bound: changes, edits and rollbacks begun
    MaxCrashes     \* bound: crashes

FaultKinds == {"write",   \* a store write fails and changes nothing
               "torn",    \* a file write fails after the truncation
               "answer",  \* a PATCH is applied and its answer lost
               "edit"}    \* somebody edits a configuration file

Kinds     == {"callbacks", "tags"}
ItemsOf(k) == IF k = "tags" THEN Tags ELSE Items \ Tags
Versioned == {"callbacks"}       \* the kinds saveConfigVersion is called for

\* A document says of each item which change determined it, 0 for none.
Doc     == [Items -> Nat]
NoItems == [i \in Items |-> 0]
Objects == 1..(Cardinality(Requests) + 2)

\* The file store knows of no other process.
ASSUME ConfigAssumption ==
    /\ Stores \subseteq {"file", "k8s"} /\ Faults \subseteq FaultKinds
    /\ "file" \in Stores => \A r, p \in Replicas : r = p
    /\ BuiltIn \subseteq Tags /\ Tags \subseteq Items
    /\ Null \notin Items \cup Objects \cup Doc /\ Torn \notin Doc \cup {Null}
    /\ IsFiniteSet(Requests) /\ Requests # {}
    /\ MaxVersions \in Nat \ {0} /\ MaxLogs \in Nat \ {0} /\ Radix \in Nat \ {0, 1}
    /\ MaxChanges \in Nat /\ MaxCrashes \in Nat

VARIABLES
    store,      \* getStoreType()
    remote,     \* what the directory or the ConfigMap holds
    mirror,     \* K8sConfigStore.cache: each process's copy of the ConfigMap
    up,         \* running processes
    cache,      \* callbacksCache and tagsCache: an object, or Null
    heap,       \* what each process's objects hold
    req,        \* where each request is
    opLog,      \* operationLogs in memory, newest first
    logTimer,   \* processes whose logWriteTimer runs
    watch,      \* "off", "idle" or "armed": watcher and debounce timer of a file
    changes,    \* number of changes begun
    crashes,    \* number of crashes
    deleted,    \* the changes that are deletions
    used,       \* ids ever given
    raced,      \* history: processes in which a rollback met another change
    floor,      \* history: what the acknowledged changes of a process add up to
    open,       \* history: <<item, change>> begun and not acknowledged
    acks,       \* history: acknowledged requests, newest first
    runAcks     \* history: how many of them since the start

memory  == <<cache, heap, opLog, logTimer>>
history == <<floor, open, acks, runAcks>>
clock   == <<changes, crashes, deleted, used, raced>>
vars == <<store, remote, mirror, up, cache, heap, req, opLog, logTimer, watch,
          changes, crashes, deleted, used, raced, floor, open, acks, runAcks>>
-----------------------------------------------------------------------------
Idle == [stage |-> "idle"]
Live(q) == req[q].stage # "idle"

\* An orphan's process has died; only its PATCH is still under way.
Orphan(q) == req[q].stage = "orphan"
InFlight(r) == {q \in Requests : Live(q) /\ ~Orphan(q) /\ req[q].rep = r}

\* The file store never yields: no other code of the process runs meanwhile.
LoopFree(r) == store = "file" => InFlight(r) = {}

\* What a read of the store sees.
View(r) == IF store = "file" THEN remote ELSE mirror[r]

\* Mutant of Stored: a file that cannot be parsed is read as an empty one.
StoredOrEmpty(r, k) ==
    IF View(r).config[k] \in {Null, Torn} THEN NoItems ELSE View(r).config[k]

Stored(r, k) == IF View(r).config[k] = Null THEN NoItems ELSE View(r).config[k]

\* What the next dispatch or GET works with.
InForce(r, k) == IF cache[r][k] = Null THEN Stored(r, k) ELSE heap[r][cache[r][k]]

Present(doc, i) == doc[i] # 0 /\ doc[i] \notin deleted

FreeObject(r) ==
    CHOOSE o \in Objects : /\ \A k \in Kinds : cache[r][k] # o
                           /\ \A q \in InFlight(r) : req[q].obj # o

\* getCallbacksConfig, getTagsConfig: an empty cache is filled from the store.
\* The object they return, and the two caches and objects afterwards.
ObjectOf(r, k) == IF cache[r][k] = Null THEN FreeObject(r) ELSE cache[r][k]
Filled(r, k)   == [cache EXCEPT ![r][k] = ObjectOf(r, k)]

\* A file that cannot be parsed makes every read throw.
Readable(r, k) == InForce(r, k) # Torn
-----------------------------------------------------------------------------
(***************************************************************************)
(* Writes.  A request in stage "config", "version" or "prune" has one      *)
(* write of the store under way; io says whether the store has applied it. *)
(***************************************************************************)
Put(f, n, v) == [m \in DOMAIN f \cup {n} |-> IF m = n THEN v ELSE f[m]]
Drop(f, n)   == [m \in DOMAIN f \ {n} |-> f[m]]

\* The store S once the write of request w is applied, with v in place of data.
Written(S, w, v) ==
    CASE w.write = "config"  -> [S EXCEPT !.config[w.kind] = v]
      [] w.write = "version" -> [S EXCEPT !.versions = Put(@, w.version, v)]
      [] w.write = "prune"   -> [S EXCEPT !.versions = Drop(@, w.prune[1])]

\* fs.watch reports a written file; the debounce timer starts again.
Rearmed(w) ==
    IF w.write = "config" /\ watch[w.kind] # "off"
    THEN [watch EXCEPT ![w.kind] = "armed"] ELSE watch

\* The store applies the write.
Apply(q) ==
    /\ Live(q) /\ req[q].io = "sent"
    /\ remote' = Written(remote, req[q], req[q].value)
    /\ watch' = Rearmed(req[q])
    /\ req' = [req EXCEPT ![q] = IF Orphan(q) THEN Idle ELSE [@ EXCEPT !.io = "applied"]]
    /\ UNCHANGED <<store, mirror, up, memory, clock, history>>

\* The PATCH of a dead process is never applied.
OrphanVanishes(q) ==
    /\ Orphan(q)
    /\ req' = [req EXCEPT ![q] = Idle]
    /\ UNCHANGED <<store, remote, mirror, up, memory, watch, clock, history>>

\* Mutant of Logged: the entry goes to the end of the list, which is cut there.
LoggedLast(log, c) == SubSeq(Append(log, c), 1, IF Len(log) < MaxLogs THEN Len(log) + 1 ELSE MaxLogs)

\* addLog: newest first, at most MaxLogs entries.
Logged(log, c) ==
    SubSeq(<<c>> \o log, 1, IF Len(log) < MaxLogs THEN Len(log) + 1 ELSE MaxLogs)

\* addLog, and the answer to the request.
Acknowledge(q) ==
    LET w == req[q]  r == w.rep
    IN  /\ opLog' = [opLog EXCEPT ![r] = Logged(@, w.change)]
        /\ logTimer' = logTimer \cup {r}
        /\ req' = [req EXCEPT ![q] = Idle]
        /\ acks' = [acks EXCEPT ![r] = <<[change |-> w.change, item |-> w.item]>> \o @]
        /\ runAcks' = [runAcks EXCEPT ![r] = @ + 1]
        /\ IF w.item = Null
           THEN /\ floor' = [floor EXCEPT ![r] =
                               [i \in Items |-> IF i \in ItemsOf(w.kind) THEN w.value[i] ELSE @[i]]]
                /\ open' = [open EXCEPT ![r] = @ \ {<<i, w.value[i]>> : i \in ItemsOf(w.kind)}]
           ELSE /\ floor' = [floor EXCEPT ![r][w.item] = IF w.change > @ THEN w.change ELSE @]
                /\ open' = [open EXCEPT ![r] =
                              {e \in @ : e[1] # w.item \/ e[2] > w.change}]
-----------------------------------------------------------------------------
(***************************************************************************)
(* Changing an item.                                                       *)
(***************************************************************************)
Begin(q, r, k) ==
    /\ r \in up /\ ~Live(q) /\ LoopFree(r) /\ changes < MaxChanges
    /\ Readable(r, k)
    /\ changes' = changes + 1

\* addCallback, updateCallback, addTag, updateTag (remove = FALSE), deleteCallback
\* and deleteTag, up to the write: the cached object itself is changed, and the
\* write serialises it as it is now.  An unknown id and a built-in tag are
\* refused before anything happens.
Change(q, r, k, i, remove) ==
    LET o   == ObjectOf(r, k)
        doc == [InForce(r, k) EXCEPT ![i] = changes + 1]
    IN  /\ Begin(q, r, k) /\ i \in ItemsOf(k)
        /\ IF remove THEN Present(InForce(r, k), i) /\ i \notin BuiltIn
           ELSE Present(InForce(r, k), i) \/ i \notin used
        /\ cache' = Filled(r, k)
        /\ heap' = [heap EXCEPT ![r][o] = doc]
        /\ req' = [req EXCEPT ![q] =
                     [stage |-> "config", write |-> "config", io |-> "sent", rep |-> r,
                      kind |-> k, item |-> i, change |-> changes + 1, obj |-> o,
                      value |-> doc, version |-> 0, prune |-> <<>>]]
        /\ used' = used \cup {i}
        /\ deleted' = IF remove THEN deleted \cup {changes + 1} ELSE deleted
        /\ open' = [open EXCEPT ![r] = @ \cup {<<i, changes + 1>>}]
        /\ raced' = raced \cup {p \in {r} : \E x \in InFlight(p) : req[x].item = Null}
        /\ UNCHANGED <<store, remote, mirror, up, opLog, logTimer, watch, crashes,
                       floor, acks, runAcks>>

\* The store lists keys in the order of their strings: v1, v10, v11, v2.
Padded(n) == IF n < Radix THEN n * Radix * Radix
             ELSE IF n < Radix * Radix THEN n * Radix ELSE n
Before(m, n) == Padded(m) < Padded(n) \/ (Padded(m) = Padded(n) /\ m < n)
Listed(r) == SetToSortSeq(DOMAIN View(r).versions, Before)

\* saveConfigVersion up to its write: list, number the version one past the
\* length of the list, and write what the object holds by now.
StartVersion(q, files) ==
    LET w == req[q]
    IN  req' = [req EXCEPT ![q] =
                  [w EXCEPT !.stage = "version", !.write = "version", !.io = "sent",
                            !.value = heap[w.rep][w.obj], !.version = Len(files) + 1,
                            !.prune = SubSeq(files, 1, (Len(files) + 1) - MaxVersions)]]

\* The write's promise resolves: the mirror follows, the cache is the object.
ConfigSaved(q) ==
    LET w == req[q]  r == w.rep
    IN  /\ w.stage = "config" /\ w.io = "applied"
        /\ mirror' = IF store = "file" THEN mirror
                     ELSE [mirror EXCEPT ![r] = Written(@, w, w.value)]
        /\ IF w.item = Null
           THEN cache' = [cache EXCEPT ![r][w.kind] = Null]
           ELSE cache' = [cache EXCEPT ![r][w.kind] = w.obj]
        /\ IF w.item # Null /\ w.kind \in Versioned
           THEN /\ StartVersion(q, Listed(r))
                /\ UNCHANGED <<opLog, logTimer, history>>
           ELSE Acknowledge(q)
        /\ UNCHANGED <<store, remote, up, heap, watch, clock>>

\* Go on to prune what the list had too many, or answer.
AfterVersion(q, rest) ==
    IF rest = <<>> THEN Acknowledge(q)
    ELSE /\ req' = [req EXCEPT ![q].stage = "prune", ![q].write = "prune",
                               ![q].io = "sent", ![q].prune = rest]
         /\ UNCHANGED <<opLog, logTimer, history>>

VersionSaved(q) ==
    LET w == req[q]
    IN  /\ w.stage = "version" /\ w.io = "applied"
        /\ mirror' = IF store = "file" THEN mirror
                     ELSE [mirror EXCEPT ![w.rep] = Written(@, w, w.value)]
        /\ AfterVersion(q, w.prune)
        /\ UNCHANGED <<store, remote, up, cache, heap, watch, clock>>

Pruned(q) ==
    LET w == req[q]
    IN  /\ w.stage = "prune" /\ w.io = "applied"
        /\ mirror' = IF store = "file" THEN mirror
                     ELSE [mirror EXCEPT ![w.rep] = Written(@, w, w.value)]
        /\ AfterVersion(q, Tail(w.prune))
        /\ UNCHANGED <<store, remote, up, cache, heap, watch, clock>>

\* A write is rejected.  The handler throws and the request ends with 500, but
\* the object keeps the change; a failed removal is ignored.
WriteFails(q) ==
    LET w == req[q]
    IN  /\ Live(q) /\ ~Orphan(q)
        /\ \/ "write" \in Faults /\ w.io = "sent" /\ UNCHANGED <<remote, watch>>
           \/ /\ "torn" \in Faults /\ store = "file" /\ w.io = "sent" /\ w.stage # "prune"
              /\ remote' = Written(remote, w, Torn)
              /\ watch' = Rearmed(w)
           \/ /\ "answer" \in Faults /\ store = "k8s" /\ w.io = "applied"
              /\ UNCHANGED <<remote, watch>>
        /\ IF w.stage = "prune" THEN AfterVersion(q, Tail(w.prune))
           ELSE req' = [req EXCEPT ![q] = Idle] /\ UNCHANGED <<opLog, logTimer, history>>
        /\ UNCHANGED <<store, mirror, up, cache, heap, clock>>
-----------------------------------------------------------------------------
(***************************************************************************)
(* Rollback, reads, edits and timers.                                      *)
(***************************************************************************)

\* rollbackConfig up to its write: what the version holds is written back.
Rollback(q, r, k, n) ==
    LET V == View(r).versions
    IN  /\ r \in up /\ ~Live(q) /\ LoopFree(r) /\ changes < MaxChanges
        /\ k \in Versioned /\ n \in DOMAIN V /\ V[n] # Torn
        /\ changes' = changes + 1
        /\ req' = [req EXCEPT ![q] =
                     [stage |-> "config", write |-> "config", io |-> "sent", rep |-> r,
                      kind |-> k, item |-> Null, change |-> changes + 1, obj |-> Null,
                      value |-> V[n], version |-> n, prune |-> <<>>]]
        /\ open' = [open EXCEPT ![r] = @ \cup {<<i, V[n][i]>> : i \in ItemsOf(k)}]
        /\ raced' = raced \cup {p \in {r} : InFlight(p) # {}}
        /\ UNCHANGED <<store, remote, mirror, up, memory, watch, crashes, deleted, used,
                       floor, acks, runAcks>>

\* A dispatch or a GET fills the cache.
ReadConfig(r, k) ==
    /\ r \in up /\ LoopFree(r) /\ cache[r][k] = Null /\ Readable(r, k)
    /\ cache' = Filled(r, k)
    /\ heap' = [heap EXCEPT ![r][FreeObject(r)] = Stored(r, k)]
    /\ UNCHANGED <<store, remote, mirror, up, req, opLog, logTimer, watch, clock, history>>

\* getOperationLogs: an empty list in memory is filled from the store.
ShownLog(r) == IF opLog[r] = <<>> THEN View(r).log ELSE opLog[r]
ReadLog(r) ==
    /\ r \in up /\ LoopFree(r) /\ opLog[r] = <<>>
    /\ opLog' = [opLog EXCEPT ![r] = View(r).log]
    /\ UNCHANGED <<store, remote, mirror, up, cache, heap, req, logTimer, watch, clock, history>>

\* flushLogsToFile replaces the stored list by the one in memory.
FlushLog(r) ==
    /\ r \in up /\ LoopFree(r) /\ r \in logTimer
    /\ logTimer' = logTimer \ {r}
    /\ \/ /\ remote' = [remote EXCEPT !.log = opLog[r]]
          /\ mirror' = IF store = "file" THEN mirror ELSE [mirror EXCEPT ![r].log = opLog[r]]
       \/ "write" \in Faults /\ UNCHANGED <<remote, mirror>>
    /\ UNCHANGED <<store, up, cache, heap, req, opLog, watch, clock, history>>

\* Somebody edits a file in place.
Edit(k, i) ==
    LET old == IF remote.config[k] = Torn THEN NoItems ELSE remote.config[k]
        new == [old EXCEPT ![i] = changes + 1]
    IN  /\ "edit" \in Faults /\ store = "file" /\ changes < MaxChanges /\ i \in ItemsOf(k)
        /\ \A r \in up : LoopFree(r)
        /\ remote.config[k] # Null
        /\ changes' = changes + 1
        /\ remote' = [remote EXCEPT !.config[k] = new]
        /\ watch' = IF watch[k] = "off" THEN watch ELSE [watch EXCEPT ![k] = "armed"]
        /\ used' = used \cup {i}
        /\ open' = [r \in Replicas |-> open[r] \cup {<<j, new[j]>> : j \in ItemsOf(k)}]
        /\ UNCHANGED <<store, mirror, up, memory, req, crashes, deleted, raced, floor, acks,
                       runAcks>>

\* Mutant of Reload: the watcher's callback fills the cache without emptying it.
ReloadIfEmpty(r, k) ==
    IF cache[r][k] # Null \/ Stored(r, k) = Torn THEN UNCHANGED <<cache, heap>>
    ELSE /\ cache' = Filled(r, k)
         /\ heap' = [heap EXCEPT ![r][FreeObject(r)] = Stored(r, k)]

\* The cache is emptied and filled again; it stays empty if that fails.
Reload(r, k) ==
    IF Stored(r, k) = Torn THEN cache' = [cache EXCEPT ![r][k] = Null] /\ UNCHANGED heap
    ELSE /\ cache' = [cache EXCEPT ![r][k] = FreeObject(r)]
         /\ heap' = [heap EXCEPT ![r][FreeObject(r)] = Stored(r, k)]

\* From here on what the file says is what somebody expects to be in force.
WatchFires(r, k) ==
    /\ r \in up /\ LoopFree(r) /\ watch[k] = "armed"
    /\ watch' = [watch EXCEPT ![k] = "idle"]
    /\ Reload(r, k)
    /\ IF Stored(r, k) = Torn THEN UNCHANGED <<floor, open>>
       ELSE /\ floor' = [floor EXCEPT ![r] =
                           [i \in Items |-> IF i \in ItemsOf(k) THEN Stored(r, k)[i] ELSE @[i]]]
            /\ open' = [open EXCEPT ![r] = {e \in @ : e[1] \notin ItemsOf(k)}]
    /\ UNCHANGED <<store, remote, mirror, up, req, opLog, logTimer, clock, acks, runAcks>>
-----------------------------------------------------------------------------
(***************************************************************************)
(* Crash and start.                                                        *)
(***************************************************************************)
LoseMemory(r) ==
    /\ crashes < MaxCrashes /\ crashes' = crashes + 1
    /\ up' = up \ {r}
    /\ cache' = [cache EXCEPT ![r] = [k \in Kinds |-> Null]]
    /\ heap' = [heap EXCEPT ![r] = [o \in Objects |-> NoItems]]
    /\ opLog' = [opLog EXCEPT ![r] = <<>>]
    /\ logTimer' = logTimer \ {r}
    /\ mirror' = [mirror EXCEPT ![r] = Null]
    /\ req' = [q \in Requests |->
                 IF q \notin InFlight(r) THEN req[q]
                 ELSE IF store = "k8s" /\ req[q].io = "sent"
                      THEN [req[q] EXCEPT !.stage = "orphan", !.obj = Null] ELSE Idle]
    /\ runAcks' = [runAcks EXCEPT ![r] = 0]
    /\ UNCHANGED <<store, changes, deleted, used, raced, floor, open, acks>>

Crash(r) ==
    /\ r \in up
    /\ LoseMemory(r)
    /\ watch' = IF store = "file" THEN [k \in Kinds |-> "off"] ELSE watch
    /\ UNCHANGED remote

\* Killed inside writeFileSync, between the truncation and the write.
CrashInWrite(q) ==
    /\ Live(q) /\ store = "file" /\ req[q].io = "sent" /\ req[q].stage # "prune"
    /\ LoseMemory(req[q].rep)
    /\ watch' = [k \in Kinds |-> "off"]
    /\ remote' = Written(remote, req[q], Torn)

MissingBuiltIns(doc) == {i \in BuiltIn : ~Present(doc, i)}

\* bootstrap: the ConfigMap is loaded, ensureBuiltInTags adds what is missing,
\* and the files that exist by then are watched.  Unreadable tags end the start.
Start(r) ==
    LET tags    == IF remote.config["tags"] = Null THEN NoItems ELSE remote.config["tags"]
        missing == MissingBuiltIns(tags)
        doc     == [i \in Items |-> IF i \in missing THEN changes + 1 ELSE tags[i]]
        booted  == IF missing = {} THEN remote ELSE [remote EXCEPT !.config["tags"] = doc]
    IN  /\ r \notin up /\ tags # Torn
        /\ up' = up \cup {r}
        /\ changes' = IF missing = {} THEN changes ELSE changes + 1
        /\ used' = used \cup missing
        /\ remote' = booted
        /\ mirror' = IF store = "file" THEN mirror ELSE [mirror EXCEPT ![r] = booted]
        /\ cache' = [cache EXCEPT ![r]["tags"] = 1]
        /\ heap' = [heap EXCEPT ![r][1] = doc]
        /\ watch' = IF store = "file"
                    THEN [k \in Kinds |-> IF booted.config[k] = Null THEN "off" ELSE "idle"]
                    ELSE watch
        /\ floor' = [floor EXCEPT ![r] =
                       [i \in Items |->
                          IF i \in missing THEN changes + 1
                          ELSE IF store = "file" THEN @[i]
                          ELSE IF i \in Tags THEN doc[i]
                          ELSE IF booted.config["callbacks"] = Null THEN 0
                          ELSE booted.config["callbacks"][i]]]
        /\ UNCHANGED <<store, req, opLog, logTimer, crashes, deleted, raced, open, acks,
                       runAcks>>

Init ==
    /\ store \in Stores
    /\ \E c \in {Null, NoItems} :
         remote = [config |-> [k \in Kinds |-> IF k = "tags" THEN Null ELSE c],
                   versions |-> <<>>, log |-> <<>>]
    /\ mirror = [r \in Replicas |-> Null]
    /\ up = {} /\ crashes = 0 /\ changes = 0 /\ deleted = {} /\ used = {} /\ raced = {}
    /\ cache = [r \in Replicas |-> [k \in Kinds |-> Null]]
    /\ heap = [r \in Replicas |-> [o \in Objects |-> NoItems]]
    /\ req = [q \in Requests |-> Idle]
    /\ opLog = [r \in Replicas |-> <<>>] /\ logTimer = {}
    /\ watch = [k \in Kinds |-> "off"]
    /\ floor = [r \in Replicas |-> NoItems] /\ open = [r \in Replicas |-> {}]
    /\ acks = [r \in Replicas |-> <<>>] /\ runAcks = [r \in Replicas |-> 0]

Proceed(q) == ConfigSaved(q) \/ VersionSaved(q) \/ Pruned(q)

Next ==
    \/ \E q \in Requests, r \in Replicas, k \in Kinds :
         \/ \E i \in Items, remove \in BOOLEAN : Change(q, r, k, i, remove)
         \/ \E n \in 1..MaxChanges : Rollback(q, r, k, n)
    \/ \E q \in Requests :
         Apply(q) \/ Proceed(q) \/ WriteFails(q) \/ OrphanVanishes(q) \/ CrashInWrite(q)
    \/ \E r \in Replicas :
         \/ ReadLog(r) \/ FlushLog(r) \/ Crash(r) \/ Start(r)
         \/ \E k \in Kinds : ReadConfig(r, k) \/ WatchFires(r, k)
    \/ \E k \in Kinds, i \in Items : Edit(k, i)

Spec == Init /\ [][Next]_vars
-----------------------------------------------------------------------------
(***************************************************************************)
(* Properties.                                                             *)
(***************************************************************************)
Explains(r, doc, i) == doc[i] = floor[r][i] \/ <<i, doc[i]>> \in open[r]

\* What a process dispatches by is what its acknowledged changes and rollbacks
\* add up to, except where a change is under way or was reported as failed, or
\* somebody edited the file: however answers are ordered, writes fail and caches
\* are dropped and filled.  (The guide: a saved configuration takes effect at
\* once.)  Once the debounce time of an edited file is over, what the file says is
\* in force.  A rollback that meets another change in one process is left out.
InForceExplained ==
    \A r \in up \ raced : \A k \in Kinds :
        Readable(r, k) => \A i \in ItemsOf(k) : Explains(r, InForce(r, k), i)

\* With the file store the same holds of the file, so that a restart brings back
\* nothing that was acknowledged as gone and loses nothing acknowledged as saved,
\* unless a write was cut off and the file is unreadable.
AcknowledgedLasts ==
    store = "file" =>
        \A r \in Replicas, k \in Kinds :
            remote.config[k] \notin {Torn, Null} =>
                \A i \in ItemsOf(k) : Explains(r, remote.config[k], i)

VersionedAcks(r) == SelectSeq(acks[r], LAMBDA c : c.item \in Items \ Tags)
Kept(n, i, c) == remote.versions[n] # Torn /\ remote.versions[n][i] = c

\* Every change of the last MaxVersions ones has a version to roll back to
\* (USER_GUIDE.md: a new version is created with every modification;
\* config.service.ts: prune the oldest versions if exceeding the limit).
RecentRestorable ==
    (store = "file" /\ \A q \in Requests : ~Live(q)) =>
        \A r \in Replicas :
            \A j \in DOMAIN VersionedAcks(r) :
                j <= MaxVersions => \E n \in DOMAIN remote.versions :
                    Kept(n, VersionedAcks(r)[j].item, VersionedAcks(r)[j].change)

\* The operation log a process shows begins with what it acknowledged since its
\* start, newest first, as far as the limit allows: whether or not the stored
\* list was read in between, could be written, or held older entries.
LogTellsThisRun ==
    \A r \in up :
        LET n == IF runAcks[r] < MaxLogs THEN runAcks[r] ELSE MaxLogs
        IN  /\ Len(ShownLog(r)) >= n
            /\ \A j \in 1..n : ShownLog(r)[j] = acks[r][j].change
=============================================================================
