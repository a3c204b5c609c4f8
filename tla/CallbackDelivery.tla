-------------------------- MODULE CallbackDelivery --------------------------
(***************************************************************************)
(* The path of one callback through the dispatcher: the platform's POST is *)
(* persisted in a write-ahead log (WAL) file, answered with 200, fanned    *)
(* out to the configured targets and forgotten; a process that starts      *)
(* again scans the WAL directory and dispatches what an earlier process    *)
(* left behind.  The module composes callback.controller.ts,               *)
(* wal.service.ts, dispatch.service.ts and the start-up part of app.ts.    *)
(*                                                                         *)
(* Node.js runs one macrotask at a time.  handleCallback never awaits, so  *)
(* between the write of the WAL file and the 200 no other code of the      *)
(* process runs (LoopFree), but the process may be killed there.           *)
(***************************************************************************)
EXTENDS Naturals, FiniteSets

CONSTANTS
    Requests,      \* POST /api/callback requests that pass verification
    Msgs,          \* decrypted messages; a retransmission repeats one
    Targets,       \* dispatch targets (DispatchConfig)
    Ids,           \* MsgIds after sanitising ('unknown' when absent)
    MsgOf,         \* [Requests -> Msgs]
    SafeId,        \* [Msgs -> Ids]
    Matches,       \* [Msgs -> SUBSET Targets]: what shouldDispatch lets through
    Tagged,        \* targets with tags or match rules: they read the tag config
    MaxAttempts,   \* WAL_MAX_ATTEMPTS
    MaxAge,        \* WAL_MAX_AGE_MS, in units of the model's clock
    Faults,        \* the faults the environment may inject, see FaultKinds
    Recovery,      \* the worker that runs recoverPendingDispatches
    NoFile,        \* "no WAL file"
    MaxNow,        \* bound: clock ticks
    MaxCrashes     \* bound: process crashes

FaultKinds == {"walWrite",    \* writeWal throws (disk full, permissions)
               "walRemove",   \* unlink fails in removeWal, error swallowed
               "walUpdate",   \* updateWalAttempts fails, error swallowed
               "tornUpdate",  \* killed between truncate and write of an update
               "rename",      \* rename into dead-letter fails, file unlinked
               "configLoad",  \* the callbacks config cannot be read or parsed
               "tagsLoad",    \* the tag config cannot be read or parsed
               "collide"}     \* two callbacks with one sanitised id in one ms

ASSUME ConstantsAssumption ==
    /\ MsgOf \in [Requests -> Msgs]
    /\ SafeId \in [Msgs -> Ids]
    /\ Matches \in [Msgs -> SUBSET Targets]
    /\ Tagged \subseteq Targets
    /\ MaxAttempts \in Nat \ {0}
    /\ MaxAge \in Nat /\ MaxNow \in Nat /\ MaxCrashes \in Nat
    /\ Faults \subseteq FaultKinds
    /\ Recovery \notin Requests
    /\ NoFile \notin Ids \X Nat

VARIABLES
    up,         \* the process runs
    now,        \* Date.now()
    crashes,    \* number of crashes so far
    wal,        \* the WAL directory: file name -> entry
    dead,       \* its dead-letter subdirectory: file name -> entry
    phase,      \* where each worker is
    path,       \* capturedWalPath of each request; kept after a crash as history
    acked,      \* requests answered with 200
    todo,       \* targets a running dispatchMessage still waits for
    pending,    \* entries recoverPendingDispatches scanned and has not finished
    current,    \* the file recovery is dispatching
    failed,     \* hasFailures of that dispatch
    enabled,    \* targets enabled in the callbacks config
    cached,     \* which of the two config caches are filled
    stable,     \* history: targets enabled ever since the first start
    attempted,  \* history: pairs for which dispatchToTarget returned a result
    runs        \* history: dispatchMessage calls for each message

disk     == <<wal, dead>>
intake   == <<path, acked>>
recovery == <<pending, current, failed>>
config   == <<enabled, cached, stable>>
vars == <<up, now, crashes, wal, dead, phase, path, acked, todo, pending,
          current, failed, enabled, cached, stable, attempted, runs>>
-----------------------------------------------------------------------------
Workers == Requests \cup {Recovery}
Files   == Ids \X Nat
Caches  == {"callbacks", "tags"}
Entry   == [msg : Msgs, attempts : Nat, created : Nat,
            content : {"whole", "torn"}]

\* Mutant of NewEntry: writeWal leaves "attempts: 0" out.
EntryWithoutAttempts(m) == [msg |-> m, created |-> now, content |-> "whole"]

NewEntry(m)     == [msg |-> m, attempts |-> 0, created |-> now,
                    content |-> "whole"]
Torn(e)         == [e EXCEPT !.content = "torn"]
IsTorn(e)       == e.content = "torn"

\* Mutant of WalFileName: the name lacks the time stamp.
FileNameWithoutTime(m) == <<SafeId[m], 0>>

WalFileName(m)  == <<SafeId[m], now>>
Put(d, f, e)    == [g \in DOMAIN d \cup {f} |-> IF g = f THEN e ELSE d[g]]
Drop(d, F)      == [g \in DOMAIN d \ F |-> d[g]]
Empty           == [f \in {} |-> {}]

\* The message a worker dispatches.
Msg(w) == IF w = Recovery THEN pending[current].msg ELSE MsgOf[w]

\* No handleCallback is between its WAL write and its res.status(200).
LoopFree == \A r \in Requests : phase[r] # "persisted"

\* The request's dispatch is still held in the memory of the running process.
Live(r) == phase[r] \in {"persisted", "queued", "posting"}

Init ==
    /\ up = TRUE /\ now = 0 /\ crashes = 0
    /\ wal = Empty /\ dead = Empty
    /\ phase = [w \in Workers |-> IF w = Recovery THEN "idle" ELSE "unsent"]
    /\ path = [r \in Requests |-> NoFile]
    /\ acked = {}
    /\ todo = [w \in Workers |-> {}]
    /\ pending = Empty /\ current = NoFile /\ failed = FALSE
    /\ enabled \in SUBSET Targets
    /\ stable = enabled
    /\ cached = {"tags"}
    /\ attempted = {}
    /\ runs = [m \in Msgs |-> 0]
-----------------------------------------------------------------------------
(***************************************************************************)
(* Intake: handleCallback from a successful decryption on.                 *)
(***************************************************************************)

\* A request's file does not exist yet, unless the collision is let happen.
FreshName(r) == "collide" \in Faults \/ WalFileName(MsgOf[r]) \notin DOMAIN wal

\* writeWal: the entry reaches the disk; or it throws before the file exists,
\* or after open(..., 'w') created it.  Either failure is only logged.
WriteWal(r) ==
    LET f == WalFileName(MsgOf[r])
        e == NewEntry(MsgOf[r])
    IN  \/ /\ wal' = Put(wal, f, e)
           /\ path' = [path EXCEPT ![r] = f]
        \/ /\ "walWrite" \in Faults
           /\ UNCHANGED <<wal, path>>
        \/ /\ "walWrite" \in Faults
           /\ wal' = Put(wal, f, Torn(e))
           /\ UNCHANGED path

Receive(r) ==
    /\ up /\ LoopFree
    /\ phase[r] = "unsent" /\ FreshName(r)
    /\ WriteWal(r)
    /\ phase' = [phase EXCEPT ![r] = "persisted"]
    /\ UNCHANGED <<up, now, crashes, dead, acked, todo, recovery, config,
                   attempted, runs>>

\* res.status(200), then setImmediate queues the dispatch.
Reply(r) ==
    /\ up /\ phase[r] = "persisted"
    /\ acked' = acked \cup {r}
    /\ phase' = [phase EXCEPT ![r] = "queued"]
    /\ UNCHANGED <<up, now, crashes, disk, path, todo, recovery, config,
                   attempted, runs>>
-----------------------------------------------------------------------------
(***************************************************************************)
(* dispatchMessage, run for a fresh callback and by recovery alike.        *)
(***************************************************************************)

\* Mutant of FanOut: every target with tags is skipped.
FanOutWithoutTags(m) == {(enabled \cap Matches[m]) \ Tagged}

\* The targets whose shouldDispatch answers yes.  When the tag config cannot
\* be loaded, safeCheckShouldDispatch turns the exception into a skip.
FanOut(m) ==
    {enabled \cap Matches[m]} \cup
    (IF "tagsLoad" \in Faults /\ "tags" \notin cached
     THEN {(enabled \cap Matches[m]) \ S : S \in SUBSET Tagged}
     ELSE {})

\* Loads the callbacks config and starts one dispatchToTarget per match.  A
\* config that cannot be loaded ends the dispatch with an empty result list.
BeginDispatch(w) ==
    /\ up /\ LoopFree /\ phase[w] = "queued"
    /\ phase' = [phase EXCEPT ![w] = "posting"]
    /\ runs' = [runs EXCEPT ![Msg(w)] = @ + 1]
    /\ \/ /\ \E T \in FanOut(Msg(w)) : todo' = [todo EXCEPT ![w] = T]
          /\ cached' = cached \cup {"callbacks"}
       \/ /\ "configLoad" \in Faults /\ "callbacks" \notin cached
          /\ todo' = [todo EXCEPT ![w] = {}]
          /\ UNCHANGED cached
    /\ UNCHANGED <<up, now, crashes, disk, intake, recovery, enabled, stable,
                   attempted>>

\* dispatchToTarget returned a result for target t: success, every retry of
\* httpPostWithRetry used up, or an exception turned into a failure.  Only
\* recovery looks at the verdict (hasFailures).
PostSettles(w, t, success) ==
    /\ up /\ LoopFree /\ phase[w] = "posting" /\ t \in todo[w]
    /\ todo' = [todo EXCEPT ![w] = @ \ {t}]
    /\ attempted' = attempted \cup {<<Msg(w), t>>}
    /\ failed' = (failed \/ (w = Recovery /\ ~success))
    /\ UNCHANGED <<up, now, crashes, disk, phase, intake, pending, current,
                   config, runs>>

\* removeWal swallows its own errors.
RemoveWal(f) ==
    \/ wal' = Drop(wal, {f})
    \/ "walRemove" \in Faults /\ UNCHANGED wal

\* Mutant of FinishCallback: it does not wait for the results.
FinishWithoutWaiting(r) ==
    /\ up /\ LoopFree /\ phase[r] = "posting"
    /\ phase' = [phase EXCEPT ![r] = "done"]
    /\ IF path[r] # NoFile THEN RemoveWal(path[r]) ELSE UNCHANGED wal
    /\ todo' = [todo EXCEPT ![r] = {}]
    /\ UNCHANGED <<up, now, crashes, dead, intake, recovery, config,
                   attempted, runs>>

\* Every target settled: the WAL file goes, whatever the results.
FinishCallback(r) ==
    /\ up /\ LoopFree /\ phase[r] = "posting" /\ todo[r] = {}
    /\ phase' = [phase EXCEPT ![r] = "done"]
    /\ IF path[r] # NoFile THEN RemoveWal(path[r]) ELSE UNCHANGED wal
    /\ UNCHANGED <<up, now, crashes, dead, intake, todo, recovery, config,
                   attempted, runs>>
-----------------------------------------------------------------------------
(***************************************************************************)
(* Crash, restart and recoverPendingDispatches.                            *)
(***************************************************************************)

\* Everything the process held in memory is gone.
LoseMemory ==
    /\ up' = FALSE /\ crashes' = crashes + 1
    /\ todo' = [w \in Workers |-> {}]
    /\ pending' = Empty /\ current' = NoFile /\ failed' = FALSE
    /\ cached' = {}
    /\ UNCHANGED <<now, dead, intake, enabled, stable, attempted, runs>>

MayCrash == up /\ crashes < MaxCrashes

PhasesAfterCrash(dying) ==
    [w \in Workers |-> IF w = Recovery THEN "idle"
                       ELSE IF w \in dying \/ Live(w) THEN "lost" ELSE phase[w]]

Crash ==
    /\ MayCrash
    /\ phase' = PhasesAfterCrash({})
    /\ UNCHANGED wal
    /\ LoseMemory

\* Killed inside writeWal, after open and before the data is on disk.
CrashInWriteWal(r) ==
    /\ MayCrash /\ LoopFree /\ phase[r] = "unsent" /\ FreshName(r)
    /\ wal' = Put(wal, WalFileName(MsgOf[r]), Torn(NewEntry(MsgOf[r])))
    /\ phase' = PhasesAfterCrash({r})
    /\ LoseMemory

\* Mutant of MoveToDeadLetter: the file is unlinked and nothing is kept.
UnlinkInsteadOfMove(F) == wal' = Drop(wal, F) /\ UNCHANGED dead

\* moveToDeadLetter: rename, or unlink when the rename fails.
MoveToDeadLetter(F) ==
    /\ wal' = Drop(wal, F)
    /\ \E U \in IF "rename" \in Faults THEN SUBSET F ELSE {{}} :
         dead' = [f \in DOMAIN dead \cup ((F \cap DOMAIN wal) \ U) |->
                    IF f \in (F \cap DOMAIN wal) \ U THEN wal[f] ELSE dead[f]]

TornFiles == {f \in DOMAIN wal : IsTorn(wal[f])}

\* Mutant of Restart: the scan skips files that were dispatched before.
RestartSkippingRetried ==
    /\ ~up
    /\ up' = TRUE /\ now' = now + 1
    /\ MoveToDeadLetter(TornFiles)
    /\ pending' = Drop(wal, TornFiles \cup {f \in DOMAIN wal : wal[f].attempts > 0})
    /\ cached' = {"tags"}
    /\ UNCHANGED <<crashes, phase, intake, todo, current, failed, enabled,
                   stable, attempted, runs>>

\* bootstrap: initWal and the synchronous scan of recoverPendingDispatches run
\* before the first request can be served; starting takes over a millisecond.
Restart ==
    /\ ~up
    /\ up' = TRUE /\ now' = now + 1
    /\ MoveToDeadLetter(TornFiles)
    /\ pending' = Drop(wal, TornFiles)
    /\ cached' = {"tags"}
    /\ UNCHANGED <<crashes, phase, intake, todo, current, failed, enabled,
                   stable, attempted, runs>>

Expired(e)   == now - e.created > MaxAge
Exhausted(e) == e.attempts >= MaxAttempts

RecoveryTakes(f) == up /\ LoopFree /\ current = NoFile /\ f \in DOMAIN pending

\* Too old, or dispatched too often: to dead-letter without a dispatch.
RecoverGivesUp(f) ==
    /\ RecoveryTakes(f)
    /\ Expired(pending[f]) \/ Exhausted(pending[f])
    /\ MoveToDeadLetter({f})
    /\ pending' = Drop(pending, {f})
    /\ UNCHANGED <<up, now, crashes, phase, intake, todo, current, failed,
                   config, attempted, runs>>

MayRecover(f) ==
    RecoveryTakes(f) /\ ~Expired(pending[f]) /\ ~Exhausted(pending[f])

\* Mutant of Bumped: entry.attempts++ is missing.
NotBumped(e) == e

Bumped(e) == [e EXCEPT !.attempts = @ + 1]

\* entry.attempts++, updateWalAttempts, then dispatchFn.
RecoverStarts(f) ==
    /\ MayRecover(f)
    /\ pending' = [pending EXCEPT ![f] = Bumped(@)]
    /\ \/ wal' = Put(wal, f, Bumped(pending[f]))
       \/ "walUpdate" \in Faults /\ UNCHANGED wal
    /\ current' = f /\ failed' = FALSE
    /\ phase' = [phase EXCEPT ![Recovery] = "queued"]
    /\ UNCHANGED <<up, now, crashes, dead, intake, todo, config, attempted, runs>>

\* Killed inside updateWalAttempts: writeFileSync truncates before it writes.
CrashInUpdate(f) ==
    /\ MayCrash /\ MayRecover(f) /\ "tornUpdate" \in Faults
    /\ wal' = Put(wal, f, Torn(Bumped(pending[f])))
    /\ phase' = PhasesAfterCrash({})
    /\ LoseMemory

\* Mutant of RecoverFinishes: a failed entry is dispatched again at once.
RetryWithinRecovery ==
    /\ up /\ LoopFree /\ phase[Recovery] = "posting" /\ todo[Recovery] = {}
    /\ IF failed THEN UNCHANGED wal ELSE RemoveWal(current)
    /\ pending' = IF failed THEN pending ELSE Drop(pending, {current})
    /\ current' = NoFile /\ failed' = FALSE
    /\ phase' = [phase EXCEPT ![Recovery] = "idle"]
    /\ UNCHANGED <<up, now, crashes, dead, intake, todo, config, attempted, runs>>

\* allSuccess || !hasFailures removes the file; otherwise it is retained.
RecoverFinishes ==
    /\ up /\ LoopFree /\ phase[Recovery] = "posting" /\ todo[Recovery] = {}
    /\ IF failed THEN UNCHANGED wal ELSE RemoveWal(current)
    /\ pending' = Drop(pending, {current})
    /\ current' = NoFile /\ failed' = FALSE
    /\ phase' = [phase EXCEPT ![Recovery] = "idle"]
    /\ UNCHANGED <<up, now, crashes, dead, intake, todo, config, attempted, runs>>
-----------------------------------------------------------------------------
(***************************************************************************)
(* The configuration as the dispatch sees it, and the clock.               *)
(***************************************************************************)

\* An administrator switches a target on or off (PUT /api/callbacks/:id).
ToggleTarget(t) ==
    /\ up /\ LoopFree
    /\ enabled' = IF t \in enabled THEN enabled \ {t} ELSE enabled \cup {t}
    /\ stable' = stable \cap enabled'
    /\ cached' = cached \cup {"callbacks"}
    /\ UNCHANGED <<up, now, crashes, disk, phase, intake, todo, recovery,
                   attempted, runs>>

\* The file watcher drops a cache and the reload it triggers fails.
ReloadFails(c) ==
    /\ up /\ LoopFree /\ c \in cached
    /\ (IF c = "tags" THEN "tagsLoad" ELSE "configLoad") \in Faults
    /\ cached' = cached \ {c}
    /\ UNCHANGED <<up, now, crashes, disk, phase, intake, todo, recovery,
                   enabled, stable, attempted, runs>>

Tick ==
    /\ now < MaxNow
    /\ now' = now + 1
    /\ UNCHANGED <<up, crashes, disk, phase, intake, todo, recovery, config,
                   attempted, runs>>

Dispatch(w) ==
    \/ BeginDispatch(w)
    \/ \E t \in Targets, success \in BOOLEAN : PostSettles(w, t, success)

Next ==
    \/ \E r \in Requests : Receive(r) \/ Reply(r) \/ FinishCallback(r)
    \/ \E w \in Workers : Dispatch(w)
    \/ Crash \/ Restart
    \/ \E r \in Requests : CrashInWriteWal(r)
    \/ \E f \in DOMAIN pending :
          RecoverGivesUp(f) \/ RecoverStarts(f) \/ CrashInUpdate(f)
    \/ RecoverFinishes
    \/ \E t \in Targets : ToggleTarget(t)
    \/ \E c \in Caches : ReloadFails(c)
    \/ Tick

Spec == Init /\ [][Next]_vars

(***************************************************************************)
(* The event loop runs what is queued; every POST ends, by axios' timeout  *)
(* at the latest; the container runtime restarts a dead process.  Nothing  *)
(* obliges the platform to send, the process to crash, the administrator   *)
(* to act or a request to succeed.                                         *)
(***************************************************************************)
Fairness ==
    /\ \A r \in Requests : WF_vars(Reply(r)) /\ WF_vars(FinishCallback(r))
    /\ \A w \in Workers : WF_vars(Dispatch(w))
    /\ WF_vars(Restart)
    /\ WF_vars(\E f \in DOMAIN pending : RecoverGivesUp(f) \/ RecoverStarts(f))
    /\ WF_vars(RecoverFinishes)

FairSpec == Spec /\ Fairness
-----------------------------------------------------------------------------
(***************************************************************************)
(* Properties.                                                             *)
(***************************************************************************)

IsDirectory(d) == DOMAIN d \subseteq Files /\ \A f \in DOMAIN d : d[f] \in Entry

\* Type invariant of the module's state.
TypeOK ==
    /\ up \in BOOLEAN /\ now \in Nat /\ crashes \in Nat
    /\ IsDirectory(wal) /\ IsDirectory(dead) /\ IsDirectory(pending)
    /\ phase \in [Workers -> {"unsent", "persisted", "queued", "posting",
                              "done", "lost", "idle"}]
    /\ path \in [Requests -> Files \cup {NoFile}]
    /\ acked \subseteq Requests
    /\ todo \in [Workers -> SUBSET Targets]
    /\ current \in Files \cup {NoFile} /\ failed \in BOOLEAN
    /\ enabled \subseteq Targets /\ stable \subseteq Targets
    /\ cached \subseteq Caches
    /\ attempted \subseteq Msgs \X Targets
    /\ runs \in [Msgs -> Nat]

Readable(d, f, m) == f \in DOMAIN d /\ ~IsTorn(d[f]) /\ d[f].msg = m

\* Every matching target that was enabled all along got its HTTP attempts.
Attempted(m) == \A t \in Matches[m] \cap stable : <<m, t>> \in attempted

\* A callback whose file was written before the 200 is, from the 200 on and
\* across any crash, readable in the WAL or in dead-letter until every target
\* it is for has been tried (the promise of the wal.service.ts header).
NoSilentLoss ==
    \A r \in acked : path[r] # NoFile =>
        \/ Readable(wal, path[r], MsgOf[r])
        \/ Readable(dead, path[r], MsgOf[r])
        \/ Attempted(MsgOf[r])

\* A callback's dispatch ends, and its file is removed, only when the retries
\* of all its targets are used up (callback.controller.ts, comment at removeWal).
EndsExhausted == \A r \in Requests : phase[r] = "done" => Attempted(MsgOf[r])

\* Recovery never holds the file of a callback that this process received and
\* is dispatching itself: one WAL file has one dispatcher.
RecoveryDisjoint ==
    \A r \in Requests : Live(r) => path[r] \notin DOMAIN pending

WithinLimits(e) == e.attempts <= MaxAttempts /\ e.attempts <= crashes

\* One start of the process dispatches a left-over file at most once, whatever
\* faults it meets, and MaxAttempts starts are the limit: an entry's attempts
\* never exceed either.
AttemptsBounded ==
    /\ \A f \in DOMAIN wal : WithinLimits(wal[f])
    /\ \A f \in DOMAIN dead : WithinLimits(dead[f])

\* While the process runs, a file that has not been through a recovery belongs
\* to a live callback or to the recovery list, or its callback has been tried at
\* all its targets and only the removal failed: none waits unserved for a start.
NoOrphanFile ==
    up => \A f \in DOMAIN wal :
             \/ IsTorn(wal[f]) \/ wal[f].attempts > 0
             \/ f \in DOMAIN pending
             \/ \E r \in Requests : Live(r) /\ path[r] = f
             \/ Attempted(wal[f].msg)

\* A message is handed to dispatchMessage at most once for each time it was
\* received, and MaxAttempts times more by recovery: no endless re-dispatch, as
\* long as updateWalAttempts reaches the disk.
DispatchBudget ==
    \A m \in Msgs :
        runs[m] <= (1 + MaxAttempts) *
                   Cardinality({r \in Requests : MsgOf[r] = m /\ phase[r] # "unsent"})

\* What a request's files and results amount to for the platform.
PromiseOf(r) ==
    IF r \notin acked \/ path[r] = NoFile THEN "none"
    ELSE IF Attempted(MsgOf[r]) \/ Readable(dead, path[r], MsgOf[r])
         THEN "discharged"
    ELSE IF Readable(wal, path[r], MsgOf[r]) THEN "promised" ELSE "lost"

Promised == INSTANCE AtLeastOnce
                WITH status <- [r \in Requests |-> PromiseOf(r)]

\* WAL, dispatch, crash and recovery together implement AtLeastOnce: a promise
\* is never lost, a discharged one never comes back.
ImplementsPromise == Promised!Spec

\* A callback answered with 200 and persisted is eventually tried at all its
\* targets or put in dead-letter, whatever crashes come between.
EventuallyServed ==
    \A r \in Requests :
        (r \in acked /\ path[r] # NoFile)
            ~> (Attempted(MsgOf[r]) \/ path[r] \in DOMAIN dead)
=============================================================================
