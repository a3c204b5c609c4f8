----------------------- MODULE CallbackDelivery_proofs -----------------------
(***************************************************************************)
(* Proofs about CallbackDelivery, for any number of requests, messages,    *)
(* targets, crashes and recovery attempts.                                 *)
(***************************************************************************)
EXTENDS CallbackDelivery, FiniteSetTheorems, TLAPS

USE ConstantsAssumption

(***************************************************************************)
(* The directory operators.                                                *)
(***************************************************************************)

LEMMA PutProperties ==
    ASSUME NEW d, IsDirectory(d), NEW f \in Files, NEW e \in Entry
    PROVE  /\ IsDirectory(Put(d, f, e))
           /\ DOMAIN Put(d, f, e) = DOMAIN d \cup {f}
           /\ Put(d, f, e)[f] = e
           /\ \A g \in DOMAIN d : g # f => Put(d, f, e)[g] = d[g]
BY DEF Put, IsDirectory

LEMMA DropProperties ==
    ASSUME NEW d, IsDirectory(d), NEW F
    PROVE  /\ IsDirectory(Drop(d, F))
           /\ DOMAIN Drop(d, F) = DOMAIN d \ F
           /\ \A g \in DOMAIN d \ F : Drop(d, F)[g] = d[g]
BY DEF Drop, IsDirectory

LEMMA EmptyIsDirectory == IsDirectory(Empty) /\ DOMAIN Empty = {}
BY DEF Empty, IsDirectory

LEMMA EntryFacts ==
    ASSUME TypeOK, NEW m \in Msgs
    PROVE  /\ WalFileName(m) \in Files
           /\ NewEntry(m) \in Entry
           /\ NewEntry(m).msg = m /\ ~IsTorn(NewEntry(m))
BY DEF TypeOK, WalFileName, NewEntry, Files, Entry, IsTorn

LEMMA ChangedEntryFacts ==
    ASSUME NEW e \in Entry
    PROVE  /\ Torn(e) \in Entry
           /\ Bumped(e) \in Entry
           /\ Bumped(e).msg = e.msg
           /\ IsTorn(Bumped(e)) <=> IsTorn(e)
BY DEF Torn, Bumped, Entry, IsTorn

LEMMA MoveProperties ==
    ASSUME TypeOK, NEW F, MoveToDeadLetter(F)
    PROVE  /\ IsDirectory(wal') /\ IsDirectory(dead')
           /\ DOMAIN wal' = DOMAIN wal \ F
           /\ \A g \in DOMAIN wal \ F : wal'[g] = wal[g]
           /\ DOMAIN dead' \subseteq DOMAIN dead \cup (F \cap DOMAIN wal)
           /\ DOMAIN dead \subseteq DOMAIN dead'
           /\ \A g \in DOMAIN dead' : g \notin F \cap DOMAIN wal => dead'[g] = dead[g]
           /\ "rename" \notin Faults =>
                \A g \in F \cap DOMAIN wal : g \in DOMAIN dead' /\ dead'[g] = wal[g]
<1>1. IsDirectory(wal) /\ IsDirectory(dead)
  BY DEF TypeOK
<1>2. wal' = Drop(wal, F)
  BY DEF MoveToDeadLetter
<1>3. PICK U \in IF "rename" \in Faults THEN SUBSET F ELSE {{}} :
         dead' = [f \in DOMAIN dead \cup ((F \cap DOMAIN wal) \ U) |->
                    IF f \in (F \cap DOMAIN wal) \ U THEN wal[f] ELSE dead[f]]
  BY DEF MoveToDeadLetter
<1>4. IsDirectory(dead')
  BY <1>1, <1>3 DEF IsDirectory
<1>5. "rename" \notin Faults =>
        \A g \in F \cap DOMAIN wal : g \in DOMAIN dead' /\ dead'[g] = wal[g]
  BY <1>3
<1>6. \A g \in DOMAIN dead' : g \notin F \cap DOMAIN wal => dead'[g] = dead[g]
  BY <1>3
<1>7. /\ IsDirectory(wal') /\ DOMAIN wal' = DOMAIN wal \ F
      /\ \A g \in DOMAIN wal \ F : wal'[g] = wal[g]
  BY <1>1, <1>2, DropProperties
<1>8. /\ DOMAIN dead' \subseteq DOMAIN dead \cup (F \cap DOMAIN wal)
      /\ DOMAIN dead \subseteq DOMAIN dead'
  BY <1>3
<1>. QED
  BY <1>4, <1>5, <1>6, <1>7, <1>8

LEMMA RemoveWalProperties ==
    ASSUME IsDirectory(wal), NEW f, RemoveWal(f)
    PROVE  /\ IsDirectory(wal')
           /\ DOMAIN wal' \subseteq DOMAIN wal /\ DOMAIN wal \ {f} \subseteq DOMAIN wal'
           /\ \A g \in DOMAIN wal' : wal'[g] = wal[g]
<1>1. CASE wal' = Drop(wal, {f})
  <2>1. /\ IsDirectory(wal') /\ DOMAIN wal' = DOMAIN wal \ {f}
        /\ \A g \in DOMAIN wal \ {f} : wal'[g] = wal[g]
    BY <1>1, DropProperties
  <2>. QED
    BY <2>1
<1>2. CASE wal' = wal
  BY <1>2
<1>. QED
  BY <1>1, <1>2 DEF RemoveWal

(***************************************************************************)
(* Type correctness.  A worker's message is in Msgs only because recovery, *)
(* when it dispatches, holds an entry of its list: RecoveryHolds is the    *)
(* strengthening.                                                          *)
(***************************************************************************)

RecoveryHolds ==
    /\ phase[Recovery] \in {"idle", "queued", "posting"}
    /\ phase[Recovery] # "idle" => current \in DOMAIN pending
    /\ phase[Recovery] = "idle" => current = NoFile
    /\ ~up => phase[Recovery] = "idle"

TypeInv == TypeOK /\ RecoveryHolds

LEMMA MsgType ==
    ASSUME TypeInv, NEW w \in Workers, w = Recovery => phase[w] # "idle"
    PROVE  Msg(w) \in Msgs
BY DEF TypeInv, TypeOK, RecoveryHolds, Msg, Workers, IsDirectory, Entry

LEMMA LoseMemoryType ==
    ASSUME TypeInv, LoseMemory, NEW dying, phase' = PhasesAfterCrash(dying),
           IsDirectory(wal')
    PROVE  TypeInv'
<1>1. IsDirectory(pending') /\ pending' = Empty
  BY EmptyIsDirectory DEF LoseMemory
<1>2. phase' \in [Workers -> {"unsent", "persisted", "queued", "posting",
                              "done", "lost", "idle"}]
  BY DEF PhasesAfterCrash, TypeInv, TypeOK
<1>3. phase'[Recovery] = "idle"
  BY DEF PhasesAfterCrash, Workers
<1>4. IsDirectory(dead')
  BY DEF LoseMemory, TypeInv, TypeOK, IsDirectory
<1>5. todo' \in [Workers -> SUBSET Targets]
  BY DEF LoseMemory
<1>6. TypeOK'
  <2>1. /\ now' \in Nat /\ crashes' \in Nat
        /\ current' \in Files \cup {NoFile} /\ cached' \subseteq Caches
    BY DEF LoseMemory, TypeInv, TypeOK
  <2>3. up' \in BOOLEAN /\ failed' \in BOOLEAN
    BY DEF LoseMemory
  <2>2. /\ path' \in [Requests -> Files \cup {NoFile}] /\ acked' \subseteq Requests
        /\ enabled' \subseteq Targets /\ stable' \subseteq Targets
        /\ attempted' \subseteq Msgs \X Targets /\ runs' \in [Msgs -> Nat]
    BY DEF LoseMemory, TypeInv, TypeOK, intake
  <2>. QED
    BY <1>1, <1>2, <1>4, <1>5, <2>1, <2>2, <2>3 DEF TypeOK
<1>7. RecoveryHolds'
  BY <1>3 DEF LoseMemory, RecoveryHolds
<1>. QED
  BY <1>6, <1>7 DEF TypeInv

LEMMA TypeInvStep == TypeInv /\ [Next]_vars => TypeInv'
<1> SUFFICES ASSUME TypeInv, [Next]_vars PROVE TypeInv'
  OBVIOUS
<1>0. IsDirectory(wal) /\ IsDirectory(dead) /\ IsDirectory(pending) /\ TypeOK
  BY DEF TypeInv, TypeOK
<1>1. ASSUME NEW r \in Requests, Receive(r) PROVE TypeInv'
  <2>1. MsgOf[r] \in Msgs /\ r \in Workers /\ r # Recovery
    BY DEF Workers
  <2>2. /\ WalFileName(MsgOf[r]) \in Files
        /\ NewEntry(MsgOf[r]) \in Entry
        /\ Torn(NewEntry(MsgOf[r])) \in Entry
    BY <1>0, <2>1, EntryFacts, ChangedEntryFacts
  <2>3. IsDirectory(wal') /\ path' \in [Requests -> Files \cup {NoFile}]
    <3> DEFINE f == WalFileName(MsgOf[r])
    <3>0. path \in [Requests -> Files \cup {NoFile}]
      BY <1>0 DEF TypeOK
    <3>1. CASE wal' = Put(wal, f, NewEntry(MsgOf[r])) /\ path' = [path EXCEPT ![r] = f]
      <4>1. IsDirectory(wal')
        BY <1>0, <2>2, <3>1, PutProperties
      <4>. QED
        BY <2>2, <3>0, <3>1, <4>1
    <3>2. CASE UNCHANGED <<wal, path>>
      BY <1>0, <3>0, <3>2 DEF IsDirectory
    <3>3. CASE wal' = Put(wal, f, Torn(NewEntry(MsgOf[r]))) /\ UNCHANGED path
      <4>1. IsDirectory(wal')
        BY <1>0, <2>2, <3>3, PutProperties
      <4>. QED
        BY <3>0, <3>3, <4>1
    <3>. QED
      BY <1>1, <3>1, <3>2, <3>3 DEF Receive, WriteWal
  <2>. QED
    BY <1>1, <2>1, <2>3 DEF Receive, TypeInv, TypeOK, RecoveryHolds, recovery, config, IsDirectory
<1>2. ASSUME NEW r \in Requests, Reply(r) PROVE TypeInv'
  BY <1>2 DEF Reply, TypeInv, TypeOK, RecoveryHolds, Workers, recovery, config, disk, IsDirectory
<1>3. ASSUME NEW r \in Requests, FinishCallback(r) PROVE TypeInv'
  <2>1. IsDirectory(wal')
    <3>1. CASE RemoveWal(path[r])
      BY <1>0, <3>1, RemoveWalProperties
    <3>2. CASE UNCHANGED wal
      BY <1>0, <3>2 DEF IsDirectory
    <3>. QED
      BY <1>3, <3>1, <3>2 DEF FinishCallback
  <2>. QED
    BY <1>3, <2>1 DEF FinishCallback, TypeInv, TypeOK, RecoveryHolds, Workers, recovery, config, intake, IsDirectory
<1>4. ASSUME NEW w \in Workers, BeginDispatch(w) PROVE TypeInv'
  <2>1. Msg(w) \in Msgs
    BY <1>4, MsgType DEF BeginDispatch
  <2>2. \A T \in FanOut(Msg(w)) : T \subseteq Targets
    BY <2>1 DEF FanOut, TypeInv, TypeOK
  <2>3. todo' \in [Workers -> SUBSET Targets]
    <3>1. \E T \in SUBSET Targets : todo' = [todo EXCEPT ![w] = T]
      BY <1>4, <2>2 DEF BeginDispatch
    <3>. QED
      BY <3>1 DEF TypeInv, TypeOK
  <2>4. cached' \subseteq Caches
    BY <1>4 DEF BeginDispatch, TypeInv, TypeOK, Caches
  <2>. QED
    BY <1>4, <2>1, <2>3, <2>4 DEF BeginDispatch, TypeInv, TypeOK, RecoveryHolds, recovery, disk, intake, IsDirectory
<1>5. ASSUME NEW w \in Workers, NEW t \in Targets, NEW success \in BOOLEAN,
             PostSettles(w, t, success)
      PROVE  TypeInv'
  <2>1. Msg(w) \in Msgs
    BY <1>5, MsgType DEF PostSettles
  <2>. QED
    BY <1>5, <2>1 DEF PostSettles, TypeInv, TypeOK, RecoveryHolds, config, disk, intake, IsDirectory
<1>6. CASE Crash
  BY <1>0, <1>6, LoseMemoryType DEF Crash
<1>7. CASE Restart
  <2>1. /\ IsDirectory(wal') /\ IsDirectory(dead')
    BY <1>0, <1>7, MoveProperties DEF Restart
  <2>2. IsDirectory(pending')
    BY <1>0, <1>7, DropProperties DEF Restart
  <2>. QED
    <3>1. TypeOK'
      BY <1>7, <2>1, <2>2 DEF Restart, TypeInv, TypeOK, intake, Caches
    <3>2. RecoveryHolds'
      BY <1>7 DEF Restart, TypeInv, RecoveryHolds
    <3>. QED
      BY <3>1, <3>2 DEF TypeInv
<1>8. ASSUME NEW r \in Requests, CrashInWriteWal(r) PROVE TypeInv'
  <2>1. IsDirectory(wal')
    BY <1>0, <1>8, EntryFacts, ChangedEntryFacts, PutProperties DEF CrashInWriteWal
  <2>. QED
    BY <1>8, <2>1, LoseMemoryType DEF CrashInWriteWal
<1>9. ASSUME NEW f \in DOMAIN pending, RecoverGivesUp(f) PROVE TypeInv'
  <2>1. /\ IsDirectory(wal') /\ IsDirectory(dead')
    BY <1>0, <1>9, MoveProperties DEF RecoverGivesUp
  <2>2. IsDirectory(pending')
    BY <1>0, <1>9, DropProperties DEF RecoverGivesUp
  <2>3. phase[Recovery] = "idle"
    BY <1>9 DEF RecoverGivesUp, RecoveryTakes, TypeInv, TypeOK, RecoveryHolds, IsDirectory, Files
  <2>. QED
    BY <1>9, <2>1, <2>2, <2>3 DEF RecoverGivesUp, TypeInv, TypeOK, RecoveryHolds, intake, config, IsDirectory
<1>10. ASSUME NEW f \in DOMAIN pending, RecoverStarts(f) PROVE TypeInv'
  <2>1. f \in Files /\ pending[f] \in Entry
    BY <1>0 DEF IsDirectory
  <2>2. Bumped(pending[f]) \in Entry
    BY <1>0, <2>1, ChangedEntryFacts
  <2>3. IsDirectory(wal')
    <3>1. CASE wal' = Put(wal, f, Bumped(pending[f]))
      BY <1>0, <2>1, <2>2, <3>1, PutProperties
    <3>2. CASE UNCHANGED wal
      BY <1>0, <3>2 DEF IsDirectory
    <3>. QED
      BY <1>10, <3>1, <3>2 DEF RecoverStarts
  <2>4. IsDirectory(pending') /\ f \in DOMAIN pending'
    BY <1>0, <1>10, <2>2 DEF RecoverStarts, IsDirectory
  <2>. QED
    <3>1. up /\ up' = up /\ Recovery \in Workers
      BY <1>10 DEF RecoverStarts, MayRecover, RecoveryTakes, Workers
    <3>2. TypeOK'
      BY <1>0, <1>10, <2>1, <2>3, <2>4, <3>1 DEF RecoverStarts, TypeOK, intake, config, IsDirectory
    <3>3. RecoveryHolds'
      BY <1>0, <1>10, <2>4, <3>1 DEF RecoverStarts, TypeOK, RecoveryHolds
    <3>. QED
      BY <3>2, <3>3 DEF TypeInv
<1>11. ASSUME NEW f \in DOMAIN pending, CrashInUpdate(f) PROVE TypeInv'
  <2>1. f \in Files /\ pending[f] \in Entry
    BY <1>0 DEF IsDirectory
  <2>2. Torn(Bumped(pending[f])) \in Entry
    BY <2>1, ChangedEntryFacts
  <2>3. IsDirectory(wal')
    BY <1>0, <1>11, <2>1, <2>2, PutProperties DEF CrashInUpdate
  <2>. QED
    BY <1>11, <2>3, LoseMemoryType DEF CrashInUpdate
<1>12. CASE RecoverFinishes
  <2>0. IsDirectory(wal')
    <3>1. CASE RemoveWal(current)
      BY <1>0, <3>1, RemoveWalProperties
    <3>2. CASE UNCHANGED wal
      BY <1>0, <3>2 DEF IsDirectory
    <3>. QED
      BY <1>12, <3>1, <3>2 DEF RecoverFinishes
  <2>1. IsDirectory(wal') /\ IsDirectory(pending')
    BY <1>0, <1>12, <2>0, DropProperties DEF RecoverFinishes
  <2>. QED
    BY <1>12, <2>1 DEF RecoverFinishes, TypeInv, TypeOK, RecoveryHolds, Workers, intake, config, IsDirectory
<1>13. ASSUME NEW t \in Targets, ToggleTarget(t) PROVE TypeInv'
  BY <1>13 DEF ToggleTarget, TypeInv, TypeOK, RecoveryHolds, disk, intake, recovery, Caches, IsDirectory
<1>14. ASSUME NEW c \in Caches, ReloadFails(c) PROVE TypeInv'
  BY <1>14 DEF ReloadFails, TypeInv, TypeOK, RecoveryHolds, disk, intake, recovery, IsDirectory
<1>15. CASE Tick
  BY <1>15 DEF Tick, TypeInv, TypeOK, RecoveryHolds, disk, intake, recovery, config, IsDirectory
<1>16. CASE UNCHANGED vars
  BY <1>16 DEF vars, TypeInv, TypeOK, RecoveryHolds, IsDirectory
<1>. QED
  BY <1>1, <1>2, <1>3, <1>4, <1>5, <1>6, <1>7, <1>8, <1>9, <1>10, <1>11,
     <1>12, <1>13, <1>14, <1>15, <1>16 DEF Next, Dispatch

LEMMA TypeInvInit == Init => TypeInv
<1> SUFFICES ASSUME Init PROVE TypeInv
  OBVIOUS
<1>1. IsDirectory(wal) /\ IsDirectory(dead) /\ IsDirectory(pending)
  BY EmptyIsDirectory DEF Init
<1>2. phase \in [Workers -> {"unsent", "persisted", "queued", "posting",
                             "done", "lost", "idle"}]
  BY DEF Init
<1>3. RecoveryHolds
  BY DEF Init, RecoveryHolds, Workers
<1>4. TypeOK
  BY <1>1, <1>2 DEF Init, TypeOK, Caches
<1>. QED
  BY <1>3, <1>4 DEF TypeInv

LEMMA TypeInvAlways == Spec => []TypeInv
BY TypeInvInit, TypeInvStep, PTL DEF Spec

(***************************************************************************)
(* The state of the dispatcher always has its type.                        *)
(***************************************************************************)
THEOREM TypeCorrect == Spec => []TypeOK
<1>1. TypeInv => TypeOK
  BY DEF TypeInv
<1>. QED
  BY <1>1, TypeInvAlways, PTL

(***************************************************************************)
(* One WAL file has one dispatcher.  The names carry the time: what        *)
(* recovery holds was named before this process started, what this process *)
(* receives is named later.                                                *)
(***************************************************************************)

NamesInThePast ==
    /\ \A f \in DOMAIN wal : f[2] <= now
    /\ \A f \in DOMAIN dead : f[2] < now
    /\ \A f \in DOMAIN pending : f[2] < now

NothingLiveWhenDown == ~up => \A r \in Requests : ~Live(r)

UnsentHasNoFile == \A r \in Requests : phase[r] = "unsent" => path[r] = NoFile

RecoveryInv ==
    /\ TypeInv
    /\ NamesInThePast
    /\ NothingLiveWhenDown
    /\ UnsentHasNoFile
    /\ RecoveryDisjoint

LEMMA CrashFacts ==
    ASSUME TypeInv, NEW dying, phase' = PhasesAfterCrash(dying)
    PROVE  /\ \A r \in Requests : ~Live(r)'
           /\ \A r \in Requests : phase'[r] = "unsent" => phase[r] = "unsent"
           /\ \A w \in Workers : phase'[w] # "posting"
           /\ \A r \in Requests : phase'[r] = "done" => phase[r] = "done"
<1>1. \A w \in Workers : phase'[w] = IF w = Recovery THEN "idle"
                          ELSE IF w \in dying \/ Live(w) THEN "lost" ELSE phase[w]
  BY DEF PhasesAfterCrash
<1>. QED
  BY <1>1 DEF Live, Workers

LEMMA NameIsNow ==
    ASSUME NEW m \in Msgs, now \in Nat
    PROVE  WalFileName(m) \in Files /\ WalFileName(m)[2] = now
BY DEF WalFileName, Files

LEMMA FilesFacts ==
    ASSUME NEW f \in Files PROVE f[2] \in Nat /\ f # NoFile
BY DEF Files

LEMMA RecoveryInvStep == RecoveryInv /\ [Next]_vars => RecoveryInv'
<1> SUFFICES ASSUME RecoveryInv, [Next]_vars PROVE RecoveryInv'
  OBVIOUS
<1> DEFINE Rest == /\ NamesInThePast /\ NothingLiveWhenDown
                   /\ UnsentHasNoFile /\ RecoveryDisjoint
<1> SUFFICES Rest'
  BY TypeInvStep DEF RecoveryInv
<1> USE DEF NothingLiveWhenDown, UnsentHasNoFile, RecoveryDisjoint
<1>0. /\ TypeOK /\ TypeInv /\ Rest /\ now \in Nat
      /\ IsDirectory(wal) /\ IsDirectory(dead) /\ IsDirectory(pending)
  BY DEF RecoveryInv, TypeInv, TypeOK
<1>a. /\ \A f \in DOMAIN wal : f \in Files /\ f[2] \in Nat
      /\ \A f \in DOMAIN dead : f \in Files /\ f[2] \in Nat
      /\ \A f \in DOMAIN pending : f \in Files /\ f[2] \in Nat
  BY <1>0, FilesFacts DEF IsDirectory
<1>b. NoFile \notin DOMAIN pending
  BY <1>a, FilesFacts
<1>1. ASSUME NEW r \in Requests, Receive(r) PROVE Rest'
  <2>1. MsgOf[r] \in Msgs /\ WalFileName(MsgOf[r]) \in Files /\ WalFileName(MsgOf[r])[2] = now
    BY <1>0, NameIsNow
  <2>2. /\ NewEntry(MsgOf[r]) \in Entry /\ Torn(NewEntry(MsgOf[r])) \in Entry
    BY <1>0, <2>1, EntryFacts, ChangedEntryFacts
  <2>3. /\ DOMAIN wal' \subseteq DOMAIN wal \cup {WalFileName(MsgOf[r])}
        /\ path' = path \/ path' = [path EXCEPT ![r] = WalFileName(MsgOf[r])]
    <3>1. CASE /\ wal' = Put(wal, WalFileName(MsgOf[r]), NewEntry(MsgOf[r]))
               /\ path' = [path EXCEPT ![r] = WalFileName(MsgOf[r])]
      <4>1. DOMAIN wal' = DOMAIN wal \cup {WalFileName(MsgOf[r])}
        BY <1>0, <2>1, <2>2, <3>1, PutProperties
      <4>. QED
        BY <3>1, <4>1
    <3>2. CASE UNCHANGED <<wal, path>>
      BY <3>2
    <3>3. CASE /\ wal' = Put(wal, WalFileName(MsgOf[r]), Torn(NewEntry(MsgOf[r])))
               /\ UNCHANGED path
      <4>1. DOMAIN wal' = DOMAIN wal \cup {WalFileName(MsgOf[r])}
        BY <1>0, <2>1, <2>2, <3>3, PutProperties
      <4>. QED
        BY <3>3, <4>1
    <3>. QED
      BY <1>1, <3>1, <3>2, <3>3 DEF Receive, WriteWal
  <2>4. /\ up /\ up' = up /\ now' = now /\ dead' = dead /\ pending' = pending
        /\ phase[r] = "unsent" /\ phase' = [phase EXCEPT ![r] = "persisted"]
    BY <1>1 DEF Receive, recovery
  <2>5. NamesInThePast'
    BY <1>0, <1>a, <2>1, <2>3, <2>4 DEF NamesInThePast
  <2>6. WalFileName(MsgOf[r]) \notin DOMAIN pending
    BY <1>0, <1>a, <2>1 DEF NamesInThePast
  <2>7. UnsentHasNoFile' /\ RecoveryDisjoint'
    BY <1>0, <1>b, <2>3, <2>4, <2>6 DEF TypeOK, Live, Workers
  <2>. QED
    BY <2>4, <2>5, <2>7
<1>2. ASSUME NEW r \in Requests, Reply(r) PROVE Rest'
  <2>1. /\ up /\ up' = up /\ UNCHANGED <<now, wal, dead, pending, path>>
        /\ phase[r] = "persisted" /\ phase' = [phase EXCEPT ![r] = "queued"]
    BY <1>2 DEF Reply, disk, recovery
  <2>. QED
    BY <1>0, <2>1 DEF NamesInThePast, TypeOK, Live, Workers
<1>3. ASSUME NEW r \in Requests, FinishCallback(r) PROVE Rest'
  <2>1. /\ up /\ up' = up /\ UNCHANGED <<now, dead, pending, path>>
        /\ phase[r] = "posting" /\ phase' = [phase EXCEPT ![r] = "done"]
    BY <1>3 DEF FinishCallback, intake, recovery
  <2>2. DOMAIN wal' \subseteq DOMAIN wal
    BY <1>0, <1>3, RemoveWalProperties DEF FinishCallback
  <2>. QED
    BY <1>0, <2>1, <2>2 DEF NamesInThePast, TypeOK, Live, Workers
<1>4. ASSUME NEW w \in Workers, BeginDispatch(w) PROVE Rest'
  <2>1. /\ up /\ up' = up /\ UNCHANGED <<now, wal, dead, pending, path>>
        /\ phase[w] = "queued" /\ phase' = [phase EXCEPT ![w] = "posting"]
    BY <1>4 DEF BeginDispatch, disk, intake, recovery
  <2>. QED
    BY <1>0, <2>1 DEF NamesInThePast, TypeOK, Live, Workers
<1>5. ASSUME NEW w \in Workers, NEW t \in Targets, NEW success \in BOOLEAN,
             PostSettles(w, t, success)
      PROVE  Rest'
  BY <1>0, <1>5 DEF PostSettles, disk, intake, NamesInThePast, Live
<1>6. ASSUME NEW dying, phase' = PhasesAfterCrash(dying), LoseMemory,
             \A f \in DOMAIN wal' : f \in DOMAIN wal \/ (f[2] \in Nat /\ f[2] <= now)
      PROVE  Rest'
  <2>1. UNCHANGED <<now, dead, path>> /\ DOMAIN pending' = {}
    BY <1>6, EmptyIsDirectory DEF LoseMemory, intake
  <2>. QED
    BY <1>0, <1>6, <2>1, CrashFacts DEF NamesInThePast
<1>7. CASE Crash
  BY <1>0, <1>6, <1>7 DEF Crash, NamesInThePast
<1>8. CASE Restart
  <2>1. /\ ~up /\ up' = TRUE /\ now' = now + 1 /\ UNCHANGED <<phase, path>>
        /\ MoveToDeadLetter(TornFiles) /\ pending' = Drop(wal, TornFiles)
    BY <1>8 DEF Restart, intake
  <2>2. /\ DOMAIN wal' \subseteq DOMAIN wal
        /\ DOMAIN dead' \subseteq DOMAIN dead \cup DOMAIN wal
    BY <1>0, <2>1, MoveProperties
  <2>3. DOMAIN pending' = DOMAIN wal \ TornFiles
    BY <1>0, <2>1, DropProperties
  <2>4. NamesInThePast'
    BY <1>0, <1>a, <2>1, <2>2, <2>3 DEF NamesInThePast
  <2>. QED
    BY <1>0, <2>1, <2>4 DEF Live
<1>9. ASSUME NEW r \in Requests, CrashInWriteWal(r) PROVE Rest'
  <2>1. WalFileName(MsgOf[r]) \in Files /\ WalFileName(MsgOf[r])[2] = now
    BY <1>0, NameIsNow
  <2>2. DOMAIN wal' = DOMAIN wal \cup {WalFileName(MsgOf[r])}
    BY <1>9 DEF CrashInWriteWal, Put
  <2>3. \A f \in DOMAIN wal' : f \in DOMAIN wal \/ (f[2] \in Nat /\ f[2] <= now)
    <3> TAKE f \in DOMAIN wal'
    <3>1. CASE f = WalFileName(MsgOf[r])
      <4>1. f[2] = now
        BY <2>1, <3>1
      <4>. QED
        BY <1>0, <4>1
    <3>. QED
      BY <2>2, <3>1
  <2>. QED
    BY <1>6, <1>9, <2>3 DEF CrashInWriteWal
<1>10. ASSUME NEW f \in DOMAIN pending, RecoverGivesUp(f) PROVE Rest'
  <2>1. /\ UNCHANGED <<up, now, phase, path>>
        /\ MoveToDeadLetter({f}) /\ pending' = Drop(pending, {f})
    BY <1>10 DEF RecoverGivesUp, intake
  <2>2. /\ DOMAIN wal' = DOMAIN wal \ {f}
        /\ DOMAIN dead' \subseteq DOMAIN dead \cup ({f} \cap DOMAIN wal)
    BY <1>0, <2>1, MoveProperties
  <2>3. DOMAIN pending' \subseteq DOMAIN pending
    BY <2>1 DEF Drop
  <2>. QED
    BY <1>0, <1>10, <2>1, <2>2, <2>3 DEF NamesInThePast, Live
<1>11. ASSUME NEW f \in DOMAIN pending, RecoverStarts(f) PROVE Rest'
  <2>1. /\ up /\ up' = up /\ UNCHANGED <<now, dead, path>>
        /\ phase' = [phase EXCEPT ![Recovery] = "queued"]
        /\ DOMAIN pending' = DOMAIN pending
    BY <1>11 DEF RecoverStarts, MayRecover, RecoveryTakes, intake
  <2>2. DOMAIN wal' \subseteq DOMAIN wal \cup {f}
    BY <1>11 DEF RecoverStarts, Put
  <2>3. \A r \in Requests : phase'[r] = phase[r]
    BY <1>0, <2>1 DEF TypeOK, Workers
  <2>. QED
    BY <1>0, <1>a, <2>1, <2>2, <2>3 DEF NamesInThePast, Live
<1>12. ASSUME NEW f \in DOMAIN pending, CrashInUpdate(f) PROVE Rest'
  <2>1. DOMAIN wal' \subseteq DOMAIN wal \cup {f}
    BY <1>12 DEF CrashInUpdate, Put
  <2>. QED
    BY <1>0, <1>6, <1>a, <1>12, <2>1 DEF CrashInUpdate, NamesInThePast
<1>13. CASE RecoverFinishes
  <2>1. /\ up /\ up' = up /\ UNCHANGED <<now, dead, path>>
        /\ phase' = [phase EXCEPT ![Recovery] = "idle"]
        /\ pending' = Drop(pending, {current})
    BY <1>13 DEF RecoverFinishes, intake
  <2>2. DOMAIN wal' \subseteq DOMAIN wal
    BY <1>0, <1>13, RemoveWalProperties DEF RecoverFinishes
  <2>3. DOMAIN pending' \subseteq DOMAIN pending
    BY <2>1 DEF Drop
  <2>4. \A r \in Requests : phase'[r] = phase[r]
    BY <1>0, <2>1 DEF TypeOK, Workers
  <2>. QED
    BY <1>0, <2>1, <2>2, <2>3, <2>4 DEF NamesInThePast, Live
<1>14. ASSUME NEW t \in Targets, ToggleTarget(t) PROVE Rest'
  BY <1>0, <1>14 DEF ToggleTarget, disk, intake, recovery, NamesInThePast, Live
<1>15. ASSUME NEW c \in Caches, ReloadFails(c) PROVE Rest'
  BY <1>0, <1>15 DEF ReloadFails, disk, intake, recovery, NamesInThePast, Live
<1>16. CASE Tick
  <2>1. now' = now + 1 /\ UNCHANGED <<up, wal, dead, pending, phase, path>>
    BY <1>16 DEF Tick, disk, intake, recovery
  <2>. QED
    BY <1>0, <1>a, <2>1 DEF NamesInThePast, Live
<1>17. CASE UNCHANGED vars
  BY <1>0, <1>17 DEF vars, NamesInThePast, Live
<1>. QED
  BY <1>1, <1>2, <1>3, <1>4, <1>5, <1>7, <1>8, <1>9, <1>10, <1>11,
     <1>12, <1>13, <1>14, <1>15, <1>16, <1>17 DEF Next, Dispatch

LEMMA RecoveryInvInit == Init => RecoveryInv
<1> SUFFICES ASSUME Init PROVE RecoveryInv
  OBVIOUS
<1>1. NamesInThePast
  BY EmptyIsDirectory DEF Init, NamesInThePast
<1>2. NothingLiveWhenDown /\ UnsentHasNoFile
  BY DEF Init, NothingLiveWhenDown, UnsentHasNoFile
<1>3. RecoveryDisjoint
  BY EmptyIsDirectory DEF Init, RecoveryDisjoint
<1>. QED
  BY <1>1, <1>2, <1>3, TypeInvInit DEF RecoveryInv

(***************************************************************************)
(* Under every fault: recovery never holds the file of a callback that the *)
(* running process received itself (wal.service.ts, recoverPendingDispatches). *)
(***************************************************************************)
THEOREM RecoveryIsDisjoint == Spec => []RecoveryDisjoint
<1>1. RecoveryInv => RecoveryDisjoint
  BY DEF RecoveryInv
<1>. QED
  BY <1>1, RecoveryInvInit, RecoveryInvStep, PTL DEF Spec

(***************************************************************************)
(* Without the faults that destroy a file or a dispatch, what was on disk  *)
(* at the 200 stays there until its targets have been tried.               *)
(***************************************************************************)

BenignFaults ==
    Faults \cap {"configLoad", "tagsLoad", "rename", "tornUpdate", "collide"} = {}

WalDeadDisjoint == DOMAIN wal \cap DOMAIN dead = {}

PendingOnDisk ==
    \A f \in DOMAIN pending :
        /\ f \in DOMAIN wal
        /\ ~IsTorn(wal[f])
        /\ pending[f].msg = wal[f].msg
        /\ ~IsTorn(pending[f])

LiveOnDisk ==
    \A r \in Requests : Live(r) /\ path[r] # NoFile =>
        /\ Readable(wal, path[r], MsgOf[r])
        /\ \A q \in Requests : Live(q) /\ path[q] = path[r] => q = r

FanOutCovers ==
    \A w \in Workers : phase[w] = "posting" =>
        \A t \in Matches[Msg(w)] \cap stable :
            t \in todo[w] \/ <<Msg(w), t>> \in attempted

Kept ==
    \A r \in Requests : path[r] # NoFile =>
        \/ Readable(wal, path[r], MsgOf[r])
        \/ Readable(dead, path[r], MsgOf[r])
        \/ Attempted(MsgOf[r])

DeliveryInv ==
    /\ RecoveryInv
    /\ WalDeadDisjoint
    /\ PendingOnDisk
    /\ LiveOnDisk
    /\ stable \subseteq enabled
    /\ FanOutCovers
    /\ Kept
    /\ EndsExhausted

\* A directory in which every old entry survives keeps every readable entry.
LEMMA ReadableKept ==
    ASSUME NEW d, NEW e, NEW f, NEW m, Readable(d, f, m),
           f \in DOMAIN e, e[f] = d[f]
    PROVE  Readable(e, f, m)
BY DEF Readable

LEMMA DeliveryInvStep ==
    ASSUME BenignFaults
    PROVE  DeliveryInv /\ [Next]_vars => DeliveryInv'
<1> SUFFICES ASSUME DeliveryInv, [Next]_vars PROVE DeliveryInv'
  OBVIOUS
<1> DEFINE Rest == /\ WalDeadDisjoint /\ PendingOnDisk /\ LiveOnDisk
                   /\ stable \subseteq enabled
                   /\ FanOutCovers /\ Kept /\ EndsExhausted
<1> SUFFICES Rest'
  BY RecoveryInvStep DEF DeliveryInv
<1> USE DEF WalDeadDisjoint
<1>0. /\ TypeOK /\ TypeInv /\ RecoveryHolds /\ Rest /\ now \in Nat
      /\ NamesInThePast /\ NothingLiveWhenDown /\ UnsentHasNoFile /\ RecoveryDisjoint
      /\ IsDirectory(wal) /\ IsDirectory(dead) /\ IsDirectory(pending)
  BY DEF DeliveryInv, RecoveryInv, TypeInv, TypeOK
<1>a. /\ NoFile \notin DOMAIN pending /\ NoFile \notin DOMAIN wal /\ NoFile \notin DOMAIN dead
      /\ \A r \in Requests : MsgOf[r] \in Msgs /\ r \in Workers /\ r # Recovery
      /\ phase \in [Workers -> {"unsent", "persisted", "queued", "posting",
                                "done", "lost", "idle"}]
      /\ path \in [Requests -> Files \cup {NoFile}]
      /\ todo \in [Workers -> SUBSET Targets]
  BY <1>0, FilesFacts DEF IsDirectory, Workers, TypeOK
<1>b. ASSUME NEW r \in Requests, FreshName(r)
      PROVE  /\ WalFileName(MsgOf[r]) \notin DOMAIN wal
             /\ WalFileName(MsgOf[r]) \notin DOMAIN dead
             /\ WalFileName(MsgOf[r]) \in Files
             /\ NewEntry(MsgOf[r]) \in Entry /\ Torn(NewEntry(MsgOf[r])) \in Entry
             /\ NewEntry(MsgOf[r]).msg = MsgOf[r] /\ ~IsTorn(NewEntry(MsgOf[r]))
  <2>1. WalFileName(MsgOf[r]) \in Files /\ WalFileName(MsgOf[r])[2] = now
    BY <1>0, <1>a, NameIsNow
  <2>2. WalFileName(MsgOf[r]) \notin DOMAIN dead
    BY <1>0, <2>1 DEF NamesInThePast
  <2>3. WalFileName(MsgOf[r]) \notin DOMAIN wal
    BY <1>b DEF FreshName, BenignFaults
  <2>. QED
    BY <1>0, <1>a, <2>1, <2>2, <2>3, EntryFacts, ChangedEntryFacts
\* A step that adds one fresh file to the WAL, or none, loses nothing readable.
<1>c. ASSUME NEW r \in Requests, FreshName(r),
             \/ wal' = wal
             \/ wal' = Put(wal, WalFileName(MsgOf[r]), NewEntry(MsgOf[r]))
             \/ wal' = Put(wal, WalFileName(MsgOf[r]), Torn(NewEntry(MsgOf[r])))
      PROVE  /\ \A g \in DOMAIN wal : g \in DOMAIN wal' /\ wal'[g] = wal[g]
             /\ DOMAIN wal' \subseteq DOMAIN wal \cup {WalFileName(MsgOf[r])}
  <2>1. CASE wal' = wal
    BY <2>1
  <2>2. ASSUME NEW e, wal' = Put(wal, WalFileName(MsgOf[r]), e)
        PROVE  /\ \A g \in DOMAIN wal : g \in DOMAIN wal' /\ wal'[g] = wal[g]
               /\ DOMAIN wal' \subseteq DOMAIN wal \cup {WalFileName(MsgOf[r])}
    BY <1>b, <1>c, <2>2 DEF Put
  <2>. QED
    BY <1>c, <2>1, <2>2
<1>1. ASSUME NEW r \in Requests, Receive(r) PROVE Rest'
  <2> DEFINE f == WalFileName(MsgOf[r])
  <2>1. /\ FreshName(r) /\ phase[r] = "unsent" /\ path[r] = NoFile
        /\ phase' = [phase EXCEPT ![r] = "persisted"]
        /\ UNCHANGED <<dead, pending, current, todo, attempted, stable, enabled>>
    BY <1>0, <1>1 DEF Receive, recovery, config, UnsentHasNoFile
  <2>2. /\ \A g \in DOMAIN wal : g \in DOMAIN wal' /\ wal'[g] = wal[g]
        /\ DOMAIN wal' \subseteq DOMAIN wal \cup {f}
    BY <1>1, <1>c, <2>1 DEF Receive, WriteWal
  <2>3. /\ f \notin DOMAIN wal /\ f \notin DOMAIN dead /\ f \in Files
        /\ NewEntry(MsgOf[r]).msg = MsgOf[r] /\ ~IsTorn(NewEntry(MsgOf[r]))
    BY <1>b, <2>1
  <2>4. \/ path' = path
        \/ /\ path' = [path EXCEPT ![r] = f]
           /\ f \in DOMAIN wal' /\ wal'[f] = NewEntry(MsgOf[r])
    BY <1>1 DEF Receive, WriteWal, Put
  <2>5. path'[r] # NoFile => path'[r] = f /\ Readable(wal', f, MsgOf[r])
    BY <1>a, <2>1, <2>3, <2>4 DEF Readable
  <2>6. \A q \in Requests : q # r => path'[q] = path[q] /\ phase'[q] = phase[q]
    BY <1>a, <2>1, <2>4
  <2>7. \A q \in Requests, m \in Msgs : Readable(wal, path[q], m) => Readable(wal', path[q], m)
    BY <2>2 DEF Readable
  <2>8. WalDeadDisjoint' /\ PendingOnDisk'
    BY <1>0, <2>1, <2>2, <2>3 DEF PendingOnDisk
  <2>9. LiveOnDisk'
    <3>1. \A q \in Requests : q # r /\ Live(q) /\ path[q] # NoFile =>
             path[q] \in DOMAIN wal /\ path[q] # f
      BY <1>0, <2>3 DEF LiveOnDisk, Readable
    <3>2. \A q \in Requests : q # r => (Live(q)' <=> Live(q))
      BY <2>6 DEF Live
    <3>. QED
      BY <1>0, <1>a, <2>3, <2>5, <2>6, <2>7, <3>1, <3>2 DEF LiveOnDisk
  <2>10. FanOutCovers'
    BY <1>0, <1>a, <2>1 DEF FanOutCovers, Msg
  <2>11. Kept'
    <3>1. \A m \in Msgs : Attempted(m)' <=> Attempted(m)
      BY <2>1 DEF Attempted
    <3>. QED
      BY <1>0, <1>a, <2>1, <2>5, <2>6, <2>7, <3>1 DEF Kept
  <2>12. EndsExhausted'
    BY <1>0, <1>a, <2>1 DEF EndsExhausted, Attempted
  <2>. QED
    BY <1>0, <2>1, <2>8, <2>9, <2>10, <2>11, <2>12
<1>2. ASSUME NEW r \in Requests, Reply(r) PROVE Rest'
  <2>1. /\ phase[r] = "persisted" /\ phase' = [phase EXCEPT ![r] = "queued"]
        /\ UNCHANGED <<wal, dead, path, pending, current, todo, attempted, stable, enabled>>
    BY <1>2 DEF Reply, disk, recovery, config
  <2>2. \A q \in Requests : Live(q)' <=> Live(q)
    BY <1>a, <2>1 DEF Live
  <2>3. WalDeadDisjoint' /\ PendingOnDisk' /\ LiveOnDisk'
    BY <1>0, <2>1, <2>2 DEF PendingOnDisk, LiveOnDisk, Readable
  <2>4. FanOutCovers' /\ Kept' /\ EndsExhausted'
    BY <1>0, <1>a, <2>1 DEF FanOutCovers, Kept, EndsExhausted, Attempted, Readable, Msg
  <2>. QED
    BY <1>0, <2>1, <2>3, <2>4
<1>3. ASSUME NEW r \in Requests, FinishCallback(r) PROVE Rest'
  <2>1. /\ phase[r] = "posting" /\ todo[r] = {} /\ phase' = [phase EXCEPT ![r] = "done"]
        /\ UNCHANGED <<dead, path, pending, current, todo, attempted, stable, enabled>>
    BY <1>3 DEF FinishCallback, intake, recovery, config
  <2>2. Attempted(MsgOf[r])
    BY <1>0, <1>a, <2>1 DEF FanOutCovers, Attempted, Msg
  <2>3. /\ DOMAIN wal' \subseteq DOMAIN wal
        /\ \A g \in DOMAIN wal' : wal'[g] = wal[g]
        /\ \A g \in DOMAIN wal : g # path[r] => g \in DOMAIN wal'
    <3>1. CASE RemoveWal(path[r])
      BY <1>0, <3>1, RemoveWalProperties
    <3>2. CASE UNCHANGED wal
      BY <3>2
    <3>. QED
      BY <1>3, <3>1, <3>2 DEF FinishCallback
  <2>4. Live(r) /\ path[r] \notin DOMAIN pending
    BY <1>0, <2>1 DEF Live, RecoveryDisjoint
  <2>5. WalDeadDisjoint' /\ PendingOnDisk'
    BY <1>0, <2>1, <2>3, <2>4 DEF PendingOnDisk
  <2>6. LiveOnDisk'
    <3>1. \A q \in Requests : Live(q)' => Live(q) /\ q # r
      BY <1>a, <2>1 DEF Live
    <3>2. \A q \in Requests : Live(q) /\ q # r /\ path[q] # NoFile => path[q] # path[r]
      BY <1>0, <2>4 DEF LiveOnDisk
    <3>. QED
      BY <1>0, <2>1, <2>3, <3>1, <3>2 DEF LiveOnDisk, Readable
  <2>7. FanOutCovers'
    BY <1>0, <1>a, <2>1 DEF FanOutCovers, Msg
  <2>8. Kept'
    <3>1. \A m \in Msgs : Attempted(m)' <=> Attempted(m)
      BY <2>1 DEF Attempted
    <3>2. \A q \in Requests : path[q] # NoFile /\ path[q] = path[r]
             /\ Readable(wal, path[q], MsgOf[q]) => MsgOf[q] = MsgOf[r]
      BY <1>0, <2>4 DEF LiveOnDisk, Readable
    <3>3. \A q \in Requests : path[q] # path[r] /\ Readable(wal, path[q], MsgOf[q])
             => Readable(wal', path[q], MsgOf[q])
      BY <2>3 DEF Readable
    <3>. QED
      BY <1>0, <1>a, <2>1, <2>2, <3>1, <3>2, <3>3 DEF Kept
  <2>9. EndsExhausted'
    BY <1>0, <1>a, <2>1, <2>2 DEF EndsExhausted, Attempted
  <2>. QED
    BY <1>0, <2>1, <2>5, <2>6, <2>7, <2>8, <2>9
<1>4. ASSUME NEW w \in Workers, BeginDispatch(w) PROVE Rest'
  <2>1. /\ phase[w] = "queued" /\ phase' = [phase EXCEPT ![w] = "posting"]
        /\ UNCHANGED <<wal, dead, path, pending, current, attempted, stable, enabled>>
    BY <1>4 DEF BeginDispatch, disk, intake, recovery
  <2>2. todo' = [todo EXCEPT ![w] = enabled \cap Matches[Msg(w)]]
    BY <1>4 DEF BeginDispatch, FanOut, BenignFaults
  <2>3. \A q \in Requests : Live(q)' <=> Live(q)
    BY <1>a, <2>1 DEF Live
  <2>4. WalDeadDisjoint' /\ PendingOnDisk' /\ LiveOnDisk'
    BY <1>0, <2>1, <2>3 DEF PendingOnDisk, LiveOnDisk, Readable
  <2>5. FanOutCovers'
    BY <1>0, <1>a, <2>1, <2>2 DEF FanOutCovers, Msg
  <2>6. Kept' /\ EndsExhausted'
    BY <1>0, <1>a, <2>1 DEF Kept, EndsExhausted, Attempted, Readable
  <2>. QED
    BY <1>0, <2>1, <2>4, <2>5, <2>6
<1>5. ASSUME NEW w \in Workers, NEW t \in Targets, NEW success \in BOOLEAN,
             PostSettles(w, t, success)
      PROVE  Rest'
  <2>1. /\ todo' = [todo EXCEPT ![w] = @ \ {t}]
        /\ attempted' = attempted \cup {<<Msg(w), t>>}
        /\ UNCHANGED <<wal, dead, phase, path, pending, current, stable, enabled>>
    BY <1>5 DEF PostSettles, disk, intake, config
  <2>2. \A m \in Msgs : Attempted(m) => Attempted(m)'
    BY <2>1 DEF Attempted
  <2>3. WalDeadDisjoint' /\ PendingOnDisk' /\ LiveOnDisk'
    BY <1>0, <2>1 DEF PendingOnDisk, LiveOnDisk, Readable, Live
  <2>4. FanOutCovers'
    BY <1>0, <1>a, <2>1 DEF FanOutCovers, Msg
  <2>5. Kept' /\ EndsExhausted'
    BY <1>0, <1>a, <2>1, <2>2 DEF Kept, EndsExhausted, Readable
  <2>. QED
    BY <1>0, <2>1, <2>3, <2>4, <2>5
<1>6. ASSUME NEW dying, phase' = PhasesAfterCrash(dying), LoseMemory,
             \A g \in DOMAIN wal : g \in DOMAIN wal' /\ wal'[g] = wal[g],
             DOMAIN wal' \cap DOMAIN dead = {}
      PROVE  Rest'
  <2>1. /\ UNCHANGED <<dead, path, attempted, stable, enabled>> /\ DOMAIN pending' = {}
    BY <1>6, EmptyIsDirectory DEF LoseMemory, intake
  <2>2. WalDeadDisjoint' /\ PendingOnDisk' /\ LiveOnDisk' /\ FanOutCovers'
    BY <1>0, <1>6, <2>1, CrashFacts DEF PendingOnDisk, LiveOnDisk, FanOutCovers
  <2>3. \A q \in Requests : Readable(wal, path[q], MsgOf[q]) => Readable(wal', path[q], MsgOf[q])
    BY <1>6 DEF Readable
  <2>4. Kept' /\ EndsExhausted'
    BY <1>0, <1>6, <2>1, <2>3, CrashFacts DEF Kept, EndsExhausted, Attempted
  <2>. QED
    BY <1>0, <2>1, <2>2, <2>4
<1>7. CASE Crash
  BY <1>0, <1>6, <1>7 DEF Crash
<1>8. CASE Restart
  <2>1. /\ ~up /\ UNCHANGED <<phase, path, todo, current, attempted, stable, enabled>>
        /\ MoveToDeadLetter(TornFiles) /\ pending' = Drop(wal, TornFiles)
    BY <1>8 DEF Restart, intake
  <2>2. /\ DOMAIN wal' = DOMAIN wal \ TornFiles
        /\ \A g \in DOMAIN wal \ TornFiles : wal'[g] = wal[g]
        /\ DOMAIN dead' \subseteq DOMAIN dead \cup (TornFiles \cap DOMAIN wal)
        /\ DOMAIN dead \subseteq DOMAIN dead'
        /\ \A g \in DOMAIN dead' : g \notin TornFiles \cap DOMAIN wal => dead'[g] = dead[g]
    BY <1>0, <2>1, MoveProperties
  <2>3. /\ DOMAIN pending' = DOMAIN wal \ TornFiles
        /\ \A g \in DOMAIN wal \ TornFiles : pending'[g] = wal[g]
    BY <2>1 DEF Drop
  <2>4. WalDeadDisjoint' /\ PendingOnDisk'
    BY <1>0, <2>2, <2>3 DEF PendingOnDisk, TornFiles
  <2>5. LiveOnDisk'
    BY <1>0, <2>1 DEF LiveOnDisk, NothingLiveWhenDown, Live
  <2>6. FanOutCovers'
    BY <1>0, <1>a, <2>1 DEF FanOutCovers, Msg, RecoveryHolds
  <2>7. \A q \in Requests : Readable(wal, path[q], MsgOf[q]) => Readable(wal', path[q], MsgOf[q])
    BY <2>2 DEF Readable, TornFiles
  <2>8. \A q \in Requests : Readable(dead, path[q], MsgOf[q]) => Readable(dead', path[q], MsgOf[q])
    BY <1>0, <2>2 DEF Readable
  <2>9. Kept' /\ EndsExhausted'
    BY <1>0, <2>1, <2>7, <2>8 DEF Kept, EndsExhausted, Attempted
  <2>. QED
    BY <1>0, <2>1, <2>4, <2>5, <2>6, <2>9
<1>9. ASSUME NEW r \in Requests, CrashInWriteWal(r) PROVE Rest'
  <2>1. FreshName(r) /\ wal' = Put(wal, WalFileName(MsgOf[r]), Torn(NewEntry(MsgOf[r])))
    BY <1>9 DEF CrashInWriteWal
  <2>2. /\ \A g \in DOMAIN wal : g \in DOMAIN wal' /\ wal'[g] = wal[g]
        /\ DOMAIN wal' \cap DOMAIN dead = {}
    BY <1>0, <1>b, <1>c, <2>1
  <2>. QED
    BY <1>6, <1>9, <2>2 DEF CrashInWriteWal
<1>10. ASSUME NEW f \in DOMAIN pending, RecoverGivesUp(f) PROVE Rest'
  <2>1. /\ current = NoFile
        /\ UNCHANGED <<phase, path, todo, current, attempted, stable, enabled>>
        /\ MoveToDeadLetter({f}) /\ pending' = Drop(pending, {f})
    BY <1>10 DEF RecoverGivesUp, RecoveryTakes, intake, config
  <2>2. /\ f \in DOMAIN wal
        /\ DOMAIN wal' = DOMAIN wal \ {f}
        /\ \A g \in DOMAIN wal \ {f} : wal'[g] = wal[g]
        /\ DOMAIN dead' = DOMAIN dead \cup {f}
        /\ \A g \in DOMAIN dead : g # f => dead'[g] = dead[g]
        /\ dead'[f] = wal[f]
    <3>1. f \in DOMAIN wal /\ "rename" \notin Faults
      BY <1>0 DEF PendingOnDisk, BenignFaults
    <3>2. /\ DOMAIN wal' = DOMAIN wal \ {f}
          /\ \A g \in DOMAIN wal \ {f} : wal'[g] = wal[g]
      BY <1>0, <2>1, MoveProperties
    <3>3. /\ DOMAIN dead' \subseteq DOMAIN dead \cup ({f} \cap DOMAIN wal)
          /\ DOMAIN dead \subseteq DOMAIN dead'
          /\ \A g \in DOMAIN dead' : g \notin {f} \cap DOMAIN wal => dead'[g] = dead[g]
      BY <1>0, <2>1, MoveProperties
    <3>4. \A g \in {f} \cap DOMAIN wal : g \in DOMAIN dead' /\ dead'[g] = wal[g]
      BY <1>0, <2>1, <3>1, MoveProperties
    <3>. QED
      BY <3>1, <3>2, <3>3, <3>4
  <2>3. /\ DOMAIN pending' = DOMAIN pending \ {f}
        /\ \A g \in DOMAIN pending \ {f} : pending'[g] = pending[g]
    BY <2>1 DEF Drop
  <2>4. phase[Recovery] = "idle"
    BY <1>0, <1>a, <2>1 DEF RecoveryHolds
  <2>5. WalDeadDisjoint' /\ PendingOnDisk'
    BY <1>0, <2>2, <2>3 DEF PendingOnDisk
  <2>6. LiveOnDisk'
    <3>1. \A q \in Requests : Live(q) => path[q] # f
      BY <1>0, <1>10 DEF RecoveryDisjoint
    <3>. QED
      BY <1>0, <2>1, <2>2, <3>1 DEF LiveOnDisk, Live, Readable
  <2>7. FanOutCovers'
    BY <1>0, <1>a, <2>1, <2>4 DEF FanOutCovers, Msg
  <2>8. \A q \in Requests : Readable(wal, path[q], MsgOf[q]) =>
           Readable(wal', path[q], MsgOf[q]) \/ Readable(dead', path[q], MsgOf[q])
    BY <2>2 DEF Readable
  <2>9. \A q \in Requests : Readable(dead, path[q], MsgOf[q]) => Readable(dead', path[q], MsgOf[q])
    BY <1>0, <2>2 DEF Readable
  <2>10. Kept' /\ EndsExhausted'
    BY <1>0, <2>1, <2>8, <2>9 DEF Kept, EndsExhausted, Attempted
  <2>. QED
    BY <1>0, <2>1, <2>5, <2>6, <2>7, <2>10
<1>11. ASSUME NEW f \in DOMAIN pending, RecoverStarts(f) PROVE Rest'
  <2>1. /\ phase' = [phase EXCEPT ![Recovery] = "queued"]
        /\ pending' = [pending EXCEPT ![f] = Bumped(@)]
        /\ UNCHANGED <<dead, path, todo, attempted, stable, enabled>>
    BY <1>11 DEF RecoverStarts, intake, config
  <2>2. /\ f \in DOMAIN wal /\ ~IsTorn(wal[f]) /\ pending[f].msg = wal[f].msg
        /\ pending[f] \in Entry
        /\ Bumped(pending[f]).msg = wal[f].msg /\ ~IsTorn(Bumped(pending[f]))
    BY <1>0, ChangedEntryFacts DEF PendingOnDisk, IsDirectory
  <2>3. /\ DOMAIN wal' = DOMAIN wal
        /\ \A g \in DOMAIN wal : g # f => wal'[g] = wal[g]
        /\ wal'[f].msg = wal[f].msg /\ ~IsTorn(wal'[f])
    <3>1. CASE wal' = Put(wal, f, Bumped(pending[f]))
      <4>1. /\ DOMAIN wal' = DOMAIN wal
            /\ \A g \in DOMAIN wal : g # f => wal'[g] = wal[g]
            /\ wal'[f] = Bumped(pending[f])
        BY <2>2, <3>1 DEF Put
      <4>. QED
        BY <2>2, <4>1
    <3>2. CASE UNCHANGED wal
      BY <2>2, <3>2
    <3>. QED
      BY <1>11, <3>1, <3>2 DEF RecoverStarts
  <2>4. \A q \in Requests : phase'[q] = phase[q]
    BY <1>a, <2>1
  <2>5. WalDeadDisjoint' /\ PendingOnDisk'
    <3>1. /\ DOMAIN pending' = DOMAIN pending /\ pending'[f] = Bumped(pending[f])
          /\ \A g \in DOMAIN pending : g # f => pending'[g] = pending[g]
      BY <1>11, <2>1
    <3>2. pending'[f].msg = wal[f].msg /\ ~IsTorn(pending'[f])
      BY <2>2, <3>1
    <3>. QED
      BY <1>0, <2>1, <2>2, <2>3, <3>1, <3>2 DEF PendingOnDisk
  <2>6. \A q \in Requests, m \in Msgs : Readable(wal, path[q], m) => Readable(wal', path[q], m)
    BY <2>2, <2>3 DEF Readable
  <2>7. LiveOnDisk'
    BY <1>0, <1>a, <2>1, <2>4, <2>6 DEF LiveOnDisk, Live
  <2>8. FanOutCovers'
    BY <1>0, <1>a, <2>1, <2>4 DEF FanOutCovers, Msg, Workers
  <2>9. Kept' /\ EndsExhausted'
    BY <1>0, <1>a, <2>1, <2>4, <2>6 DEF Kept, EndsExhausted, Attempted
  <2>. QED
    BY <1>0, <2>1, <2>5, <2>7, <2>8, <2>9
<1>12. ASSUME NEW f \in DOMAIN pending, CrashInUpdate(f) PROVE Rest'
  BY <1>12 DEF CrashInUpdate, BenignFaults
<1>13. CASE RecoverFinishes
  <2>1. /\ phase[Recovery] = "posting" /\ todo[Recovery] = {}
        /\ phase' = [phase EXCEPT ![Recovery] = "idle"]
        /\ pending' = Drop(pending, {current})
        /\ UNCHANGED <<dead, path, todo, attempted, stable, enabled>>
    BY <1>13 DEF RecoverFinishes, intake, config
  <2>2. /\ current \in DOMAIN pending /\ current \in DOMAIN wal
        /\ pending[current].msg = wal[current].msg
    BY <1>0, <2>1 DEF RecoveryHolds, PendingOnDisk
  <2>3. Attempted(wal[current].msg)
    BY <1>0, <2>1, <2>2 DEF FanOutCovers, Attempted, Msg, Workers
  <2>4. /\ DOMAIN wal' \subseteq DOMAIN wal
        /\ \A g \in DOMAIN wal' : wal'[g] = wal[g]
        /\ \A g \in DOMAIN wal : g # current => g \in DOMAIN wal'
    <3>1. CASE RemoveWal(current)
      BY <1>0, <3>1, RemoveWalProperties
    <3>2. CASE UNCHANGED wal
      BY <3>2
    <3>. QED
      BY <1>13, <3>1, <3>2 DEF RecoverFinishes
  <2>5. /\ DOMAIN pending' = DOMAIN pending \ {current}
        /\ \A g \in DOMAIN pending \ {current} : pending'[g] = pending[g]
    BY <2>1 DEF Drop
  <2>6. \A q \in Requests : phase'[q] = phase[q]
    BY <1>a, <2>1
  <2>7. WalDeadDisjoint' /\ PendingOnDisk'
    BY <1>0, <2>1, <2>4, <2>5 DEF PendingOnDisk
  <2>8. LiveOnDisk'
    <3>1. \A q \in Requests : Live(q) => path[q] # current
      BY <1>0, <2>2 DEF RecoveryDisjoint
    <3>. QED
      BY <1>0, <2>1, <2>4, <2>6, <3>1 DEF LiveOnDisk, Live, Readable
  <2>9. FanOutCovers'
    BY <1>0, <1>a, <2>1, <2>6 DEF FanOutCovers, Msg, Workers
  <2>10. Kept'
    <3>1. \A m : Attempted(m)' <=> Attempted(m)
      BY <2>1 DEF Attempted
    <3>2. \A q \in Requests : Readable(wal, path[q], MsgOf[q]) =>
             Readable(wal', path[q], MsgOf[q]) \/ Attempted(MsgOf[q])
      BY <2>3, <2>4 DEF Readable
    <3>. QED
      BY <1>0, <2>1, <3>1, <3>2 DEF Kept
  <2>11. EndsExhausted'
    BY <1>0, <2>1, <2>6 DEF EndsExhausted, Attempted
  <2>. QED
    BY <1>0, <2>1, <2>7, <2>8, <2>9, <2>10, <2>11
<1>14. ASSUME NEW t \in Targets, ToggleTarget(t) PROVE Rest'
  <2>1. /\ stable' = stable \cap enabled'
        /\ UNCHANGED <<wal, dead, phase, path, todo, pending, current, attempted>>
    BY <1>14 DEF ToggleTarget, disk, intake, recovery
  <2>2. WalDeadDisjoint' /\ PendingOnDisk' /\ LiveOnDisk'
    BY <1>0, <2>1 DEF PendingOnDisk, LiveOnDisk, Live, Readable
  <2>3. FanOutCovers' /\ Kept' /\ EndsExhausted'
    BY <1>0, <2>1 DEF FanOutCovers, Kept, EndsExhausted, Attempted, Readable, Msg
  <2>. QED
    BY <2>1, <2>2, <2>3
<1>15. CASE UNCHANGED <<wal, dead, phase, path, todo, pending, current, attempted,
                        stable, enabled>>
  <2>1. WalDeadDisjoint' /\ PendingOnDisk' /\ LiveOnDisk'
    BY <1>0, <1>15 DEF PendingOnDisk, LiveOnDisk, Live, Readable
  <2>2. FanOutCovers' /\ Kept' /\ EndsExhausted'
    BY <1>0, <1>15 DEF FanOutCovers, Kept, EndsExhausted, Attempted, Readable, Msg
  <2>. QED
    BY <1>0, <1>15, <2>1, <2>2
<1>16. ASSUME NEW c \in Caches, ReloadFails(c) PROVE Rest'
  BY <1>15, <1>16 DEF ReloadFails, disk, intake, recovery
<1>17. CASE Tick
  BY <1>15, <1>17 DEF Tick, disk, intake, recovery, config
<1>18. CASE UNCHANGED vars
  BY <1>15, <1>18 DEF vars
<1>. QED
  BY <1>1, <1>2, <1>3, <1>4, <1>5, <1>7, <1>8, <1>9, <1>10, <1>11, <1>12,
     <1>13, <1>14, <1>16, <1>17, <1>18 DEF Next, Dispatch

LEMMA DeliveryInvInit == Init => DeliveryInv
<1> SUFFICES ASSUME Init PROVE DeliveryInv
  OBVIOUS
<1>1. DOMAIN wal = {} /\ DOMAIN dead = {} /\ DOMAIN pending = {}
  BY EmptyIsDirectory DEF Init
<1>2. WalDeadDisjoint /\ PendingOnDisk /\ stable \subseteq enabled
  BY <1>1 DEF Init, WalDeadDisjoint, PendingOnDisk
<1>3. LiveOnDisk /\ Kept
  BY DEF Init, LiveOnDisk, Kept
<1>4. FanOutCovers /\ EndsExhausted
  BY DEF Init, FanOutCovers, EndsExhausted, Workers
<1>. QED
  BY <1>2, <1>3, <1>4, RecoveryInvInit DEF DeliveryInv

(***************************************************************************)
(* As long as the files survive and the configuration can be read, no      *)
(* callback that was answered with 200 is lost, across any number of       *)
(* crashes (the problem the header of wal.service.ts says it solves).      *)
(***************************************************************************)
THEOREM NothingLost ==
    ASSUME BenignFaults
    PROVE  Spec => []NoSilentLoss
<1>1. DeliveryInv => NoSilentLoss
  BY DEF DeliveryInv, Kept, NoSilentLoss, RecoveryInv, TypeInv, TypeOK
<1>2. DeliveryInv /\ [Next]_vars => DeliveryInv'
  BY DeliveryInvStep
<1>. QED
  BY <1>1, <1>2, DeliveryInvInit, PTL DEF Spec

(***************************************************************************)
(* Under the same conditions a callback's dispatch ends only when every    *)
(* target it is for was tried (comment at removeWal in handleCallback).    *)
(***************************************************************************)
THEOREM EndsOnlyExhausted ==
    ASSUME BenignFaults
    PROVE  Spec => []EndsExhausted
<1>1. DeliveryInv => EndsExhausted
  BY DEF DeliveryInv
<1>2. DeliveryInv /\ [Next]_vars => DeliveryInv'
  BY DeliveryInvStep
<1>. QED
  BY <1>1, <1>2, DeliveryInvInit, PTL DEF Spec

\* What NoOrphanFile says of one file.
Served(f) ==
    \/ IsTorn(wal[f]) \/ wal[f].attempts > 0
    \/ f \in DOMAIN pending
    \/ \E r \in Requests : Live(r) /\ path[r] = f
    \/ Attempted(wal[f].msg)

LEMMA NoOrphanStep ==
    ASSUME DeliveryInv, NoOrphanFile, [Next]_vars
    PROVE  NoOrphanFile'
<1> SUFFICES ASSUME up', NEW g \in DOMAIN wal'
             PROVE  Served(g)'
  BY DEF NoOrphanFile, Served
<1>0. /\ TypeOK /\ RecoveryHolds /\ PendingOnDisk /\ LiveOnDisk /\ FanOutCovers
      /\ RecoveryDisjoint
      /\ IsDirectory(wal) /\ IsDirectory(dead) /\ IsDirectory(pending)
  BY DEF DeliveryInv, RecoveryInv, TypeInv, TypeOK
<1>a. /\ \A r \in Requests : r \in Workers /\ r # Recovery
      /\ phase \in [Workers -> {"unsent", "persisted", "queued", "posting",
                                "done", "lost", "idle"}]
      /\ path \in [Requests -> Files \cup {NoFile}]
  BY <1>0 DEF Workers, TypeOK
<1>b. up /\ g \in DOMAIN wal => Served(g)
  BY DEF NoOrphanFile, Served
\* A file stays served where nothing that serves it is given up.
<1>c. ASSUME up, g \in DOMAIN wal, wal'[g] = wal[g],
             DOMAIN pending \subseteq DOMAIN pending',
             \A r \in Requests : Live(r) => Live(r)' /\ path'[r] = path[r],
             stable' \subseteq stable, attempted \subseteq attempted'
      PROVE  Served(g)'
  BY <1>b, <1>c DEF Served, Attempted
<1>1. ASSUME NEW r \in Requests, Receive(r) PROVE Served(g)'
  <2>1. /\ up /\ phase[r] = "unsent" /\ phase' = [phase EXCEPT ![r] = "persisted"]
        /\ UNCHANGED <<pending, stable, attempted>>
    BY <1>1 DEF Receive, recovery, config
  <2>2. path' = path \/ path' = [path EXCEPT ![r] = WalFileName(MsgOf[r])]
    BY <1>1 DEF Receive, WriteWal
  <2>3. \A q \in Requests : Live(q) => Live(q)' /\ path'[q] = path[q]
    BY <1>a, <2>1, <2>2 DEF Live
  <2>4. CASE g \in DOMAIN wal /\ wal'[g] = wal[g]
    BY <1>c, <2>1, <2>3, <2>4
  <2>5. CASE /\ g = WalFileName(MsgOf[r])
             /\ path' = [path EXCEPT ![r] = WalFileName(MsgOf[r])]
    BY <1>a, <2>1, <2>5 DEF Served, Live
  <2>6. CASE IsTorn(wal'[g])
    BY <2>6 DEF Served
  <2>7. \/ g \in DOMAIN wal /\ wal'[g] = wal[g]
        \/ /\ g = WalFileName(MsgOf[r])
           /\ path' = [path EXCEPT ![r] = WalFileName(MsgOf[r])]
        \/ IsTorn(wal'[g])
    BY <1>1 DEF Receive, WriteWal, Put, IsTorn, Torn, NewEntry
  <2>. QED
    BY <2>4, <2>5, <2>6, <2>7
<1>2. ASSUME NEW r \in Requests, Reply(r) PROVE Served(g)'
  <2>1. /\ up /\ phase[r] = "persisted" /\ phase' = [phase EXCEPT ![r] = "queued"]
        /\ UNCHANGED <<wal, path, pending, stable, attempted>>
    BY <1>2 DEF Reply, disk, recovery, config
  <2>. QED
    BY <1>a, <1>c, <2>1 DEF Live
<1>3. ASSUME NEW r \in Requests, FinishCallback(r) PROVE Served(g)'
  <2>1. /\ up /\ phase[r] = "posting" /\ todo[r] = {}
        /\ phase' = [phase EXCEPT ![r] = "done"]
        /\ UNCHANGED <<path, pending, stable, attempted>>
    BY <1>3 DEF FinishCallback, intake, recovery, config
  <2>2. g \in DOMAIN wal /\ wal'[g] = wal[g]
    BY <1>0, <1>3, RemoveWalProperties DEF FinishCallback
  <2>3. CASE g = path[r]
    <3>1. wal'[g].msg = MsgOf[r]
      BY <1>0, <2>1, <2>2, <2>3, FilesFacts DEF LiveOnDisk, Readable, Live, IsDirectory
    <3>2. Attempted(MsgOf[r])'
      BY <1>0, <1>a, <2>1 DEF FanOutCovers, Attempted, Msg
    <3>. QED
      BY <3>1, <3>2 DEF Served, Attempted
  <2>4. CASE g # path[r]
    BY <1>a, <1>b, <2>1, <2>2, <2>4 DEF Served, Attempted, Live
  <2>. QED
    BY <2>3, <2>4
<1>4. ASSUME NEW w \in Workers, BeginDispatch(w) PROVE Served(g)'
  <2>1. /\ up /\ phase[w] = "queued" /\ phase' = [phase EXCEPT ![w] = "posting"]
        /\ UNCHANGED <<wal, path, pending, stable, attempted>>
    BY <1>4 DEF BeginDispatch, disk, intake, recovery
  <2>. QED
    BY <1>a, <1>c, <2>1 DEF Live
<1>5. ASSUME NEW w \in Workers, NEW t \in Targets, NEW success \in BOOLEAN,
             PostSettles(w, t, success)
      PROVE  Served(g)'
  BY <1>5, <1>c DEF PostSettles, disk, intake, config, Live
<1>6. ASSUME LoseMemory PROVE FALSE
  BY <1>6 DEF LoseMemory
<1>7. CASE Restart
  <2>1. DOMAIN wal' = DOMAIN wal \ TornFiles
    BY <1>0, <1>7, MoveProperties DEF Restart
  <2>. QED
    BY <1>7, <2>1 DEF Restart, Drop, Served
<1>8. ASSUME NEW f \in DOMAIN pending, RecoverGivesUp(f) PROVE Served(g)'
  <2>1. /\ up /\ MoveToDeadLetter({f}) /\ pending' = Drop(pending, {f})
        /\ UNCHANGED <<phase, path, stable, attempted>>
    BY <1>8 DEF RecoverGivesUp, RecoveryTakes, intake, config
  <2>2. /\ DOMAIN wal' = DOMAIN wal \ {f}
        /\ \A h \in DOMAIN wal \ {f} : wal'[h] = wal[h]
    BY <1>0, <2>1, MoveProperties
  <2>3. g \in DOMAIN wal /\ g # f /\ wal'[g] = wal[g]
    BY <2>2
  <2>. QED
    BY <1>b, <2>1, <2>3 DEF Served, Attempted, Live, Drop
<1>9. ASSUME NEW f \in DOMAIN pending, RecoverStarts(f) PROVE Served(g)'
  <2>1. /\ up /\ phase' = [phase EXCEPT ![Recovery] = "queued"]
        /\ DOMAIN pending' = DOMAIN pending
        /\ UNCHANGED <<path, stable, attempted>>
    BY <1>9 DEF RecoverStarts, MayRecover, RecoveryTakes, intake, config
  <2>2. g # f => g \in DOMAIN wal /\ wal'[g] = wal[g]
    BY <1>9 DEF RecoverStarts, Put
  <2>3. CASE g = f
    BY <2>1, <2>3 DEF Served
  <2>4. CASE g # f
    BY <1>a, <1>c, <2>1, <2>2, <2>4 DEF Live
  <2>. QED
    BY <2>3, <2>4
<1>10. CASE RecoverFinishes
  <2>1. /\ up /\ phase[Recovery] = "posting" /\ todo[Recovery] = {}
        /\ phase' = [phase EXCEPT ![Recovery] = "idle"]
        /\ pending' = Drop(pending, {current})
        /\ UNCHANGED <<path, stable, attempted>>
    BY <1>10 DEF RecoverFinishes, intake, config
  <2>2. g \in DOMAIN wal /\ wal'[g] = wal[g]
    BY <1>0, <1>10, RemoveWalProperties DEF RecoverFinishes
  <2>3. CASE g = current
    <3>1. pending[current].msg = wal'[g].msg
      BY <1>0, <2>1, <2>2, <2>3 DEF RecoveryHolds, PendingOnDisk
    <3>2. Attempted(pending[current].msg)
      BY <1>0, <2>1 DEF FanOutCovers, Attempted, Msg, Workers
    <3>. QED
      BY <2>1, <3>1, <3>2 DEF Served, Attempted
  <2>4. CASE g # current
    BY <1>a, <1>b, <2>1, <2>2, <2>4 DEF Served, Attempted, Live, Drop
  <2>. QED
    BY <2>3, <2>4
<1>11. ASSUME NEW t \in Targets, ToggleTarget(t) PROVE Served(g)'
  BY <1>11, <1>c DEF ToggleTarget, disk, intake, recovery, Live
<1>12. ASSUME up' = up,
              UNCHANGED <<wal, phase, path, pending, attempted, stable>>
       PROVE  Served(g)'
  BY <1>12, <1>c DEF Live
<1>13. ASSUME NEW c \in Caches, ReloadFails(c) PROVE Served(g)'
  BY <1>12, <1>13 DEF ReloadFails, disk, intake, recovery
<1>14. CASE Tick \/ UNCHANGED vars
  BY <1>12, <1>14 DEF Tick, vars, disk, intake, recovery, config
<1>15. CASE Crash \/ \E r \in Requests : CrashInWriteWal(r)
  BY <1>6, <1>15 DEF Crash, CrashInWriteWal
<1>16. ASSUME NEW f \in DOMAIN pending, CrashInUpdate(f) PROVE Served(g)'
  BY <1>6, <1>16 DEF CrashInUpdate
<1>. QED
  BY <1>1, <1>2, <1>3, <1>4, <1>5, <1>7, <1>8, <1>9, <1>10, <1>11, <1>13,
     <1>14, <1>15, <1>16 DEF Next, Dispatch

(***************************************************************************)
(* Under the same conditions no file waits unserved for the next start     *)
(* while the process runs (recoverPendingDispatches scans only once).      *)
(***************************************************************************)
THEOREM NoOrphans ==
    ASSUME BenignFaults
    PROVE  Spec => []NoOrphanFile
<1>1. Init => NoOrphanFile
  BY EmptyIsDirectory DEF Init, NoOrphanFile
<1>2. DeliveryInv /\ NoOrphanFile /\ [Next]_vars => NoOrphanFile'
  BY NoOrphanStep
<1>3. DeliveryInv /\ [Next]_vars => DeliveryInv'
  BY DeliveryInvStep
<1>. QED
  BY <1>1, <1>2, <1>3, DeliveryInvInit, PTL DEF Spec

(***************************************************************************)
(* The refinement of AtLeastOnce.  AckedWasSent adds that a 200 is never   *)
(* sent for a request whose handling has not begun.                        *)
(***************************************************************************)

AckedWasSent == \A r \in acked : r \in Requests /\ phase[r] \notin {"unsent", "persisted"}

PromiseInv == DeliveryInv /\ AckedWasSent

LEMMA AckedWasSentStep ==
    ASSUME PromiseInv, [Next]_vars
    PROVE  AckedWasSent'
<1>0. /\ TypeInv /\ AckedWasSent /\ phase \in [Workers -> {"unsent", "persisted",
             "queued", "posting", "done", "lost", "idle"}]
      /\ \A r \in Requests : r \in Workers
  BY DEF PromiseInv, DeliveryInv, RecoveryInv, TypeInv, TypeOK, Workers
<1>1. ASSUME NEW r \in Requests, Receive(r) \/ Reply(r) \/ FinishCallback(r)
      PROVE  AckedWasSent'
  BY <1>0, <1>1 DEF Receive, Reply, FinishCallback, intake, AckedWasSent
<1>2. ASSUME NEW w \in Workers, BeginDispatch(w) PROVE AckedWasSent'
  BY <1>0, <1>2 DEF BeginDispatch, intake, AckedWasSent
<1>3. ASSUME NEW dying, phase' = PhasesAfterCrash(dying), LoseMemory PROVE AckedWasSent'
  <2>1. \A r \in Requests : phase'[r] \in {"lost", phase[r]}
    BY <1>0, <1>3 DEF PhasesAfterCrash, Workers
  <2>2. \A r \in Requests : phase'[r] = "persisted" => phase[r] = "unsent"
    BY <1>0, <1>3, CrashFacts DEF Live
  <2>. QED
    BY <1>0, <1>3, <2>1, <2>2 DEF LoseMemory, intake, AckedWasSent
<1>4. CASE \/ Crash \/ \E r \in Requests : CrashInWriteWal(r)
           \/ \E f \in DOMAIN pending : CrashInUpdate(f)
  BY <1>3, <1>4 DEF Crash, CrashInWriteWal, CrashInUpdate
<1>5. ASSUME NEW f \in DOMAIN pending, RecoverStarts(f) PROVE AckedWasSent'
  BY <1>0, <1>5 DEF RecoverStarts, intake, AckedWasSent
<1>6. CASE RecoverFinishes
  BY <1>0, <1>6 DEF RecoverFinishes, intake, AckedWasSent
<1>7. CASE UNCHANGED <<phase, acked>>
  BY <1>0, <1>7 DEF AckedWasSent
<1>8. ASSUME NEW w \in Workers, NEW t \in Targets, NEW success \in BOOLEAN,
             PostSettles(w, t, success)
      PROVE  AckedWasSent'
  BY <1>7, <1>8 DEF PostSettles, intake
<1>9. CASE Restart
  BY <1>7, <1>9 DEF Restart, intake
<1>10. ASSUME NEW f \in DOMAIN pending, RecoverGivesUp(f) PROVE AckedWasSent'
  BY <1>7, <1>10 DEF RecoverGivesUp, intake
<1>11. ASSUME NEW t \in Targets, ToggleTarget(t) PROVE AckedWasSent'
  BY <1>7, <1>11 DEF ToggleTarget, intake
<1>12. ASSUME NEW c \in Caches, ReloadFails(c) PROVE AckedWasSent'
  BY <1>7, <1>12 DEF ReloadFails, intake
<1>13. CASE Tick
  BY <1>7, <1>13 DEF Tick, intake
<1>14. CASE UNCHANGED vars
  BY <1>7, <1>14 DEF vars
<1>. QED
  BY <1>1, <1>2, <1>4, <1>5, <1>6, <1>8, <1>9, <1>10, <1>11, <1>12, <1>13, <1>14
  DEF Next, Dispatch

\* The one step that makes a promise: the 200, which changes no file.
Answered(r) ==
    /\ r \notin acked /\ acked' = acked \cup {r}
    /\ UNCHANGED <<path, wal, dead, attempted, stable>>

\* What no step takes back: results, dead-letter files, answers and paths.
LEMMA StepIsMonotone ==
    ASSUME PromiseInv, [Next]_vars
    PROVE  /\ stable' \subseteq stable
           /\ attempted \subseteq attempted'
           /\ \A g \in DOMAIN dead : g \in DOMAIN dead' /\ dead'[g] = dead[g]
           /\ acked' = acked \/ \E r \in Requests : Answered(r)
           /\ \A r \in acked : path'[r] = path[r]
<1> DEFINE Goal == /\ stable' \subseteq stable
                   /\ attempted \subseteq attempted'
                   /\ \A g \in DOMAIN dead : g \in DOMAIN dead' /\ dead'[g] = dead[g]
                   /\ acked' = acked \/ \E r \in Requests : Answered(r)
                   /\ \A r \in acked : path'[r] = path[r]
<1>0. /\ AckedWasSent /\ TypeOK /\ WalDeadDisjoint
      /\ path \in [Requests -> Files \cup {NoFile}]
  BY DEF PromiseInv, DeliveryInv, RecoveryInv, TypeInv, TypeOK
<1>1. ASSUME NEW r \in Requests, Receive(r) PROVE Goal
  <2>1. /\ UNCHANGED <<stable, attempted, dead, acked>> /\ r \notin acked
    BY <1>0, <1>1 DEF Receive, config, AckedWasSent
  <2>2. path' = path \/ path' = [path EXCEPT ![r] = WalFileName(MsgOf[r])]
    BY <1>1 DEF Receive, WriteWal
  <2>. QED
    BY <1>0, <2>1, <2>2 DEF AckedWasSent
<1>2. CASE UNCHANGED <<stable, attempted, dead, acked, path>>
  BY <1>2
<1>3. ASSUME NEW r \in Requests, Reply(r) PROVE Goal
  <2>1. r \notin acked
    BY <1>0, <1>3 DEF Reply, AckedWasSent
  <2>2. Answered(r)
    BY <1>3, <2>1 DEF Reply, config, disk, Answered
  <2>. QED
    BY <2>2 DEF Answered
<1>4. ASSUME NEW r \in Requests, FinishCallback(r) PROVE Goal
  BY <1>2, <1>4 DEF FinishCallback, intake, config
<1>5. ASSUME NEW w \in Workers, BeginDispatch(w) PROVE Goal
  BY <1>2, <1>5 DEF BeginDispatch, disk, intake
<1>6. ASSUME NEW w \in Workers, NEW t \in Targets, NEW success \in BOOLEAN,
             PostSettles(w, t, success)
      PROVE  Goal
  BY <1>6 DEF PostSettles, disk, intake, config
<1>7. CASE \/ Crash \/ \E r \in Requests : CrashInWriteWal(r)
           \/ \E f \in DOMAIN pending : CrashInUpdate(f)
  BY <1>2, <1>7 DEF Crash, CrashInWriteWal, CrashInUpdate, LoseMemory, intake
<1>8. ASSUME NEW F, MoveToDeadLetter(F), UNCHANGED <<stable, attempted, acked, path>>
      PROVE  Goal
  <2>1. /\ DOMAIN dead \subseteq DOMAIN dead'
        /\ \A g \in DOMAIN dead' : g \notin F \cap DOMAIN wal => dead'[g] = dead[g]
    BY <1>0, <1>8, MoveProperties
  <2>. QED
    BY <1>0, <1>8, <2>1 DEF WalDeadDisjoint
<1>9. CASE Restart
  BY <1>8, <1>9 DEF Restart, intake
<1>10. ASSUME NEW f \in DOMAIN pending, RecoverGivesUp(f) PROVE Goal
  BY <1>8, <1>10 DEF RecoverGivesUp, intake, config
<1>11. ASSUME NEW f \in DOMAIN pending, RecoverStarts(f) PROVE Goal
  BY <1>2, <1>11 DEF RecoverStarts, intake, config
<1>12. CASE RecoverFinishes
  BY <1>2, <1>12 DEF RecoverFinishes, intake, config
<1>13. ASSUME NEW t \in Targets, ToggleTarget(t) PROVE Goal
  BY <1>13 DEF ToggleTarget, disk, intake
<1>14. ASSUME NEW c \in Caches, ReloadFails(c) PROVE Goal
  BY <1>2, <1>14 DEF ReloadFails, disk, intake
<1>15. CASE Tick
  BY <1>2, <1>15 DEF Tick, disk, intake, config
<1>16. CASE UNCHANGED vars
  BY <1>2, <1>16 DEF vars
<1>. QED
  BY <1>1, <1>3, <1>4, <1>5, <1>6, <1>7, <1>9, <1>10, <1>11, <1>12, <1>13,
     <1>14, <1>15, <1>16 DEF Next, Dispatch

\* With the invariant, a promise is in one of three states, never "lost".
LEMMA PromiseCases ==
    ASSUME PromiseInv, NEW r \in Requests
    PROVE  /\ PromiseOf(r) \in {"none", "promised", "discharged"}
           /\ PromiseOf(r) = "none" <=> r \notin acked \/ path[r] = NoFile
           /\ PromiseOf(r) = "discharged" <=>
                 /\ r \in acked /\ path[r] # NoFile
                 /\ Attempted(MsgOf[r]) \/ Readable(dead, path[r], MsgOf[r])
<1>1. path[r] # NoFile => \/ Readable(wal, path[r], MsgOf[r])
                         \/ Readable(dead, path[r], MsgOf[r])
                         \/ Attempted(MsgOf[r])
  BY DEF PromiseInv, DeliveryInv, Kept
<1>. QED
  BY <1>1 DEF PromiseOf

(***************************************************************************)
(* Without destructive faults the dispatcher implements AtLeastOnce: no    *)
(* step of intake, dispatch, crash or recovery withdraws a promise.        *)
(***************************************************************************)
THEOREM DeliveryRefinesAtLeastOnce ==
    ASSUME BenignFaults
    PROVE  Spec => ImplementsPromise
<1> DEFINE st == [r \in Requests |-> PromiseOf(r)]
<1>1. Init => PromiseInv
  BY DeliveryInvInit DEF PromiseInv, AckedWasSent, Init
<1>2. PromiseInv /\ [Next]_vars => PromiseInv'
  BY DeliveryInvStep, AckedWasSentStep DEF PromiseInv
<1>3. Init => Promised!Init
  BY DEF Init, Promised!Init, PromiseOf
<1>4. PromiseInv /\ PromiseInv' /\ [Next]_vars => [Promised!Next]_st
  <2> SUFFICES ASSUME PromiseInv, PromiseInv', [Next]_vars
               PROVE  [Promised!Next]_st
    OBVIOUS
  <2>0. /\ stable' \subseteq stable /\ attempted \subseteq attempted'
        /\ \A g \in DOMAIN dead : g \in DOMAIN dead' /\ dead'[g] = dead[g]
        /\ acked' = acked \/ \E r \in Requests : Answered(r)
        /\ \A r \in acked : path'[r] = path[r]
    BY StepIsMonotone
  <2>1. \A r \in Requests :
          /\ PromiseOf(r) \in {"none", "promised", "discharged"}
          /\ PromiseOf(r) = "none" <=> r \notin acked \/ path[r] = NoFile
          /\ PromiseOf(r) = "discharged" <=>
               /\ r \in acked /\ path[r] # NoFile
               /\ Attempted(MsgOf[r]) \/ Readable(dead, path[r], MsgOf[r])
    BY PromiseCases
  <2>2. \A r \in Requests :
          /\ PromiseOf(r)' \in {"none", "promised", "discharged"}
          /\ PromiseOf(r)' = "none" <=> r \notin acked' \/ path'[r] = NoFile
          /\ PromiseOf(r)' = "discharged" <=>
               /\ r \in acked' /\ path'[r] # NoFile
               /\ Attempted(MsgOf[r])' \/ Readable(dead', path'[r], MsgOf[r])
    <3>1. \A r \in Requests :
            path'[r] # NoFile => \/ Readable(wal', path'[r], MsgOf[r])
                                \/ Readable(dead', path'[r], MsgOf[r])
                                \/ Attempted(MsgOf[r])'
      BY DEF PromiseInv, DeliveryInv, Kept
    <3>. QED
      BY <3>1 DEF PromiseOf
  <2>3. \A m \in Msgs : Attempted(m) => Attempted(m)'
    BY <2>0 DEF Attempted
  <2>4. \A f, m : Readable(dead, f, m) => Readable(dead', f, m)
    BY <2>0 DEF Readable
  <2>5. CASE acked' = acked
    <3> DEFINE S == {r \in Requests : PromiseOf(r) = "promised"
                                      /\ PromiseOf(r)' = "discharged"}
    <3>1. \A r \in Requests : PromiseOf(r) = "none" <=> PromiseOf(r)' = "none"
      BY <2>0, <2>1, <2>2, <2>5
    <3>2. \A r \in Requests :
            PromiseOf(r) = "discharged" => PromiseOf(r)' = "discharged"
      BY <2>0, <2>1, <2>2, <2>3, <2>4, <2>5
    <3>3. \A r \in Requests :
            PromiseOf(r)' = IF r \in S THEN "discharged" ELSE PromiseOf(r)
      BY <2>1, <2>2, <3>1, <3>2
    <3>4. S \in SUBSET Requests /\ Promised!Discharge(S)
      <4>1. st' = [r \in Requests |-> IF r \in S THEN "discharged" ELSE st[r]]
        BY <3>3
      <4>. QED
        BY <4>1 DEF Promised!Discharge
    <3>. QED
      BY <3>4 DEF Promised!Next
  <2>6. ASSUME NEW r \in Requests, Answered(r) PROVE [Promised!Next]_st
    <3>1. \A q \in Requests : q # r => PromiseOf(q)' = PromiseOf(q)
      BY <2>6 DEF Answered, PromiseOf, Attempted, Readable
    <3>2. PromiseOf(r) = "none"
      BY <2>1, <2>6 DEF Answered
    <3>3. st' = [st EXCEPT ![r] = PromiseOf(r)']
      BY <3>1
    <3>4. CASE PromiseOf(r)' = "none"
      BY <3>1, <3>2, <3>4
    <3>5. CASE PromiseOf(r)' \in {"promised", "discharged"}
      <4>1. Promised!Promise(r)
        BY <3>2, <3>3, <3>5 DEF Promised!Promise
      <4>. QED
        BY <4>1 DEF Promised!Next
    <3>. QED
      BY <2>2, <3>4, <3>5
  <2>. QED
    BY <2>0, <2>5, <2>6
<1>. QED
  BY <1>1, <1>2, <1>3, <1>4, PTL DEF Spec, ImplementsPromise, Promised!Spec

(***************************************************************************)
(* Attempts.  A file recovery has not taken yet counts fewer attempts than *)
(* there were crashes: AttemptsInv says so of the list and, while the      *)
(* process is down, of the directory the next start will scan.             *)
(***************************************************************************)

Fresh(e) == e.attempts <= MaxAttempts /\ e.attempts < crashes

AttemptsInv ==
    /\ TypeInv /\ AttemptsBounded
    /\ \A f \in DOMAIN pending : f # current => Fresh(pending[f])
    /\ ~up => \A f \in DOMAIN wal : Fresh(wal[f])

LEMMA AttemptsInit == Init => AttemptsInv
<1>1. Init => TypeInv
  BY TypeInvInit
<1>. QED
  BY <1>1 DEF Init, AttemptsInv, AttemptsBounded, Empty

LEMMA AttemptsCrash ==
    ASSUME AttemptsInv, LoseMemory, TypeInv',
           \A f \in DOMAIN wal' : WithinLimits(wal'[f]) /\ wal'[f].attempts \in Nat
    PROVE  AttemptsInv'
<1>1. crashes \in Nat /\ crashes' = crashes + 1 /\ dead' = dead
  BY DEF LoseMemory, AttemptsInv, TypeInv, TypeOK
<1>2. \A f \in DOMAIN dead : dead[f].attempts \in Nat /\ WithinLimits(dead[f])
  BY DEF AttemptsInv, AttemptsBounded, TypeInv, TypeOK, IsDirectory, Entry
<1>3. AttemptsBounded'
  BY <1>1, <1>2 DEF AttemptsBounded, WithinLimits
<1>4. \A f \in DOMAIN wal' :
        wal'[f].attempts <= MaxAttempts /\ wal'[f].attempts < crashes'
  BY <1>1 DEF WithinLimits
<1>5. DOMAIN pending' = {}
  BY EmptyIsDirectory DEF LoseMemory
<1>. QED
  BY <1>3, <1>4, <1>5 DEF AttemptsInv, Fresh

LEMMA AttemptsStep == AttemptsInv /\ [Next]_vars => AttemptsInv'
<1> SUFFICES ASSUME AttemptsInv, [Next]_vars PROVE AttemptsInv'
  OBVIOUS
<1> USE DEF Fresh, WithinLimits
<1>0. /\ TypeInv /\ TypeInv' /\ TypeOK /\ AttemptsBounded /\ crashes \in Nat
      /\ IsDirectory(wal) /\ IsDirectory(dead) /\ IsDirectory(pending)
      /\ \A f \in DOMAIN wal : wal[f].attempts \in Nat
      /\ \A f \in DOMAIN pending : pending[f].attempts \in Nat /\ pending[f] \in Entry
      /\ \A f \in DOMAIN pending : f # NoFile /\ f \in Files
  <2>1. TypeInv'
    BY TypeInvStep DEF AttemptsInv
  <2>. QED
    BY <2>1 DEF AttemptsInv, TypeInv, TypeOK, IsDirectory, Entry, Files
<1>1. \A f \in DOMAIN pending : f # current => Fresh(pending[f])
  BY DEF AttemptsInv
<1>2. ASSUME NEW f, NEW e,
             f \in Files /\ e \in Entry /\ WithinLimits(e),
             wal' = Put(wal, f, e)
      PROVE  \A g \in DOMAIN wal' : WithinLimits(wal'[g]) /\ wal'[g].attempts \in Nat
  BY <1>0, <1>2 DEF Put, AttemptsBounded, Entry
<1>3. ASSUME NEW F, wal' = Drop(wal, F)
      PROVE  \A g \in DOMAIN wal' : g \in DOMAIN wal /\ wal'[g] = wal[g]
  BY <1>3 DEF Drop
<1>4. ASSUME NEW m \in Msgs
      PROVE  /\ WalFileName(m) \in Files
             /\ NewEntry(m) \in Entry /\ WithinLimits(NewEntry(m))
             /\ Torn(NewEntry(m)) \in Entry /\ WithinLimits(Torn(NewEntry(m)))
  BY <1>0 DEF WalFileName, NewEntry, Torn, Entry, Files, TypeOK
<1>5. CASE UNCHANGED <<up, crashes, wal, dead, pending, current>>
  BY <1>0, <1>5 DEF AttemptsInv, AttemptsBounded
<1>6. ASSUME up, UNCHANGED <<up, crashes, dead, pending, current>>,
             \A g \in DOMAIN wal' : WithinLimits(wal'[g])
      PROVE  AttemptsInv'
  BY <1>0, <1>1, <1>6 DEF AttemptsInv, AttemptsBounded
<1>7. ASSUME NEW r \in Requests, Receive(r) PROVE AttemptsInv'
  <2>1. /\ UNCHANGED <<up, crashes, dead, pending, current>> /\ up
    BY <1>7 DEF Receive, recovery
  <2>2. CASE UNCHANGED wal
    BY <1>5, <2>1, <2>2
  <2>3. CASE \/ wal' = Put(wal, WalFileName(MsgOf[r]), NewEntry(MsgOf[r]))
             \/ wal' = Put(wal, WalFileName(MsgOf[r]), Torn(NewEntry(MsgOf[r])))
    BY <1>2, <1>4, <1>6, <2>1, <2>3
  <2>. QED
    BY <1>7, <2>2, <2>3 DEF Receive, WriteWal
<1>8. ASSUME NEW r \in Requests, Reply(r) PROVE AttemptsInv'
  BY <1>5, <1>8 DEF Reply, disk, recovery
<1>9. ASSUME NEW f, RemoveWal(f) PROVE \A g \in DOMAIN wal' : WithinLimits(wal'[g])
  <2>1. \A g \in DOMAIN wal' : g \in DOMAIN wal /\ wal'[g] = wal[g]
    BY <1>3, <1>9 DEF RemoveWal
  <2>. QED
    BY <1>0, <2>1 DEF AttemptsBounded
<1>10. ASSUME NEW r \in Requests, FinishCallback(r) PROVE AttemptsInv'
  <2>1. UNCHANGED <<up, crashes, dead, pending, current>> /\ up
    BY <1>10 DEF FinishCallback, recovery
  <2>2. CASE UNCHANGED wal
    BY <1>5, <2>1, <2>2
  <2>3. CASE RemoveWal(path[r])
    BY <1>6, <1>9, <2>1, <2>3
  <2>. QED
    BY <1>10, <2>2, <2>3 DEF FinishCallback
<1>11. ASSUME NEW w \in Workers, BeginDispatch(w) PROVE AttemptsInv'
  BY <1>5, <1>11 DEF BeginDispatch, disk, recovery
<1>12. ASSUME NEW w \in Workers, NEW t \in Targets, NEW success \in BOOLEAN,
              PostSettles(w, t, success)
       PROVE  AttemptsInv'
  BY <1>5, <1>12 DEF PostSettles, disk
<1>13. CASE Crash
  <2>1. LoseMemory /\ wal' = wal
    BY <1>13 DEF Crash
  <2>. QED
    BY <1>0, <2>1, AttemptsCrash DEF AttemptsBounded
<1>14. ASSUME NEW r \in Requests, CrashInWriteWal(r) PROVE AttemptsInv'
  <2>1. /\ LoseMemory
        /\ wal' = Put(wal, WalFileName(MsgOf[r]), Torn(NewEntry(MsgOf[r])))
    BY <1>14 DEF CrashInWriteWal
  <2>2. \A g \in DOMAIN wal' : WithinLimits(wal'[g]) /\ wal'[g].attempts \in Nat
    BY <1>2, <1>4, <2>1
  <2>. QED
    BY <1>0, <2>1, <2>2, AttemptsCrash
<1>15. ASSUME NEW f \in DOMAIN pending, MayRecover(f)
       PROVE  /\ Bumped(pending[f]) \in Entry
              /\ WithinLimits(Bumped(pending[f]))
              /\ Torn(Bumped(pending[f])) \in Entry
              /\ WithinLimits(Torn(Bumped(pending[f])))
  <2>1. current = NoFile /\ pending[f].attempts < crashes
    BY <1>0, <1>1, <1>15 DEF MayRecover, RecoveryTakes
  <2>2. pending[f].attempts < MaxAttempts
    BY <1>0, <1>15 DEF MayRecover, Exhausted
  <2>3. /\ Bumped(pending[f]) \in Entry /\ Torn(Bumped(pending[f])) \in Entry
    BY <1>0, ChangedEntryFacts
  <2>4. Bumped(pending[f]).attempts = pending[f].attempts + 1
    BY <1>0 DEF Bumped, Entry
  <2>5. Torn(Bumped(pending[f])).attempts = Bumped(pending[f]).attempts
    BY <2>3 DEF Torn, Entry
  <2>6. /\ WithinLimits(Bumped(pending[f]))
        /\ WithinLimits(Torn(Bumped(pending[f])))
    BY <1>0, <2>1, <2>2, <2>4, <2>5
  <2>. QED
    BY <2>3, <2>6
<1>16. ASSUME NEW f \in DOMAIN pending, CrashInUpdate(f) PROVE AttemptsInv'
  <2>1. LoseMemory /\ MayRecover(f) /\ wal' = Put(wal, f, Torn(Bumped(pending[f])))
    BY <1>16 DEF CrashInUpdate
  <2>2. \A g \in DOMAIN wal' : WithinLimits(wal'[g]) /\ wal'[g].attempts \in Nat
    BY <1>0, <1>2, <1>15, <2>1
  <2>. QED
    BY <1>0, <2>1, <2>2, AttemptsCrash
<1>17. ASSUME NEW F, MoveToDeadLetter(F), crashes' = crashes
       PROVE  AttemptsBounded'
  <2>1. /\ \A g \in DOMAIN wal' : g \in DOMAIN wal /\ wal'[g] = wal[g]
        /\ \A g \in DOMAIN dead' : \/ (g \in DOMAIN dead /\ dead'[g] = dead[g])
                                  \/ (g \in DOMAIN wal /\ dead'[g] = wal[g])
    BY <1>3, <1>17 DEF MoveToDeadLetter
  <2>. QED
    BY <1>0, <1>17, <2>1 DEF AttemptsBounded
<1>18. CASE Restart
  <2>1. /\ ~up /\ up' /\ crashes' = crashes /\ current' = current
        /\ MoveToDeadLetter(TornFiles) /\ pending' = Drop(wal, TornFiles)
    BY <1>18 DEF Restart
  <2>2. \A f \in DOMAIN pending' : f \in DOMAIN wal /\ pending'[f] = wal[f]
    BY <2>1 DEF Drop
  <2>3. \A f \in DOMAIN wal : Fresh(wal[f])
    BY <2>1 DEF AttemptsInv
  <2>. QED
    BY <1>0, <1>17, <2>1, <2>2, <2>3 DEF AttemptsInv
<1>19. ASSUME NEW f \in DOMAIN pending, RecoverGivesUp(f) PROVE AttemptsInv'
  <2>1. /\ up /\ up' /\ crashes' = crashes /\ current' = current
        /\ MoveToDeadLetter({f}) /\ pending' = Drop(pending, {f})
    BY <1>19 DEF RecoverGivesUp, RecoveryTakes
  <2>2. \A g \in DOMAIN pending' : g \in DOMAIN pending /\ pending'[g] = pending[g]
    BY <2>1 DEF Drop
  <2>. QED
    BY <1>0, <1>1, <1>17, <2>1, <2>2 DEF AttemptsInv
<1>20. ASSUME NEW f \in DOMAIN pending, RecoverStarts(f) PROVE AttemptsInv'
  <2>1. /\ up /\ up' /\ MayRecover(f) /\ crashes' = crashes /\ dead' = dead
        /\ pending' = [pending EXCEPT ![f] = Bumped(@)] /\ current' = f
        /\ current = NoFile
    BY <1>20 DEF RecoverStarts, MayRecover, RecoveryTakes
  <2>2. \A g \in DOMAIN wal' : WithinLimits(wal'[g])
    <3>1. CASE wal' = Put(wal, f, Bumped(pending[f]))
      BY <1>0, <1>2, <1>15, <2>1, <3>1
    <3>2. CASE wal' = wal
      BY <1>0, <3>2 DEF AttemptsBounded
    <3>. QED
      BY <1>20, <3>1, <3>2 DEF RecoverStarts
  <2>3. \A g \in DOMAIN pending' : g # current' => Fresh(pending'[g])
    BY <1>0, <1>1, <2>1
  <2>. QED
    BY <1>0, <2>1, <2>2, <2>3 DEF AttemptsInv, AttemptsBounded
<1>21. CASE RecoverFinishes
  <2>1. /\ up /\ up' /\ crashes' = crashes /\ dead' = dead
        /\ pending' = Drop(pending, {current})
    BY <1>21 DEF RecoverFinishes
  <2>2. \A g \in DOMAIN pending' :
          g \in DOMAIN pending /\ g # current /\ pending'[g] = pending[g]
    BY <2>1 DEF Drop
  <2>3. \A g \in DOMAIN wal' : WithinLimits(wal'[g])
    <3>1. CASE RemoveWal(current)
      BY <1>9, <3>1
    <3>2. CASE wal' = wal
      BY <1>0, <3>2 DEF AttemptsBounded
    <3>. QED
      BY <1>21, <3>1, <3>2 DEF RecoverFinishes
  <2>. QED
    BY <1>0, <1>1, <2>1, <2>2, <2>3 DEF AttemptsInv, AttemptsBounded
<1>22. ASSUME NEW t \in Targets, ToggleTarget(t) PROVE AttemptsInv'
  BY <1>5, <1>22 DEF ToggleTarget, disk, recovery
<1>23. ASSUME NEW c \in Caches, ReloadFails(c) PROVE AttemptsInv'
  BY <1>5, <1>23 DEF ReloadFails, disk, recovery
<1>24. CASE Tick
  BY <1>5, <1>24 DEF Tick, disk, recovery
<1>25. CASE UNCHANGED vars
  BY <1>5, <1>25 DEF vars
<1>. QED
  BY <1>7, <1>8, <1>10, <1>11, <1>12, <1>13, <1>14, <1>16, <1>18, <1>19, <1>20,
     <1>21, <1>22, <1>23, <1>24, <1>25 DEF Next, Dispatch

(***************************************************************************)
(* Whatever fails, an entry is dispatched by recovery at most once for     *)
(* each start and at most MaxAttempts times.                               *)
(***************************************************************************)
THEOREM AttemptsAreBounded == Spec => []AttemptsBounded
<1>1. AttemptsInv => AttemptsBounded
  BY DEF AttemptsInv
<1>. QED
  BY <1>1, AttemptsInit, AttemptsStep, PTL DEF Spec

(***************************************************************************)
(* The budget of dispatches.  A request that was sent stands for one       *)
(* dispatch of its own and MaxAttempts by recovery.  What of this is not   *)
(* spent is counted where it lies: the workers about to dispatch the       *)
(* message, and the attempts its WAL files have left.  The count needs the *)
(* attempts on disk, so a failing updateWalAttempts is excluded: with it,  *)
(* every start dispatches the file once more.                              *)
(***************************************************************************)

UpdatesReachDisk == "walUpdate" \notin Faults

Sent(m) == {r \in Requests : MsgOf[r] = m /\ phase[r] # "unsent"}

Waiting(m) == {w \in Workers : phase[w] \in {"persisted", "queued"} /\ Msg(w) = m}

AttemptsLeft(d, m) ==
    {c \in (DOMAIN d) \X (1 .. MaxAttempts) :
        d[c[1]].msg = m /\ d[c[1]].attempts < c[2]}

Affords(n, W, C, S) ==
    /\ n \in Nat
    /\ IsFiniteSet(W) /\ IsFiniteSet(C) /\ IsFiniteSet(S)
    /\ n + Cardinality(W) + Cardinality(C) <= (1 + MaxAttempts) * Cardinality(S)

BudgetKept ==
    \A m \in Msgs : Affords(runs[m], Waiting(m), AttemptsLeft(wal, m), Sent(m))

ListOnDisk ==
    \A f \in DOMAIN pending : f \in DOMAIN wal /\ wal[f] = pending[f]

LEMMA AddedAtMostOne ==
    ASSUME NEW S, IsFiniteSet(S), NEW x
    PROVE  IsFiniteSet(S \cup {x}) /\ Cardinality(S \cup {x}) <= Cardinality(S) + 1
<1>1. Cardinality(S) \in Nat
  BY FS_CardinalityType
<1>2. /\ IsFiniteSet(S \cup {x})
      /\ Cardinality(S \cup {x}) = IF x \in S THEN Cardinality(S) ELSE Cardinality(S) + 1
  BY FS_AddElement
<1>. QED
  BY <1>1, <1>2

LEMMA AffordsFewer ==
    ASSUME NEW n, NEW W, NEW C, NEW S, Affords(n, W, C, S),
           NEW W2, W2 \subseteq W,
           NEW C2, IsFiniteSet(C2), Cardinality(C2) <= Cardinality(C)
    PROVE  Affords(n, W2, C2, S)
<1>1. IsFiniteSet(W2) /\ Cardinality(W2) <= Cardinality(W)
  BY FS_Subset DEF Affords
<1>2. /\ Cardinality(W) \in Nat /\ Cardinality(W2) \in Nat
      /\ Cardinality(C) \in Nat /\ Cardinality(C2) \in Nat
  BY <1>1, FS_CardinalityType DEF Affords
<1>3. (1 + MaxAttempts) * Cardinality(S) \in Nat
  BY FS_CardinalityType DEF Affords
<1>. QED
  BY <1>1, <1>2, <1>3 DEF Affords

LEMMA AffordsRequest ==
    ASSUME NEW n, NEW W, NEW C, NEW S, Affords(n, W, C, S),
           NEW r, r \notin S, NEW W2, W2 \subseteq W \cup {r},
           NEW C2, IsFiniteSet(C2), Cardinality(C2) <= Cardinality(C) + MaxAttempts
    PROVE  Affords(n, W2, C2, S \cup {r})
<1>0. /\ Cardinality(W) \in Nat /\ Cardinality(C) \in Nat /\ Cardinality(S) \in Nat
      /\ Cardinality(C2) \in Nat
  BY FS_CardinalityType DEF Affords
<1>a. IsFiniteSet(S \cup {r}) /\ Cardinality(S \cup {r}) = Cardinality(S) + 1
  BY FS_AddElement DEF Affords
<1>b. IsFiniteSet(W \cup {r}) /\ Cardinality(W \cup {r}) <= Cardinality(W) + 1
  BY <1>0, AddedAtMostOne DEF Affords
<1>1. /\ IsFiniteSet(S \cup {r}) /\ Cardinality(S \cup {r}) = Cardinality(S) + 1
      /\ IsFiniteSet(W \cup {r}) /\ Cardinality(W \cup {r}) <= Cardinality(W) + 1
      /\ Cardinality(W) \in Nat /\ Cardinality(C) \in Nat /\ Cardinality(S) \in Nat
      /\ Cardinality(C2) \in Nat
  BY <1>0, <1>a, <1>b
<1>2. IsFiniteSet(W2) /\ Cardinality(W2) <= Cardinality(W) + 1
  BY <1>1, FS_Subset, FS_CardinalityType
<1>3. Cardinality(W2) \in Nat
  BY <1>2, FS_CardinalityType
<1>4. \A a, b \in Nat : (1 + a) * (b + 1) = (1 + a) * b + 1 + a /\ (1 + a) * b \in Nat
  OBVIOUS
<1>5. /\ (1 + MaxAttempts) * (Cardinality(S) + 1)
           = (1 + MaxAttempts) * Cardinality(S) + 1 + MaxAttempts
      /\ (1 + MaxAttempts) * Cardinality(S) \in Nat
  BY <1>1, <1>4
<1>6. /\ n \in Nat /\ MaxAttempts \in Nat
      /\ n + Cardinality(W) + Cardinality(C) <= (1 + MaxAttempts) * Cardinality(S)
  BY DEF Affords
<1>7. n + Cardinality(W2) + Cardinality(C2)
        <= (1 + MaxAttempts) * Cardinality(S) + 1 + MaxAttempts
  BY <1>1, <1>2, <1>3, <1>5, <1>6
<1>. QED
  BY <1>1, <1>2, <1>5, <1>6, <1>7 DEF Affords

LEMMA AffordsRun ==
    ASSUME NEW n, NEW W, NEW C, NEW S, Affords(n, W, C, S), NEW w \in W
    PROVE  Affords(n + 1, W \ {w}, C, S)
<1>1. /\ IsFiniteSet(W \ {w}) /\ Cardinality(W \ {w}) = Cardinality(W) - 1
      /\ Cardinality(W) \in Nat /\ Cardinality(C) \in Nat
      /\ (1 + MaxAttempts) * Cardinality(S) \in Nat
  BY FS_RemoveElement, FS_CardinalityType DEF Affords
<1>. QED
  BY <1>1 DEF Affords

LEMMA AffordsStart ==
    ASSUME NEW n, NEW W, NEW C, NEW S, Affords(n, W, C, S),
           NEW w, NEW W2, W2 \subseteq W \cup {w},
           NEW C2, IsFiniteSet(C2), Cardinality(C2) + 1 <= Cardinality(C)
    PROVE  Affords(n, W2, C2, S)
<1>0. /\ Cardinality(W) \in Nat /\ Cardinality(C) \in Nat /\ Cardinality(C2) \in Nat
      /\ Cardinality(S) \in Nat
  BY FS_CardinalityType DEF Affords
<1>a. IsFiniteSet(W \cup {w}) /\ Cardinality(W \cup {w}) <= Cardinality(W) + 1
  BY AddedAtMostOne DEF Affords
<1>b. (1 + MaxAttempts) * Cardinality(S) \in Nat
  BY <1>0
<1>1. /\ IsFiniteSet(W \cup {w}) /\ Cardinality(W \cup {w}) <= Cardinality(W) + 1
      /\ Cardinality(W) \in Nat /\ Cardinality(C) \in Nat /\ Cardinality(C2) \in Nat
      /\ (1 + MaxAttempts) * Cardinality(S) \in Nat
  BY <1>0, <1>a, <1>b
<1>2. IsFiniteSet(W2) /\ Cardinality(W2) <= Cardinality(W) + 1
  BY <1>1, FS_Subset, FS_CardinalityType
<1>3. Cardinality(W2) \in Nat
  BY <1>2, FS_CardinalityType
<1>. QED
  BY <1>1, <1>2, <1>3 DEF Affords

\* Attempts that are counted stay counted: fewer files, or files used more.
LEMMA FewerAttemptsLeft ==
    ASSUME NEW d, NEW e, NEW m, IsFiniteSet(AttemptsLeft(d, m)),
           DOMAIN e \subseteq DOMAIN d,
           \A g \in DOMAIN e : /\ e[g].msg = d[g].msg
                               /\ d[g].attempts \in Nat /\ e[g].attempts \in Nat
                               /\ d[g].attempts <= e[g].attempts
    PROVE  /\ IsFiniteSet(AttemptsLeft(e, m))
           /\ Cardinality(AttemptsLeft(e, m)) <= Cardinality(AttemptsLeft(d, m))
<1>1. AttemptsLeft(e, m) \subseteq AttemptsLeft(d, m)
  BY DEF AttemptsLeft
<1>. QED
  BY <1>1, FS_Subset

LEMMA AttemptsOfNewFile ==
    ASSUME NEW d, NEW f, NEW e, NEW m, IsFiniteSet(AttemptsLeft(d, m))
    PROVE  /\ IsFiniteSet(AttemptsLeft(Put(d, f, e), m))
           /\ Cardinality(AttemptsLeft(Put(d, f, e), m))
                <= Cardinality(AttemptsLeft(d, m)) + (IF e.msg = m THEN MaxAttempts ELSE 0)
<1> DEFINE New == {f} \X (1 .. MaxAttempts)
           Name == [k \in 1 .. MaxAttempts |-> <<f, k>>]
<1>1. IsFiniteSet(1 .. MaxAttempts) /\ Cardinality(1 .. MaxAttempts) = MaxAttempts
  BY FS_Interval
<1>2. Name \in Surjection(1 .. MaxAttempts, New)
  <2>1. Name \in [1 .. MaxAttempts -> New]
    OBVIOUS
  <2>2. \A y \in New : \E k \in 1 .. MaxAttempts : Name[k] = y
    OBVIOUS
  <2>. QED
    BY <2>1, <2>2 DEF Surjection
<1>3. IsFiniteSet(New) /\ Cardinality(New) <= MaxAttempts
  BY <1>1, <1>2, FS_Surjection
<1>4. /\ Cardinality(New) \in Nat /\ Cardinality(AttemptsLeft(d, m)) \in Nat
  BY <1>3, FS_CardinalityType
<1>5. CASE e.msg = m
  <2>1. AttemptsLeft(Put(d, f, e), m) \subseteq AttemptsLeft(d, m) \cup New
    BY DEF AttemptsLeft, Put
  <2>2. /\ IsFiniteSet(AttemptsLeft(d, m) \cup New)
        /\ Cardinality(AttemptsLeft(d, m) \cup New)
             <= Cardinality(AttemptsLeft(d, m)) + Cardinality(New)
    <3>1. /\ IsFiniteSet(AttemptsLeft(d, m) \cup New)
          /\ Cardinality(AttemptsLeft(d, m) \cup New)
               = Cardinality(AttemptsLeft(d, m)) + Cardinality(New)
                   - Cardinality(AttemptsLeft(d, m) \cap New)
      BY <1>3, FS_Union
    <3>2. IsFiniteSet(AttemptsLeft(d, m) \cap New)
      BY FS_Intersection
    <3>3. Cardinality(AttemptsLeft(d, m) \cap New) \in Nat
      BY <3>2, FS_CardinalityType
    <3>. QED
      BY <1>4, <3>1, <3>3
  <2>3. /\ IsFiniteSet(AttemptsLeft(Put(d, f, e), m))
        /\ Cardinality(AttemptsLeft(Put(d, f, e), m))
             <= Cardinality(AttemptsLeft(d, m) \cup New)
    BY <2>1, <2>2, FS_Subset
  <2>4. /\ Cardinality(AttemptsLeft(Put(d, f, e), m)) \in Nat
        /\ Cardinality(AttemptsLeft(d, m) \cup New) \in Nat
    BY <2>2, <2>3, FS_CardinalityType
  <2>. QED
    BY <1>3, <1>4, <1>5, <2>2, <2>3, <2>4
<1>6. CASE e.msg # m
  <2>1. AttemptsLeft(Put(d, f, e), m) \subseteq AttemptsLeft(d, m)
    BY <1>6 DEF AttemptsLeft, Put
  <2>2. /\ IsFiniteSet(AttemptsLeft(Put(d, f, e), m))
        /\ Cardinality(AttemptsLeft(Put(d, f, e), m)) <= Cardinality(AttemptsLeft(d, m))
    BY <2>1, FS_Subset
  <2>3. Cardinality(AttemptsLeft(Put(d, f, e), m)) \in Nat
    BY <2>2, FS_CardinalityType
  <2>. QED
    BY <1>4, <1>6, <2>2, <2>3
<1>. QED
  BY <1>5, <1>6

LEMMA AttemptSpent ==
    ASSUME NEW d, NEW f \in DOMAIN d, NEW e, NEW m, IsFiniteSet(AttemptsLeft(d, m)),
           d[f].msg = m, e.msg = m,
           d[f].attempts \in Nat, d[f].attempts < MaxAttempts,
           e.attempts = d[f].attempts + 1
    PROVE  /\ IsFiniteSet(AttemptsLeft(Put(d, f, e), m))
           /\ Cardinality(AttemptsLeft(Put(d, f, e), m)) + 1
                <= Cardinality(AttemptsLeft(d, m))
<1> DEFINE spent == <<f, d[f].attempts + 1>>
           Rest == AttemptsLeft(d, m) \ {spent}
<1>1. spent \in AttemptsLeft(d, m)
  BY DEF AttemptsLeft
<1>2. AttemptsLeft(Put(d, f, e), m) \subseteq Rest
  <2> SUFFICES ASSUME NEW c \in AttemptsLeft(Put(d, f, e), m) PROVE c \in Rest
    OBVIOUS
  <2>1. /\ c \in (DOMAIN d) \X (1 .. MaxAttempts)
        /\ Put(d, f, e)[c[1]].msg = m /\ Put(d, f, e)[c[1]].attempts < c[2]
    BY DEF AttemptsLeft, Put
  <2>2. CASE c[1] = f
    <3>1. d[f].attempts + 1 < c[2]
      BY <2>1, <2>2 DEF Put
    <3>2. d[f].attempts < c[2] /\ c # spent
      BY <2>1, <3>1
    <3>. QED
      BY <2>1, <2>2, <3>2 DEF AttemptsLeft
  <2>3. CASE c[1] # f
    <3>1. d[c[1]].msg = m /\ d[c[1]].attempts < c[2]
      BY <2>1, <2>3 DEF Put
    <3>. QED
      BY <2>1, <2>3, <3>1 DEF AttemptsLeft
  <2>. QED
    BY <2>2, <2>3
<1>3. /\ IsFiniteSet(Rest) /\ Cardinality(Rest) = Cardinality(AttemptsLeft(d, m)) - 1
      /\ Cardinality(AttemptsLeft(d, m)) \in Nat
  BY <1>1, FS_RemoveElement, FS_CardinalityType
<1>4. /\ IsFiniteSet(AttemptsLeft(Put(d, f, e), m))
      /\ Cardinality(AttemptsLeft(Put(d, f, e), m)) <= Cardinality(Rest)
  BY <1>2, <1>3, FS_Subset
<1>5. Cardinality(AttemptsLeft(Put(d, f, e), m)) \in Nat
  BY <1>4, FS_CardinalityType
<1>. QED
  BY <1>3, <1>4, <1>5

BudgetInv == RecoveryInv /\ ListOnDisk /\ BudgetKept

\* A step that receives nothing and dispatches nothing, and after which no
\* worker waits that did not and no file has more attempts left.
Frugal ==
    /\ \A r \in Requests : phase'[r] # "unsent" => phase[r] # "unsent"
    /\ \A r \in Requests : phase[r] # "unsent" => phase'[r] # "unsent"
    /\ runs' = runs
    /\ \A w \in Workers : phase'[w] \in {"persisted", "queued"} =>
                            /\ phase[w] \in {"persisted", "queued"}
                            /\ Msg(w)' = Msg(w)
    /\ DOMAIN wal' \subseteq DOMAIN wal
    /\ \A f \in DOMAIN wal' : /\ wal'[f].msg = wal[f].msg
                              /\ wal'[f].attempts \in Nat
                              /\ wal[f].attempts <= wal'[f].attempts

LEMMA FrugalKeepsBudget ==
    ASSUME TypeOK, BudgetKept, Frugal
    PROVE  BudgetKept'
<1> SUFFICES ASSUME NEW m \in Msgs
             PROVE  Affords(runs'[m], Waiting(m)', AttemptsLeft(wal', m), Sent(m)')
  BY DEF BudgetKept
<1>1. Affords(runs[m], Waiting(m), AttemptsLeft(wal, m), Sent(m))
  BY DEF BudgetKept
<1>2. Sent(m)' = Sent(m) /\ runs'[m] = runs[m]
  BY DEF Sent, Frugal
<1>3. Waiting(m)' \subseteq Waiting(m)
  BY DEF Waiting, Frugal
<1>4. \A f \in DOMAIN wal : wal[f].attempts \in Nat
  BY DEF TypeOK, IsDirectory, Entry
<1>5. /\ IsFiniteSet(AttemptsLeft(wal', m))
      /\ Cardinality(AttemptsLeft(wal', m)) <= Cardinality(AttemptsLeft(wal, m))
  BY <1>1, <1>4, FewerAttemptsLeft DEF Frugal, Affords
<1>. QED
  BY <1>1, <1>2, <1>3, <1>5, AffordsFewer

\* A request that comes in brings its own credit, whatever it makes of the WAL.
LEMMA RequestKeepsBudget ==
    ASSUME BudgetKept, NEW r \in Requests, phase[r] = "unsent",
           phase'[r] # "unsent", runs' = runs,
           \A q \in Requests : q # r =>
                (phase'[q] # "unsent" <=> phase[q] # "unsent"),
           \A w \in Workers : phase'[w] \in {"persisted", "queued"} =>
                w = r \/ (phase[w] \in {"persisted", "queued"} /\ Msg(w)' = Msg(w)),
           Msg(r)' = MsgOf[r],
           NEW f, NEW e, e.msg = MsgOf[r],
           wal' = wal \/ wal' = Put(wal, f, e)
    PROVE  BudgetKept'
<1> SUFFICES ASSUME NEW m \in Msgs
             PROVE  Affords(runs'[m], Waiting(m)', AttemptsLeft(wal', m), Sent(m)')
  BY DEF BudgetKept
<1>1. Affords(runs[m], Waiting(m), AttemptsLeft(wal, m), Sent(m))
  BY DEF BudgetKept
<1>2. runs'[m] = runs[m]
  OBVIOUS
<1>3. Cardinality(AttemptsLeft(wal, m)) \in Nat
  BY <1>1, FS_CardinalityType DEF Affords
<1>4. /\ IsFiniteSet(AttemptsLeft(wal', m))
      /\ Cardinality(AttemptsLeft(wal', m))
           <= Cardinality(AttemptsLeft(wal, m)) + (IF e.msg = m THEN MaxAttempts ELSE 0)
  <2>1. CASE wal' = wal
    <3>1. IsFiniteSet(AttemptsLeft(wal', m)) /\ AttemptsLeft(wal', m) = AttemptsLeft(wal, m)
      BY <1>1, <2>1 DEF Affords
    <3>. QED
      BY <1>3, <3>1
  <2>2. CASE wal' = Put(wal, f, e)
    <3>1. IsFiniteSet(AttemptsLeft(wal, m))
      BY <1>1 DEF Affords
    <3>. QED
      BY <2>2, <3>1, AttemptsOfNewFile
  <2>. QED
    BY <2>1, <2>2
<1>5. CASE MsgOf[r] = m
  <2>1. Sent(m)' = Sent(m) \cup {r} /\ r \notin Sent(m)
    BY <1>5 DEF Sent
  <2>2. Waiting(m)' \subseteq Waiting(m) \cup {r}
    BY DEF Waiting
  <2>3. Cardinality(AttemptsLeft(wal', m)) <= Cardinality(AttemptsLeft(wal, m)) + MaxAttempts
    BY <1>4, <1>5
  <2>. QED
    BY <1>1, <1>2, <1>4, <2>1, <2>2, <2>3, AffordsRequest
<1>6. CASE MsgOf[r] # m
  <2>1. Sent(m)' = Sent(m)
    BY <1>6 DEF Sent
  <2>2. Waiting(m)' \subseteq Waiting(m)
    BY <1>6 DEF Waiting
  <2>3. Cardinality(AttemptsLeft(wal', m)) <= Cardinality(AttemptsLeft(wal, m))
    BY <1>3, <1>4, <1>6
  <2>. QED
    BY <1>1, <1>2, <1>4, <2>1, <2>2, <2>3, AffordsFewer
<1>. QED
  BY <1>5, <1>6

LEMMA BudgetStep ==
    ASSUME UpdatesReachDisk, BudgetInv, [Next]_vars
    PROVE  BudgetInv'
<1> DEFINE Goal == ListOnDisk' /\ BudgetKept'
<1>0. /\ RecoveryInv /\ TypeInv /\ TypeOK /\ RecoveryHolds /\ RecoveryInv'
      /\ ListOnDisk /\ BudgetKept /\ Recovery \notin Requests
      /\ IsDirectory(wal) /\ IsDirectory(pending) /\ now \in Nat
  BY RecoveryInvStep DEF BudgetInv, RecoveryInv, TypeInv, TypeOK
<1> SUFFICES Goal
  BY <1>0 DEF BudgetInv
<1>a. /\ \A f \in DOMAIN wal : f \in Files /\ wal[f] \in Entry /\ wal[f].attempts \in Nat
      /\ \A f \in DOMAIN pending : f \in Files /\ f # NoFile /\ pending[f] \in Entry
      /\ \A f \in DOMAIN pending : f \in DOMAIN wal /\ wal[f] = pending[f]
  BY <1>0, FilesFacts DEF IsDirectory, ListOnDisk, Entry
<1>b. \A r \in Requests : r \in Workers /\ r # Recovery /\ Msg(r)' = MsgOf[r] /\ Msg(r) = MsgOf[r]
  BY <1>0 DEF Workers, Msg
<1>c. phase[Recovery] \in {"idle", "queued", "posting"}
  BY <1>0 DEF RecoveryHolds
\* What removes files, and what leaves recovery's message alone.
<1>d. ASSUME NEW f, RemoveWal(f)
      PROVE  /\ DOMAIN wal \ {f} \subseteq DOMAIN wal'
             /\ DOMAIN wal' \subseteq DOMAIN wal
             /\ \A g \in DOMAIN wal' : /\ wal'[g] = wal[g] /\ wal'[g].attempts \in Nat
                                       /\ wal[g].attempts <= wal'[g].attempts
  <2>1. /\ DOMAIN wal' \subseteq DOMAIN wal /\ DOMAIN wal \ {f} \subseteq DOMAIN wal'
        /\ \A g \in DOMAIN wal' : wal'[g] = wal[g]
    BY <1>0, <1>d, RemoveWalProperties
  <2>. QED
    BY <1>a, <2>1
<1>e. ASSUME UNCHANGED <<wal, pending, current, runs>>,
             phase' \in [Workers -> {"unsent", "persisted", "queued", "posting",
                                     "done", "lost", "idle"}],
             \A w \in Workers : phase'[w] = phase[w] \/
                                (phase[w] = "persisted" /\ phase'[w] = "queued")
      PROVE  Goal
  <2>1. Frugal
    BY <1>a, <1>e DEF Frugal, Msg, Workers
  <2>2. ListOnDisk'
    BY <1>0, <1>e DEF ListOnDisk
  <2>. QED
    BY <1>0, <2>1, <2>2, FrugalKeepsBudget
<1>f. phase \in [Workers -> {"unsent", "persisted", "queued", "posting",
                             "done", "lost", "idle"}]
  BY <1>0 DEF TypeOK
<1>1. ASSUME NEW r \in Requests, Receive(r) PROVE Goal
  <2>1. /\ phase[r] = "unsent" /\ phase' = [phase EXCEPT ![r] = "persisted"]
        /\ UNCHANGED <<pending, current, runs>>
    BY <1>1 DEF Receive, recovery
  <2>2. MsgOf[r] \in Msgs
    OBVIOUS
  <2>3. /\ NewEntry(MsgOf[r]).msg = MsgOf[r] /\ Torn(NewEntry(MsgOf[r])).msg = MsgOf[r]
        /\ WalFileName(MsgOf[r]) \in Files /\ WalFileName(MsgOf[r])[2] = now
    BY <1>0, <2>2, NameIsNow DEF NewEntry, Torn
  <2>4. PICK e : /\ e.msg = MsgOf[r]
                 /\ wal' = wal \/ wal' = Put(wal, WalFileName(MsgOf[r]), e)
    BY <1>1, <2>3 DEF Receive, WriteWal
  <2>5. \A f \in DOMAIN pending : f # WalFileName(MsgOf[r])
    <3>1. \A f \in DOMAIN pending : f[2] < now
      BY <1>0 DEF RecoveryInv, NamesInThePast
    <3>. QED
      BY <1>0, <2>3, <3>1
  <2>6. ListOnDisk'
    BY <1>a, <2>1, <2>4, <2>5 DEF ListOnDisk, Put
  <2>7. \A w \in Workers : w # r => phase'[w] = phase[w] /\ Msg(w)' = Msg(w)
    BY <1>f, <2>1 DEF Msg
  <2>8. phase'[r] = "persisted"
    BY <1>b, <1>f, <2>1
  <2>9. BudgetKept'
    BY <1>0, <1>b, <2>1, <2>4, <2>7, <2>8, RequestKeepsBudget
  <2>. QED
    BY <2>6, <2>9
<1>2. ASSUME NEW r \in Requests, Reply(r) PROVE Goal
  BY <1>2, <1>e, <1>f DEF Reply, disk, recovery
<1>3. ASSUME NEW r \in Requests, FinishCallback(r) PROVE Goal
  <2>1. /\ phase[r] = "posting" /\ phase' = [phase EXCEPT ![r] = "done"]
        /\ UNCHANGED <<pending, current, runs>>
    BY <1>3 DEF FinishCallback, recovery
  <2>2. wal' = wal \/ RemoveWal(path[r])
    BY <1>3 DEF FinishCallback
  <2>3. /\ DOMAIN wal \ {path[r]} \subseteq DOMAIN wal'
        /\ DOMAIN wal' \subseteq DOMAIN wal
        /\ \A g \in DOMAIN wal' : /\ wal'[g] = wal[g] /\ wal'[g].attempts \in Nat
                                  /\ wal[g].attempts <= wal'[g].attempts
    BY <1>a, <1>d, <2>2
  <2>4. path[r] \notin DOMAIN pending
    BY <1>0, <2>1 DEF RecoveryInv, RecoveryDisjoint, Live
  <2>5. ListOnDisk'
    BY <1>a, <2>1, <2>3, <2>4 DEF ListOnDisk
  <2>6. \A w \in Workers : /\ Msg(w)' = Msg(w)
                           /\ phase'[w] = IF w = r THEN "done" ELSE phase[w]
    BY <1>f, <2>1 DEF Msg
  <2>7. Frugal
    BY <1>b, <2>1, <2>3, <2>6 DEF Frugal
  <2>. QED
    BY <1>0, <2>5, <2>7, FrugalKeepsBudget
<1>4. ASSUME NEW w \in Workers, BeginDispatch(w) PROVE Goal
  <2>1. /\ phase[w] = "queued" /\ phase' = [phase EXCEPT ![w] = "posting"]
        /\ runs' = [runs EXCEPT ![Msg(w)] = @ + 1]
        /\ UNCHANGED <<wal, pending, current>>
    BY <1>4 DEF BeginDispatch, disk, recovery
  <2>2. ListOnDisk'
    BY <1>0, <2>1 DEF ListOnDisk
  <2>3. \A v \in Workers : /\ Msg(v)' = Msg(v)
                           /\ phase'[v] = IF v = w THEN "posting" ELSE phase[v]
    BY <1>f, <2>1 DEF Msg
  <2>4. runs \in [Msgs -> Nat]
    BY <1>0 DEF TypeOK
  <2>5. ASSUME NEW m \in Msgs
        PROVE  Affords(runs'[m], Waiting(m)', AttemptsLeft(wal', m), Sent(m)')
    <3>1. Affords(runs[m], Waiting(m), AttemptsLeft(wal, m), Sent(m))
      BY <1>0 DEF BudgetKept
    <3>2. /\ Sent(m)' = Sent(m) /\ AttemptsLeft(wal', m) = AttemptsLeft(wal, m)
          /\ Waiting(m)' = Waiting(m) \ {w}
      BY <1>b, <2>1, <2>3 DEF Sent, Waiting
    <3>3. CASE Msg(w) = m
      <4>1. w \in Waiting(m) /\ runs'[m] = runs[m] + 1
        BY <2>1, <2>4, <3>3 DEF Waiting
      <4>. QED
        BY <3>1, <3>2, <4>1, AffordsRun
    <3>4. CASE Msg(w) # m
      <4>1. Waiting(m)' = Waiting(m) /\ runs'[m] = runs[m]
        BY <2>1, <2>4, <3>2, <3>4 DEF Waiting
      <4>. QED
        BY <3>1, <3>2, <4>1
    <3>. QED
      BY <3>3, <3>4
  <2>6. BudgetKept'
    BY <2>5 DEF BudgetKept
  <2>. QED
    BY <2>2, <2>6
<1>5. ASSUME NEW w \in Workers, NEW t \in Targets, NEW success \in BOOLEAN,
             PostSettles(w, t, success)
      PROVE  Goal
  BY <1>5, <1>e, <1>f DEF PostSettles, disk
\* After a crash nobody waits; a request may have been dying.
<1>g. ASSUME LoseMemory, NEW dying, phase' = PhasesAfterCrash(dying)
      PROVE  /\ ListOnDisk' /\ runs' = runs
             /\ \A w \in Workers : phase'[w] \notin {"persisted", "queued"}
             /\ \A r \in Requests : r \notin dying =>
                   (phase'[r] # "unsent" <=> phase[r] # "unsent")
             /\ \A r \in Requests : r \in dying => phase'[r] = "lost"
  <2>1. pending' = Empty /\ runs' = runs
    BY <1>g DEF LoseMemory
  <2>2. ListOnDisk'
    BY <2>1, EmptyIsDirectory DEF ListOnDisk
  <2>3. \A w \in Workers : phase'[w] = IF w = Recovery THEN "idle"
                            ELSE IF w \in dying \/ Live(w) THEN "lost" ELSE phase[w]
    BY <1>g DEF PhasesAfterCrash
  <2>. QED
    BY <1>b, <2>1, <2>2, <2>3 DEF Live
<1>6. CASE Crash
  <2>1. LoseMemory /\ phase' = PhasesAfterCrash({}) /\ wal' = wal
    BY <1>6 DEF Crash
  <2>2. Frugal
    BY <1>a, <1>g, <2>1 DEF Frugal
  <2>. QED
    BY <1>0, <1>g, <2>1, <2>2, FrugalKeepsBudget
<1>7. ASSUME NEW r \in Requests, CrashInWriteWal(r) PROVE Goal
  <2>1. /\ LoseMemory /\ phase' = PhasesAfterCrash({r}) /\ phase[r] = "unsent"
        /\ wal' = Put(wal, WalFileName(MsgOf[r]), Torn(NewEntry(MsgOf[r])))
    BY <1>7 DEF CrashInWriteWal
  <2>2. Torn(NewEntry(MsgOf[r])).msg = MsgOf[r]
    BY DEF Torn, NewEntry
  <2>3. /\ ListOnDisk' /\ runs' = runs
        /\ \A w \in Workers : phase'[w] \notin {"persisted", "queued"}
        /\ \A q \in Requests : q # r => (phase'[q] # "unsent" <=> phase[q] # "unsent")
        /\ phase'[r] # "unsent"
    <3>1. /\ ListOnDisk' /\ runs' = runs
          /\ \A w \in Workers : phase'[w] \notin {"persisted", "queued"}
          /\ \A q \in Requests : q \notin {r} =>
                (phase'[q] # "unsent" <=> phase[q] # "unsent")
          /\ \A q \in Requests : q \in {r} => phase'[q] = "lost"
      BY <1>g, <2>1
    <3>. QED
      BY <3>1
  <2>4. BudgetKept'
    BY <1>0, <1>b, <2>1, <2>2, <2>3, RequestKeepsBudget
  <2>. QED
    BY <2>3, <2>4
\* What leaves the WAL for dead-letter counts no more.
<1>h. ASSUME NEW F, MoveToDeadLetter(F)
      PROVE  /\ DOMAIN wal' = DOMAIN wal \ F
             /\ \A g \in DOMAIN wal' : /\ wal'[g] = wal[g] /\ wal'[g].attempts \in Nat
                                       /\ wal[g].attempts <= wal'[g].attempts
  <2>1. DOMAIN wal' = DOMAIN wal \ F /\ \A g \in DOMAIN wal \ F : wal'[g] = wal[g]
    BY <1>h DEF MoveToDeadLetter, Drop
  <2>. QED
    BY <1>a, <2>1
<1>8. CASE Restart
  <2>1. /\ ~up /\ MoveToDeadLetter(TornFiles) /\ pending' = Drop(wal, TornFiles)
        /\ UNCHANGED <<phase, runs, current>>
    BY <1>8 DEF Restart
  <2>2. phase[Recovery] = "idle"
    BY <1>0, <2>1 DEF RecoveryHolds
  <2>3. ListOnDisk'
    BY <1>h, <2>1 DEF ListOnDisk, Drop
  <2>4. \A w \in Workers : phase[w] \in {"persisted", "queued"} => Msg(w)' = Msg(w)
    BY <2>2 DEF Msg
  <2>5. Frugal
    BY <1>h, <2>1, <2>4 DEF Frugal
  <2>. QED
    BY <1>0, <2>3, <2>5, FrugalKeepsBudget
<1>i. ASSUME NEW f \in DOMAIN pending, RecoveryTakes(f)
      PROVE  phase[Recovery] = "idle"
  BY <1>0, <1>a, <1>i DEF RecoveryHolds, RecoveryTakes
<1>9. ASSUME NEW f \in DOMAIN pending, RecoverGivesUp(f) PROVE Goal
  <2>1. /\ RecoveryTakes(f) /\ MoveToDeadLetter({f}) /\ pending' = Drop(pending, {f})
        /\ UNCHANGED <<phase, runs, current>>
    BY <1>9 DEF RecoverGivesUp
  <2>2. phase[Recovery] = "idle"
    BY <1>i, <2>1
  <2>3. ListOnDisk'
    <3>1. /\ \A g \in DOMAIN pending' : g \in DOMAIN pending /\ g # f /\ pending'[g] = pending[g]
      BY <2>1 DEF Drop
    <3>2. /\ DOMAIN wal' = DOMAIN wal \ {f}
          /\ \A g \in DOMAIN wal' : wal'[g] = wal[g]
      BY <1>h, <2>1
    <3>. QED
      BY <1>a, <3>1, <3>2 DEF ListOnDisk
  <2>4. \A w \in Workers : phase[w] \in {"persisted", "queued"} => Msg(w)' = Msg(w)
    BY <2>2 DEF Msg
  <2>5. Frugal
    BY <1>h, <2>1, <2>4 DEF Frugal
  <2>. QED
    BY <1>0, <2>3, <2>5, FrugalKeepsBudget
<1>j. ASSUME NEW f \in DOMAIN pending, MayRecover(f)
      PROVE  /\ phase[Recovery] = "idle" /\ pending[f].attempts < MaxAttempts
             /\ pending[f].attempts \in Nat
             /\ Bumped(pending[f]).msg = pending[f].msg
             /\ Bumped(pending[f]).attempts = pending[f].attempts + 1
             /\ Torn(Bumped(pending[f])).msg = pending[f].msg
             /\ Torn(Bumped(pending[f])).attempts = pending[f].attempts + 1
  <2>1. RecoveryTakes(f) /\ ~Exhausted(pending[f])
    BY <1>j DEF MayRecover
  <2>2. pending[f].attempts \in Nat
    BY <1>a
  <2>3. pending[f].attempts < MaxAttempts
    BY <2>1, <2>2 DEF Exhausted
  <2>4. /\ Bumped(pending[f]).msg = pending[f].msg
        /\ Bumped(pending[f]).attempts = pending[f].attempts + 1
        /\ Bumped(pending[f]) \in Entry
    BY <1>a DEF Bumped, Entry
  <2>5. /\ Torn(Bumped(pending[f])).msg = Bumped(pending[f]).msg
        /\ Torn(Bumped(pending[f])).attempts = Bumped(pending[f]).attempts
    BY <2>4 DEF Torn, Entry
  <2>. QED
    BY <1>i, <2>1, <2>2, <2>3, <2>4, <2>5
<1>10. ASSUME NEW f \in DOMAIN pending, RecoverStarts(f) PROVE Goal
  <2>1. /\ MayRecover(f) /\ pending' = [pending EXCEPT ![f] = Bumped(@)]
        /\ wal' = Put(wal, f, Bumped(pending[f])) /\ current' = f
        /\ phase' = [phase EXCEPT ![Recovery] = "queued"] /\ runs' = runs
    BY <1>10 DEF RecoverStarts, UpdatesReachDisk
  <2>2. /\ phase[Recovery] = "idle" /\ pending[f].attempts < MaxAttempts
        /\ pending[f].attempts \in Nat
        /\ Bumped(pending[f]).msg = pending[f].msg
        /\ Bumped(pending[f]).attempts = pending[f].attempts + 1
    BY <1>j, <2>1
  <2>3. ListOnDisk'
    BY <1>a, <2>1 DEF ListOnDisk, Put
  <2>4. Msg(Recovery)' = pending[f].msg
    BY <2>1, <2>2 DEF Msg
  <2>5. \A r \in Requests : phase'[r] = phase[r]
    BY <1>b, <1>f, <2>1
  <2>6. ASSUME NEW m \in Msgs
        PROVE  Affords(runs'[m], Waiting(m)', AttemptsLeft(wal', m), Sent(m)')
    <3>1. Affords(runs[m], Waiting(m), AttemptsLeft(wal, m), Sent(m)) /\ runs'[m] = runs[m]
      BY <1>0, <2>1 DEF BudgetKept
    <3>2. Sent(m)' = Sent(m)
      BY <2>5 DEF Sent
    <3>3. Waiting(m)' \subseteq Waiting(m) \cup {Recovery}
      BY <1>b, <2>5 DEF Waiting, Workers
    <3>4. CASE pending[f].msg = m
      <4>1. IsFiniteSet(AttemptsLeft(wal, m))
        BY <3>1 DEF Affords
      <4>2. /\ f \in DOMAIN wal /\ wal[f].msg = m /\ Bumped(pending[f]).msg = m
            /\ wal[f].attempts \in Nat /\ wal[f].attempts < MaxAttempts
            /\ Bumped(pending[f]).attempts = wal[f].attempts + 1
        BY <1>a, <2>2, <3>4
      <4>3. /\ IsFiniteSet(AttemptsLeft(wal', m))
            /\ Cardinality(AttemptsLeft(wal', m)) + 1 <= Cardinality(AttemptsLeft(wal, m))
        BY <2>1, <4>1, <4>2, AttemptSpent
      <4>4. Affords(runs[m], Waiting(m)', AttemptsLeft(wal', m), Sent(m))
        BY <3>1, <3>3, <4>3, AffordsStart
      <4>. QED
        BY <3>1, <3>2, <4>4
    <3>5. CASE pending[f].msg # m
      <4>1. Waiting(m)' \subseteq Waiting(m)
        BY <1>b, <2>4, <2>5, <3>5 DEF Waiting, Workers
      <4>2. AttemptsLeft(wal', m) = AttemptsLeft(wal, m)
        <5>1. /\ DOMAIN wal' = DOMAIN wal /\ wal'[f].msg # m /\ wal[f].msg # m
              /\ \A g \in DOMAIN wal : g # f => wal'[g] = wal[g]
          BY <1>a, <2>1, <2>2, <3>5 DEF Put
        <5>. QED
          BY <5>1 DEF AttemptsLeft
      <4>3. /\ IsFiniteSet(AttemptsLeft(wal', m))
            /\ Cardinality(AttemptsLeft(wal', m)) <= Cardinality(AttemptsLeft(wal, m))
        BY <3>1, <4>2, FS_CardinalityType DEF Affords
      <4>. QED
        BY <3>1, <3>2, <4>1, <4>3, AffordsFewer
    <3>. QED
      BY <3>4, <3>5
  <2>7. BudgetKept'
    BY <2>6 DEF BudgetKept
  <2>. QED
    BY <2>3, <2>7
<1>11. ASSUME NEW f \in DOMAIN pending, CrashInUpdate(f) PROVE Goal
  <2>1. /\ MayRecover(f) /\ LoseMemory /\ phase' = PhasesAfterCrash({})
        /\ wal' = Put(wal, f, Torn(Bumped(pending[f])))
    BY <1>11 DEF CrashInUpdate
  <2>2. /\ pending[f].attempts \in Nat
        /\ Torn(Bumped(pending[f])).msg = pending[f].msg
        /\ Torn(Bumped(pending[f])).attempts = pending[f].attempts + 1
    BY <1>j, <2>1
  <2>3. /\ DOMAIN wal' = DOMAIN wal
        /\ wal'[f] = Torn(Bumped(pending[f])) /\ wal[f] = pending[f]
        /\ \A g \in DOMAIN wal : g # f => wal'[g] = wal[g]
    BY <1>a, <2>1 DEF Put
  <2>4. \A g \in DOMAIN wal' : /\ wal'[g].msg = wal[g].msg
                               /\ wal'[g].attempts \in Nat
                               /\ wal[g].attempts <= wal'[g].attempts
    BY <1>a, <2>2, <2>3
  <2>5. Frugal
    BY <1>g, <2>1, <2>3, <2>4 DEF Frugal
  <2>. QED
    BY <1>0, <1>g, <2>1, <2>5, FrugalKeepsBudget
<1>12. CASE RecoverFinishes
  <2>1. /\ phase[Recovery] = "posting" /\ phase' = [phase EXCEPT ![Recovery] = "idle"]
        /\ pending' = Drop(pending, {current}) /\ runs' = runs
        /\ wal' = wal \/ RemoveWal(current)
    BY <1>12 DEF RecoverFinishes
  <2>2. /\ DOMAIN wal \ {current} \subseteq DOMAIN wal'
        /\ DOMAIN wal' \subseteq DOMAIN wal
        /\ \A g \in DOMAIN wal' : /\ wal'[g] = wal[g] /\ wal'[g].attempts \in Nat
                                  /\ wal[g].attempts <= wal'[g].attempts
    BY <1>a, <1>d, <2>1
  <2>3. ListOnDisk'
    BY <1>a, <2>1, <2>2 DEF ListOnDisk, Drop
  <2>4. \A w \in Workers : IF w = Recovery THEN phase'[w] = "idle"
                           ELSE phase'[w] = phase[w] /\ Msg(w)' = Msg(w)
    BY <1>f, <2>1 DEF Msg
  <2>5. Frugal
    BY <1>b, <2>1, <2>2, <2>4 DEF Frugal
  <2>. QED
    BY <1>0, <2>3, <2>5, FrugalKeepsBudget
<1>13. ASSUME NEW t \in Targets, ToggleTarget(t) PROVE Goal
  BY <1>13, <1>e, <1>f DEF ToggleTarget, disk, recovery
<1>14. ASSUME NEW c \in Caches, ReloadFails(c) PROVE Goal
  BY <1>14, <1>e, <1>f DEF ReloadFails, disk, recovery
<1>15. CASE Tick
  BY <1>15, <1>e, <1>f DEF Tick, disk, recovery
<1>16. CASE UNCHANGED vars
  BY <1>16, <1>e, <1>f DEF vars
<1>. QED
  BY <1>1, <1>2, <1>3, <1>4, <1>5, <1>6, <1>7, <1>8, <1>9, <1>10, <1>11, <1>12,
     <1>13, <1>14, <1>15, <1>16 DEF Next, Dispatch

LEMMA BudgetInit == Init => BudgetInv
<1> SUFFICES ASSUME Init PROVE BudgetInv
  OBVIOUS
<1>1. RecoveryInv
  BY RecoveryInvInit
<1>2. ListOnDisk
  BY EmptyIsDirectory DEF Init, ListOnDisk
<1>3. ASSUME NEW m \in Msgs
      PROVE  Affords(runs[m], Waiting(m), AttemptsLeft(wal, m), Sent(m))
  <2>1. runs[m] = 0 /\ Waiting(m) = {} /\ Sent(m) = {}
    BY DEF Init, Waiting, Sent, Workers
  <2>2. AttemptsLeft(wal, m) = {}
    BY EmptyIsDirectory DEF Init, AttemptsLeft
  <2>. QED
    BY <2>1, <2>2, FS_EmptySet DEF Affords
<1>. QED
  BY <1>1, <1>2, <1>3 DEF BudgetInv, BudgetKept

(***************************************************************************)
(* However many crashes come, a message is dispatched once for each time   *)
(* it was received and MaxAttempts times more by recovery, as long as the  *)
(* attempts reach the disk; every other fault is allowed.                  *)
(***************************************************************************)
THEOREM DispatchesStayInBudget ==
    ASSUME UpdatesReachDisk
    PROVE  Spec => []DispatchBudget
<1>1. ASSUME BudgetInv PROVE DispatchBudget
  <2> SUFFICES ASSUME NEW m \in Msgs
               PROVE  runs[m] <= (1 + MaxAttempts) * Cardinality(Sent(m))
    BY DEF DispatchBudget, Sent
  <2>1. Affords(runs[m], Waiting(m), AttemptsLeft(wal, m), Sent(m))
    BY <1>1 DEF BudgetInv, BudgetKept
  <2>2. /\ Cardinality(Waiting(m)) \in Nat /\ Cardinality(AttemptsLeft(wal, m)) \in Nat
        /\ Cardinality(Sent(m)) \in Nat
    BY <2>1, FS_CardinalityType DEF Affords
  <2>3. (1 + MaxAttempts) * Cardinality(Sent(m)) \in Nat
    BY <2>2
  <2>. QED
    BY <2>1, <2>2, <2>3 DEF Affords
<1>2. BudgetInv => DispatchBudget
  BY <1>1
<1>3. BudgetInv /\ [Next]_vars => BudgetInv'
  BY BudgetStep
<1>. QED
  BY <1>2, <1>3, BudgetInit, PTL DEF Spec
=============================================================================
