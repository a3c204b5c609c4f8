----------------------- MODULE CallbackIntake_proofs -----------------------
(***************************************************************************)
(* What CallbackIntake keeps for any number of saves, secrets, callbacks   *)
(* and crashes, with either store and every fault: the secrets in use and  *)
(* those stored are the acknowledged ones, and the hint names the secret   *)
(* that differs.                                                           *)
(***************************************************************************)
EXTENDS CallbackIntake, TLAPS

\* Type correctness of the module's state.
IntakeTypes ==
    /\ store \in {"file", "k8s"} /\ up \in BOOLEAN /\ overlap \in BOOLEAN
    /\ remote \in Secrets \cup {Torn}
    /\ mirror \in Secrets /\ inMemory \in Secrets /\ wanted \in Secrets
    /\ save \in [Saves -> [stage : {"idle", "sent", "applied", "orphan"}, value : Secrets]]

\* One save at a time, and what it writes is explained; once applied, it is what
\* is stored, so that acknowledging it makes everything else agree.
SavesExplained ==
    ~overlap =>
        /\ \A s, t \in Saves : save[s].stage # "idle" /\ save[t].stage # "idle" => s = t
        /\ \A s \in Saves : save[s].stage # "idle" => Explained(save[s].value)
        /\ \A s \in Saves : save[s].stage = "applied" => remote = save[s].value

\* What the Kubernetes store remembers while its process runs.
MirrorExplained == (~overlap /\ store = "k8s" /\ up) => Explained(mirror)

IInv == IntakeTypes /\ SavesExplained /\ MirrorExplained /\ SecretsInForce /\ SecretsLast

LEMMA IdleIsASave == Idle \in [stage : {"idle", "sent", "applied", "orphan"}, value : Secrets]
BY DEF Idle, None, Secrets

LEMMA MergedIsSecret ==
    ASSUME NEW old \in Secrets, NEW key \in Keys \cup {Empty, Masked},
           NEW token \in Tokens \cup {Empty, Masked}
    PROVE  Merged(old, key, token) \in Secrets
BY DEF Merged, Secrets

LEMMA InitIInv == Init => IInv
<1> SUFFICES ASSUME Init PROVE IInv
    OBVIOUS
<1>1. IntakeTypes
    BY IdleIsASave, IntakeAssumption DEF Init, IntakeTypes, Secrets, None
<1>2. SavesExplained /\ MirrorExplained
    BY DEF Init, SavesExplained, MirrorExplained, Idle
<1>3. SecretsInForce /\ SecretsLast
    BY DEF Init, SecretsInForce, SecretsLast, Explained
<1> QED BY <1>1, <1>2, <1>3 DEF IInv

LEMMA TypesKept == IInv /\ [Next]_vars => IntakeTypes'
<1> SUFFICES ASSUME IInv, [Next]_vars PROVE IntakeTypes'
    OBVIOUS
<1> USE IdleIsASave DEF IInv, IntakeTypes
<1>1. ASSUME NEW s \in Saves, NEW key \in Keys \cup {Empty, Masked},
             NEW token \in Tokens \cup {Empty, Masked}, SaveSecrets(s, key, token)
      PROVE  IntakeTypes'
    <2>1. View \in Secrets
        BY <1>1 DEF SaveSecrets, View
    <2>2. Merged(View, key, token) \in Secrets
        BY <2>1, MergedIsSecret
    <2> QED BY <1>1, <2>2 DEF SaveSecrets
<1>2. ASSUME NEW s \in Saves, Apply(s) PROVE IntakeTypes'
    <2>1. save[s].value \in Secrets
        OBVIOUS
    <2>2. save' \in [Saves -> [stage : {"idle", "sent", "applied", "orphan"}, value : Secrets]]
        BY <1>2 DEF Apply
    <2> QED BY <1>2, <2>1, <2>2 DEF Apply, process, history
<1>3. ASSUME NEW s \in Saves, Saved(s) PROVE IntakeTypes'
    BY <1>3 DEF Saved
<1>4. ASSUME NEW s \in Saves, SaveFails(s) PROVE IntakeTypes'
    BY <1>4 DEF SaveFails, process, history
<1>5. ASSUME NEW s \in Saves, OrphanVanishes(s) PROVE IntakeTypes'
    BY <1>5 DEF OrphanVanishes, process, history
<1>6. ASSUME LoadSettings PROVE IntakeTypes'
    BY <1>6 DEF LoadSettings, View, history
<1>7. ASSUME HandleProbe PROVE IntakeTypes'
    BY <1>7 DEF HandleProbe, process, history
<1>8. ASSUME NEW c \in Callbacks, HandleCallback(c) PROVE IntakeTypes'
    BY <1>8 DEF HandleCallback, history
<1>9. ASSUME Crash PROVE IntakeTypes'
    <2>1. None \in Secrets
        BY DEF None, Secrets
    <2>2. save' \in [Saves -> [stage : {"idle", "sent", "applied", "orphan"}, value : Secrets]]
        BY <1>9 DEF Crash
    <2> QED BY <1>9, <2>1, <2>2 DEF Crash, history
<1>10. ASSUME Start PROVE IntakeTypes'
    BY <1>10 DEF Start, history
<1>11. ASSUME UNCHANGED vars PROVE IntakeTypes'
    BY <1>11 DEF vars
<1> QED BY <1>1, <1>2, <1>3, <1>4, <1>5, <1>6, <1>7, <1>8, <1>9, <1>10, <1>11 DEF Next

\* S is explained by acknowledged secrets w and attempted values o.
Fits(S, w, o) == (S.key = w.key \/ S.key \in o) /\ (S.token = w.token \/ S.token \in o)

\* What a save writes is explained by what was in force and what it was given.
LEMMA MergedFits ==
    ASSUME NEW old, NEW w, NEW o, NEW key, NEW token, Fits(old, w, o)
    PROVE  Fits(Merged(old, key, token), w, o \cup Tried(key, token))
BY DEF Fits, Merged, Tried

\* The configuration a request sees is explained.
LEMMA ViewFits ==
    ASSUME IInv, ~overlap, up, View # Torn
    PROVE  Fits(View, wanted, open)
BY DEF IInv, IntakeTypes, MirrorExplained, SecretsLast, View, Explained, Fits

\* The parts of the invariant that speak of explained secrets.
Explanations == SavesExplained /\ MirrorExplained /\ SecretsInForce /\ SecretsLast

LEMMA SaveKeeps ==
    ASSUME IInv, NEW s \in Saves, NEW key, NEW token, SaveSecrets(s, key, token)
    PROVE  Explanations'
<1> DEFINE new == Merged(View, key, token)
<1> HIDE DEF new
<1> SUFFICES ASSUME ~overlap' PROVE Explanations'
    BY DEF Explanations, SavesExplained, MirrorExplained, SecretsInForce, SecretsLast
<1>1. /\ ~overlap /\ up /\ View # Torn
      /\ \A x \in Saves : save[x].stage = "idle"
      /\ UNCHANGED <<store, remote, mirror, up, wanted>>
      /\ inMemory' = new
      /\ save' = [save EXCEPT ![s] = [stage |-> "sent", value |-> new]]
      /\ open' = open \cup Tried(key, token)
    BY DEF SaveSecrets, new
<1>2. Fits(new, wanted', open')
    BY <1>1, ViewFits, MergedFits DEF new
<1>3. \A S : Fits(S, wanted, open) => Fits(S, wanted', open')
    BY <1>1 DEF Fits
<1>4. /\ save'[s].stage = "sent" /\ save'[s].value = new
      /\ \A x \in Saves : x # s => save'[x].stage = "idle"
    BY <1>1 DEF IInv, IntakeTypes
<1>5. SavesExplained'
    BY <1>2, <1>4 DEF SavesExplained, Explained, Fits
<1>6. MirrorExplained' /\ SecretsLast'
    BY <1>1, <1>3 DEF IInv, MirrorExplained, SecretsLast, Explained, Fits
<1>7. SecretsInForce'
    BY <1>1, <1>2 DEF SecretsInForce, Explained, Fits
<1> QED BY <1>5, <1>6, <1>7 DEF Explanations

LEMMA ApplyKeeps ==
    ASSUME IInv, NEW s \in Saves, Apply(s)
    PROVE  Explanations'
<1>1. /\ save[s].stage \in {"sent", "orphan"} /\ remote' = save[s].value
      /\ UNCHANGED <<store, mirror, inMemory, up, wanted, open, overlap>>
    BY DEF Apply, process, history
<1>2. /\ \A x \in Saves : x # s => save'[x] = save[x]
      /\ save'[s].stage \in {"idle", "applied"}
      /\ save'[s].stage = "applied" => save'[s].value = save[s].value
    BY DEF Apply, Idle, IInv, IntakeTypes
<1>3. SavesExplained'
    BY <1>1, <1>2 DEF IInv, SavesExplained, Explained
<1>4. SecretsLast'
    BY <1>1 DEF IInv, SavesExplained, SecretsLast, Explained
<1>5. MirrorExplained' /\ SecretsInForce'
    BY <1>1 DEF IInv, MirrorExplained, SecretsInForce, Explained
<1> QED BY <1>3, <1>4, <1>5 DEF Explanations

\* The acknowledged value is what is stored and in use from here on.
LEMMA SavedKeeps ==
    ASSUME IInv, NEW s \in Saves, Saved(s)
    PROVE  Explanations'
<1> SUFFICES ASSUME ~overlap PROVE Explanations'
    BY DEF Saved, Explanations, SavesExplained, MirrorExplained, SecretsInForce, SecretsLast
<1>1. /\ save[s].stage = "applied" /\ remote = save[s].value
      /\ inMemory' = save[s].value /\ wanted' = save[s].value
      /\ store = "k8s" => mirror' = save[s].value
      /\ UNCHANGED <<store, remote, up, overlap>>
    BY DEF Saved, IInv, SavesExplained
<1>2. \A x \in Saves : save'[x].stage = "idle"
    BY <1>1 DEF Saved, Idle, IInv, IntakeTypes, SavesExplained
<1>3. SavesExplained'
    BY <1>2 DEF SavesExplained
<1>4. MirrorExplained' /\ SecretsInForce' /\ SecretsLast'
    BY <1>1 DEF MirrorExplained, SecretsInForce, SecretsLast, Explained
<1> QED BY <1>3, <1>4 DEF Explanations

\* A save that is rejected or vanishes leaves at most what it wrote.
LEMMA FailureKeeps ==
    ASSUME IInv, NEW s \in Saves, SaveFails(s) \/ OrphanVanishes(s)
    PROVE  Explanations'
<1>1. /\ UNCHANGED <<store, mirror, inMemory, up, wanted, open, overlap>>
      /\ remote' \in {remote, Torn}
      /\ remote' # remote => save[s].stage = "sent"
    BY DEF SaveFails, OrphanVanishes, process, history
<1>2. /\ \A x \in Saves : x # s => save'[x] = save[x]
      /\ save'[s].stage = "idle" /\ save[s].stage # "idle"
    BY DEF SaveFails, OrphanVanishes, Idle, IInv, IntakeTypes
<1>3. SavesExplained'
    BY <1>1, <1>2 DEF IInv, SavesExplained, Explained
<1>4. MirrorExplained' /\ SecretsInForce' /\ SecretsLast'
    BY <1>1 DEF IInv, MirrorExplained, SecretsInForce, SecretsLast, Explained
<1> QED BY <1>3, <1>4 DEF Explanations

LEMMA LoadKeeps ==
    ASSUME IInv, LoadSettings
    PROVE  Explanations'
<1>1. /\ up /\ View # Torn /\ inMemory' = View
      /\ UNCHANGED <<store, remote, mirror, up, save, wanted, open, overlap>>
    BY DEF LoadSettings, history
<1>2. SecretsInForce'
    BY <1>1, ViewFits DEF SecretsInForce, Explained, Fits
<1>3. SavesExplained' /\ MirrorExplained' /\ SecretsLast'
    BY <1>1 DEF IInv, SavesExplained, MirrorExplained, SecretsLast, Explained
<1> QED BY <1>2, <1>3 DEF Explanations

\* A request cut off by a crash may still reach the Kubernetes store: as an orphan
\* it stays explained.
LEMMA CrashKeeps ==
    ASSUME IInv, Crash
    PROVE  Explanations'
<1>1. /\ ~up' /\ remote' \in {remote, Torn}
      /\ UNCHANGED <<store, wanted, open, overlap>>
    BY DEF Crash, history
<1>2. \A x \in Saves : \/ save'[x].stage = "idle"
                       \/ /\ save'[x].stage = "orphan" /\ save'[x].value = save[x].value
                          /\ save[x].stage # "idle"
    BY DEF Crash, Idle, IInv, IntakeTypes
<1>3. SavesExplained'
    BY <1>1, <1>2 DEF IInv, SavesExplained, Explained
<1>4. MirrorExplained' /\ SecretsInForce' /\ SecretsLast'
    BY <1>1 DEF IInv, MirrorExplained, SecretsInForce, SecretsLast, Explained
<1> QED BY <1>3, <1>4 DEF Explanations

LEMMA StartKeeps ==
    ASSUME IInv, Start
    PROVE  Explanations'
<1>1. /\ remote # Torn /\ inMemory' = remote /\ up'
      /\ store = "k8s" => mirror' = remote
      /\ UNCHANGED <<store, remote, save, wanted, open, overlap>>
    BY DEF Start, history
<1>2. SavesExplained'
    BY <1>1 DEF IInv, SavesExplained, Explained
<1>3. MirrorExplained' /\ SecretsInForce' /\ SecretsLast'
    BY <1>1 DEF IInv, MirrorExplained, SecretsInForce, SecretsLast, Explained
<1> QED BY <1>2, <1>3 DEF Explanations

LEMMA StepKeepsIInv == IInv /\ [Next]_vars => IInv'
<1> SUFFICES ASSUME IInv, [Next]_vars PROVE IInv'
    OBVIOUS
<1>1. IntakeTypes'
    BY TypesKept
<1>2. ASSUME UNCHANGED <<store, remote, mirror, inMemory, up, save, wanted, open, overlap>>
      PROVE  Explanations'
    BY <1>2 DEF IInv, Explanations, SavesExplained, MirrorExplained, SecretsInForce,
                SecretsLast, Explained
<1>3. CASE HandleProbe \/ \E c \in Callbacks : HandleCallback(c)
    BY <1>1, <1>2, <1>3 DEF HandleProbe, HandleCallback, process, history, IInv, Explanations
<1>4. CASE UNCHANGED vars
    BY <1>1, <1>2, <1>4 DEF vars, IInv, Explanations
<1>5. CASE LoadSettings \/ Crash \/ Start
    BY <1>1, <1>5, LoadKeeps, CrashKeeps, StartKeeps DEF IInv, Explanations
<1>6. ASSUME NEW s \in Saves, NEW key \in Keys \cup {Empty, Masked},
             NEW token \in Tokens \cup {Empty, Masked}, SaveSecrets(s, key, token)
      PROVE  IInv'
    BY <1>1, <1>6, SaveKeeps DEF IInv, Explanations
<1>7. ASSUME NEW s \in Saves, Apply(s) \/ Saved(s) \/ SaveFails(s) \/ OrphanVanishes(s)
      PROVE  IInv'
    BY <1>1, <1>7, ApplyKeeps, SavedKeeps, FailureKeeps DEF IInv, Explanations
<1> QED BY <1>3, <1>4, <1>5, <1>6, <1>7 DEF Next

\* The invariant holds of every reachable state.
THEOREM IInvHolds == Spec => []IInv
BY InitIInv, StepKeepsIInv, PTL DEF Spec

\* Callbacks are always checked with the secrets the acknowledged saves add up to,
\* whatever failed, was reloaded or was restarted (app.config.ts, updateTSignConfig).
THEOREM SecretsStayInForce == Spec => []SecretsInForce
BY IInvHolds, PTL DEF IInv

\* And so is what is stored.
THEOREM SecretsStayStored == Spec => []SecretsLast
BY IInvHolds, PTL DEF IInv

\* What the checks say when the secrets in use are those acknowledged.
LEMMA VerdictNamesDifference ==
    ASSUME NEW c \in Callbacks, NEW w \in Secrets
    PROVE  LET d == Noted(Verdict(c, w))
           IN  /\ d = Null <=> c.token = w.token /\ c.key = w.key
               /\ d = "decrypt_failed" <=> c.token = w.token /\ c.key # w.key
               /\ d = "signature_failed" <=> Empty \notin {c.token, w.token} /\ c.token # w.token
               /\ d = "signature_no_token" <=> c.token # Empty /\ w.token = Empty
               /\ d = "signature_missing" <=> c.token = Empty /\ w.token # Empty
<1>1. /\ c.token = Empty <=> c.signed = {}
      /\ c.signed \in {{}, {"header"}, {"query"}, {"header", "query"}}
    BY DEF Callbacks
<1>2. Null \notin {"signature_no_token", "signature_failed", "signature_missing",
                   "decrypt_failed"}
    BY IntakeAssumption
<1>3. CASE c.signed = {}
    BY <1>1, <1>2, <1>3 DEF Noted, Verdict
<1>4. CASE c.signed # {}
    <2>1. "header" \in c.signed \/ c.signed = {"query"}
        BY <1>1, <1>4
    <2> QED BY <1>1, <1>2, <1>4, <2>1 DEF Noted, Verdict
<1> QED BY <1>3, <1>4

LEMMA InitHint == Init => HintIsTrue
BY DEF Init, HintIsTrue

LEMMA StepKeepsHint == IInv /\ HintIsTrue /\ [Next]_vars => HintIsTrue'
<1> SUFFICES ASSUME IInv, HintIsTrue, [Next]_vars PROVE HintIsTrue'
    OBVIOUS
<1>1. ASSUME NEW c \in Callbacks, HandleCallback(c) PROVE HintIsTrue'
    <2>1. SUFFICES ASSUME last'.settled PROVE HintIsTrue'
        BY DEF HintIsTrue
    <2>2. /\ last' = [callback |-> c, wanted |-> wanted,
                      settled |-> open = {} /\ Busy = {} /\ ~overlap]
          /\ diag' = Noted(Verdict(c, inMemory))
          /\ open = {} /\ ~overlap /\ up
        BY <1>1, <2>1 DEF HandleCallback
    <2>3. inMemory = wanted
        BY <2>2 DEF IInv, IntakeTypes, SecretsInForce, Explained, Secrets
    <2>4. last'.callback = c /\ last'.wanted = wanted /\ wanted \in Secrets
        BY <2>2 DEF IInv, IntakeTypes
    <2> QED BY <2>2, <2>3, <2>4, VerdictNamesDifference DEF HintIsTrue
<1>2. ASSUME UNCHANGED <<diag, last>> PROVE HintIsTrue'
    BY <1>2 DEF HintIsTrue
<1>3. ASSUME Crash PROVE HintIsTrue'
    BY <1>3 DEF Crash, HintIsTrue
<1>4. CASE UNCHANGED vars
    BY <1>2, <1>4 DEF vars
<1>5. CASE LoadSettings \/ HandleProbe \/ Start
    BY <1>2, <1>5 DEF LoadSettings, HandleProbe, Start, process
<1>6. ASSUME NEW s \in Saves, NEW key, NEW token,
             \/ SaveSecrets(s, key, token)
             \/ Apply(s) \/ Saved(s) \/ SaveFails(s) \/ OrphanVanishes(s)
      PROVE  HintIsTrue'
    BY <1>2, <1>6 DEF SaveSecrets, Apply, Saved, SaveFails, OrphanVanishes, process
<1> QED BY <1>1, <1>3, <1>4, <1>5, <1>6 DEF Next

\* The diagnostic of a callback that came when nothing was being saved names the
\* secret that differed (callback.controller.ts), for any secrets and signatures.
THEOREM HintStaysTrue == Spec => []HintIsTrue
BY InitHint, StepKeepsHint, IInvHolds, PTL DEF Spec
=============================================================================
