--------------------------- MODULE CallbackIntake ---------------------------
(***************************************************************************)
(* The platform's secrets: saved on the settings page, kept by             *)
(* app.config.ts, and used by callback.controller.ts and                   *)
(* decrypt.service.ts to admit a callback or to leave a diagnostic.  What  *)
(* happens to an admitted callback is CallbackDelivery's concern.          *)
(*                                                                         *)
(* The store is the file store, behind which a request runs to its end     *)
(* (LoopFree), or the Kubernetes store, whose PATCH other requests pass.   *)
(***************************************************************************)
EXTENDS Naturals, FiniteSets

CONSTANTS
    Stores,        \* which of "file" and "k8s" CONFIG_STORE may say
    Saves,         \* PUT requests of settings pages
    Keys, Tokens,  \* secrets, without the empty one
    Empty,         \* an empty string
    Masked,        \* a value with "****" in it
    Faults,        \* subset of FaultKinds
    Torn, Null,    \* a file truncated and not rewritten; an absent value
    MaxSaves,      \* bound: saves begun
    MaxCallbacks,  \* bound: callbacks received
    MaxCrashes     \* bound: crashes

FaultKinds == {"write",   \* a write fails and changes nothing
               "torn",    \* a file write fails, or is cut off, after the truncation
               "answer"}  \* a PATCH is applied and its answer lost

ASSUME IntakeAssumption ==
    /\ Stores \subseteq {"file", "k8s"} /\ Faults \subseteq FaultKinds
    /\ {Empty, Masked} \cap (Keys \cup Tokens) = {} /\ Empty # Masked
    /\ Null \notin {"signature_no_token", "signature_failed", "signature_missing",
                    "decrypt_failed"}
    /\ MaxSaves \in Nat /\ MaxCallbacks \in Nat /\ MaxCrashes \in Nat

Secrets == [key : Keys \cup {Empty}, token : Tokens \cup {Empty}]
None    == [key |-> Empty, token |-> Empty]

VARIABLES
    store,      \* getStoreType()
    remote,     \* tsign of app.json as stored, or Torn
    mirror,     \* the same as the Kubernetes store remembers it
    inMemory,   \* tsign of _appConfig
    up,         \* the process runs
    save,       \* where each save is, and what it writes
    diag,       \* lastCallbackDiagnostic
    saves, received, crashes,  \* numbers so far
    wanted,     \* history: what the acknowledged saves add up to
    open,       \* history: what saves since the last acknowledged one tried to set
    overlap,    \* history: a save began before another's end, or its PATCH's
    last        \* history: the latest callback with a body in this run, or Null

process == <<inMemory, up, diag>>
clock   == <<saves, received, crashes>>
history == <<wanted, open, overlap>>
vars == <<store, remote, mirror, inMemory, up, save, diag, saves, received, crashes,
          wanted, open, overlap, last>>

Idle     == [stage |-> "idle", value |-> None]
Busy     == {s \in Saves : save[s].stage \in {"sent", "applied"}}
LoopFree == store = "file" => Busy = {}
View     == IF store = "file" THEN remote ELSE mirror
-----------------------------------------------------------------------------
(***************************************************************************)
(* Saving: handleSaveTSignConfig, updateTSignConfig, saveAppConfig.        *)
(***************************************************************************)

\* Mutant of Merged: what the form left empty is saved as empty.
MergedAsSent(old, key, token) ==
    [key   |-> IF key = Masked THEN old.key ELSE key,
     token |-> IF token = Masked THEN old.token ELSE token]

\* shouldUpdate: an empty field and a masked value keep what there is.
Merged(old, key, token) ==
    [key   |-> IF key \in {Empty, Masked} THEN old.key ELSE key,
     token |-> IF token \in {Empty, Masked} THEN old.token ELSE token]

Tried(key, token) == {v \in {key, token} : v \notin {Empty, Masked}}

\* The configuration is loaded again, the object in use is changed, and written.
SaveSecrets(s, key, token) ==
    /\ up /\ LoopFree /\ save[s].stage = "idle" /\ saves < MaxSaves
    /\ View # Torn
    /\ LET new == Merged(View, key, token)
       IN  /\ inMemory' = new
           /\ save' = [save EXCEPT ![s] = [stage |-> "sent", value |-> new]]
    /\ saves' = saves + 1
    /\ open' = open \cup Tried(key, token)
    /\ overlap' = (overlap \/ \E x \in Saves : save[x].stage # "idle")
    /\ UNCHANGED <<store, remote, mirror, up, diag, received, crashes, wanted, last>>

Apply(s) ==
    /\ save[s].stage \in {"sent", "orphan"}
    /\ remote' = save[s].value
    /\ save' = [save EXCEPT ![s] = IF @.stage = "orphan" THEN Idle
                                   ELSE [@ EXCEPT !.stage = "applied"]]
    /\ UNCHANGED <<store, mirror, process, clock, history, last>>

\* The PATCH of a dead process is never applied.
OrphanVanishes(s) ==
    /\ save[s].stage = "orphan"
    /\ save' = [save EXCEPT ![s] = Idle]
    /\ UNCHANGED <<store, remote, mirror, process, clock, history, last>>

\* The write's promise resolves: the written object is the one in use, and the
\* page is told.
Saved(s) ==
    /\ save[s].stage = "applied"
    /\ inMemory' = save[s].value
    /\ mirror' = IF store = "k8s" THEN save[s].value ELSE mirror
    /\ wanted' = save[s].value
    /\ open' = {}
    /\ save' = [save EXCEPT ![s] = Idle]
    /\ UNCHANGED <<store, remote, up, diag, clock, overlap, last>>

\* The write is rejected: the page is told of a failure, the object in use has
\* been changed already.
SaveFails(s) ==
    /\ \/ "write" \in Faults /\ save[s].stage = "sent" /\ UNCHANGED remote
       \/ "torn" \in Faults /\ store = "file" /\ save[s].stage = "sent" /\ remote' = Torn
       \/ "answer" \in Faults /\ store = "k8s" /\ save[s].stage = "applied" /\ UNCHANGED remote
    /\ save' = [save EXCEPT ![s] = Idle]
    /\ UNCHANGED <<store, mirror, process, clock, history, last>>

\* getTSignConfig, of loadData or of the reload after a save: what is stored
\* becomes what is in use.
LoadSettings ==
    /\ up /\ LoopFree /\ View # Torn
    /\ inMemory' = View
    /\ UNCHANGED <<store, remote, mirror, up, save, diag, clock, history, last>>
-----------------------------------------------------------------------------
(***************************************************************************)
(* A callback: what it is signed and encrypted with (Empty: it is not),    *)
(* and how the signature is sent.                                          *)
(***************************************************************************)
Callbacks == {c \in [token : Tokens \cup {Empty}, key : Keys \cup {Empty},
                     signed : SUBSET {"header", "query"}] :
                c.token = Empty <=> c.signed = {}}

\* Mutant of Verdict: the callback is decrypted before its signature is looked at.
VerdictKeyFirst(c, use) ==
    IF c.key # use.key THEN "decrypt_failed"
    ELSE IF c.signed # {} /\ use.token = Empty THEN "signature_no_token"
    ELSE IF c.signed # {} /\ c.token # use.token THEN "signature_failed"
    ELSE IF c.signed = {} /\ use.token # Empty THEN "signature_missing"
    ELSE "success"

\* handleCallback up to the write-ahead log: the header is preferred to the query;
\* a body is decrypted with the key, or parsed as it is when there is none.
Verdict(c, use) ==
    IF c.signed # {} /\ use.token = Empty THEN "signature_no_token"
    ELSE IF "header" \in c.signed /\ c.token # use.token THEN "signature_failed"
    ELSE IF c.signed = {"query"} /\ c.token # use.token THEN "signature_failed"
    ELSE IF use.token # Empty /\ c.signed = {} THEN "signature_missing"
    ELSE IF c.key # use.key THEN "decrypt_failed"
    ELSE "success"

\* The diagnostic of a failure; success clears it.
Noted(verdict) == IF verdict = "success" THEN Null ELSE verdict

HandleCallback(c) ==
    /\ up /\ LoopFree /\ received < MaxCallbacks
    /\ diag' = Noted(Verdict(c, inMemory))
    /\ received' = received + 1
    /\ last' = [callback |-> c, wanted |-> wanted,
                settled |-> open = {} /\ Busy = {} /\ ~overlap]
    /\ UNCHANGED <<store, remote, mirror, inMemory, up, save, saves, crashes, history>>

\* A probe has no body: it is answered, and leaves everything as it was.
HandleProbe ==
    /\ up /\ LoopFree /\ received < MaxCallbacks
    /\ received' = received + 1
    /\ UNCHANGED <<store, remote, mirror, process, save, saves, crashes, history, last>>
-----------------------------------------------------------------------------
Crash ==
    /\ up /\ crashes < MaxCrashes
    /\ up' = FALSE /\ inMemory' = None /\ diag' = Null /\ last' = Null /\ mirror' = None
    /\ \/ UNCHANGED remote
       \/ "torn" \in Faults /\ store = "file" /\ (\E s \in Saves : save[s].stage = "sent")
          /\ remote' = Torn
    /\ save' = [s \in Saves |-> IF store = "k8s" /\ save[s].stage = "sent"
                                THEN [save[s] EXCEPT !.stage = "orphan"]
                                ELSE IF save[s].stage = "orphan" THEN save[s] ELSE Idle]
    /\ crashes' = crashes + 1
    /\ UNCHANGED <<store, saves, received, history>>

\* Mutant of Start: the server listens before the configuration is loaded.
StartUnloaded ==
    /\ ~up /\ up' = TRUE
    /\ UNCHANGED <<store, remote, mirror, inMemory, save, diag, clock, history, last>>

\* bootstrap: loadAppConfig; a file that cannot be parsed ends the start.
Start ==
    /\ ~up /\ remote # Torn
    /\ up' = TRUE /\ inMemory' = remote
    /\ mirror' = IF store = "k8s" THEN remote ELSE mirror
    /\ UNCHANGED <<store, remote, save, diag, clock, history, last>>

Init ==
    /\ store \in Stores /\ remote = None /\ mirror = None /\ inMemory = None
    /\ up = FALSE /\ save = [s \in Saves |-> Idle] /\ diag = Null
    /\ saves = 0 /\ received = 0 /\ crashes = 0
    /\ wanted = None /\ open = {} /\ overlap = FALSE /\ last = Null

Next ==
    \/ \E s \in Saves :
         \/ \E key \in Keys \cup {Empty, Masked}, token \in Tokens \cup {Empty, Masked} :
              SaveSecrets(s, key, token)
         \/ Apply(s) \/ Saved(s) \/ SaveFails(s) \/ OrphanVanishes(s)
    \/ LoadSettings \/ HandleProbe \/ Crash \/ Start
    \/ \E c \in Callbacks : HandleCallback(c)

Spec == Init /\ [][Next]_vars
-----------------------------------------------------------------------------
(***************************************************************************)
(* Properties.                                                             *)
(***************************************************************************)
Explained(S) ==
    /\ S.key = wanted.key \/ S.key \in open
    /\ S.token = wanted.token \/ S.token \in open

\* Callbacks are checked with the secrets the acknowledged saves add up to: a form
\* that leaves a field empty, a mask that is sent back, a reload in the middle of a
\* save or a restart never lose or replace one.  Only a save that was reported as
\* failed, or has no answer yet, may show; two saves at once are left out.
SecretsInForce == (up /\ ~overlap) => Explained(inMemory)

\* The same holds of what is stored, so that a restart keeps it.
SecretsLast == (~overlap /\ remote # Torn) => Explained(remote)

\* The warning on the settings page is about the latest callback with a body, and
\* if that came when every save had been acknowledged it names the secret in which
\* platform and console differed: the token, by how the callback was signed, before
\* the key.  There is none if and only if both agreed.  Probes, reloads and saves
\* since then do not change it.
HintIsTrue ==
    (last # Null /\ last.settled) =>
        LET c == last.callback  w == last.wanted
        IN  /\ diag = Null <=> c.token = w.token /\ c.key = w.key
            /\ diag = "decrypt_failed" <=> c.token = w.token /\ c.key # w.key
            /\ diag = "signature_failed" <=> Empty \notin {c.token, w.token} /\ c.token # w.token
            /\ diag = "signature_no_token" <=> c.token # Empty /\ w.token = Empty
            /\ diag = "signature_missing" <=> c.token = Empty /\ w.token # Empty
=============================================================================
