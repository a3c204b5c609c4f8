# tsign-callback-dispatcher in TLA+

A verification development kept beside the dispatcher's code. It models the
backend (`src/backend/src`), which receives callbacks of Tencent's e-signature
platform, answers 200 and fans each message out to the HTTP targets an
administrator configured, and the web console (`src/frontend/src`) in which the
administrator does so. Paths below are relative to `src/backend/src` unless they
begin with `src/`; pages are in `src/frontend/src/pages`.

## 1. Inventory

| Component | State it keeps | Operations |
|---|---|---|
| Callback intake, `controllers/callback.controller.ts` | last diagnostic; the closure of each queued dispatch | probe, signature and decryption verdicts, WAL write, 200, queue the dispatch, remove the WAL file |
| WAL, `services/wal.service.ts` | files in the WAL directory and its `dead-letter` | `writeWal`, `removeWal`, `updateWalAttempts`, `moveToDeadLetter`, `scanPendingWals`, `recoverPendingDispatches` |
| Dispatch, `services/dispatch.service.ts` | none of its own | `dispatchMessage`: load config, one `dispatchToTarget` per enabled target, wait for all, add a dispatch record |
| HTTP client, `utils/http.util.ts` | attempt counter of a call | `httpPostWithRetry` |
| Dispatch log, `services/dispatch-log.service.ts` | ring buffer of 500 records, running counters | add, filter and page, statistics, clear |
| Configuration, `services/config.service.ts`, `store/*` | two caches, the store's keys, version lists, operation log | CRUD on targets and tags, versions, rollback, operation log, watch |
| Application configuration, `config/app.config.ts` | the object in use, with the platform's secrets | load, save |
| Tag matching, `services/tag-matcher.service.ts` | regular expression cache | `shouldDispatch` |
| Authentication, `services/auth.service.ts`, `middleware/auth.middleware.ts` | users in the store | first user, login, verify, change password |
| Start-up, `app.ts` | none | order of initialisation, recovery, crash handlers |
| Web console, `src/frontend/src` | the token in `localStorage`; each page's table, spinner, dialog | login, list pages and their dialogs, history page, settings page, password dialog |
| Cryptography, health, logger, deployment | | see section 7 |

How they interact. The intake calls the WAL synchronously, then queues a
macrotask (`setImmediate`) that runs the dispatch. The dispatch reads the
configuration's caches, asks tag matching about each enabled target, posts
through the HTTP client and writes one dispatch log record. At start-up
`recoverPendingDispatches` scans the directory and runs the same dispatch for
what it finds, concurrently with new callbacks. The console's REST calls and
the store's watcher change the configuration while dispatches are in flight.
Everything in one process is interleaved at `await` points only: with the file
store, whose promises hide synchronous calls, a request of the console runs to
its end; with the Kubernetes store others pass it at every PATCH.

What is hard here: a crash anywhere between the write of the WAL file and its
removal; recovery running beside the live process on the same directory;
recovery itself crashing, repeatedly; failures that are swallowed (every WAL
operation but the first logs and goes on); configurations that change or fail
to load under a running dispatch; retries that meet late answers; caches
mutated before a write that fails; counters and buffers at their limits;
answers that reach a page of the console out of order, or a tab that shows
something else by then.

What makes each component correct:

- intake, WAL, dispatch, recovery: an acknowledged callback that was persisted
  is never lost, is eventually tried, and is not dispatched without end; live
  process and recovery never work on the same file;
- HTTP client: which failures are retried, the result is the last attempt's and
  accounts for every copy sent;
- dispatch log: a page shows exactly the newest records in order;
- configuration: what is in force and what is stored is what was acknowledged,
  after every call that succeeds and after one that fails; rollback restores what
  a version held; the operation log tells what was done;
- application configuration: callbacks are checked with the acknowledged secrets;
- tag matching and the form: the documented AND and OR, and what the dialog shows
  is what is filtered;
- authentication: a changed password ends every older session;
- console: a page shows the changes it was told of and undoes nobody else's.

## 2. Plan

In order of importance; all of it exists.

1. `CallbackDelivery`, refining `AtLeastOnce`: intake, WAL, dispatch, crash,
   restart and recovery composed, because their properties only exist in the
   composition. Proofs in `CallbackDelivery_proofs`.
2. `DispatchLog`, refining `DispatchHistory`: the ring buffer; pages and filters
   against a definition of what a reader is entitled to. `HistoryPage`: the
   console's history page over it. Proofs about both in `DispatchLog_proofs`.
3. `HttpRetry`: attempts, classification, delays, late answers. Proofs in
   `HttpRetry_proofs`.
4. `ConfigService`: caches, versions, rollback, operation log and watcher over
   either store, with failing writes and crashes. Proofs in
   `ConfigService_proofs`.
5. `TagMatcher` and `TargetForm`: the verdict on a message as operators, composed
   with the console's dialogs that produce what they decide by. Proofs in
   `TargetForm_proofs`.
6. `CallbackIntake`: the secrets and the verdicts in front of `CallbackDelivery`.
   Proofs in `CallbackIntake_proofs`.
7. `Console`: tabs, login, list pages and password changes against
   authentication and the list handlers. Proofs in `Console_proofs`.

`NatRecursion` serves the proofs only: induction and recursion over the natural
numbers as facts about sets and functions.

Considered and left out: several replicas on one ConfigMap and two processes on
one WAL directory. The code has no protocol for either, so that the only thing a
model shows is that they diverge (section 6).

## 3. Modules

Operators whose comment begins "Mutant of" are altered copies of the operator
that follows them. No specification uses them; they record the faults each
property was seen to detect. Variables called history are read by no guard of
the program's steps; they only serve the properties.

### `CallbackDelivery`

The state. `wal` and `dead` are the two directories, functions from file names
to entries. A file name is the pair of the sanitised message id and the
millisecond, as `walFileName` builds it. An entry carries the message, its
`attempts`, its creation time and whether its content is whole or torn; only a
whole one parses. `phase` says where each worker stands. The workers are the
requests (`handleCallback` and the closure it queues) and `Recovery`, the one
loop of `recoverPendingDispatches`. `path` is `capturedWalPath`, `todo` the
targets `Promise.allSettled` still waits for, `pending` the scanned list with
the entry objects recovery mutates, `current` and `failed` the loop's variables,
`enabled` the enabled targets of the callbacks config, `cached` which config
caches are filled, `up`, `now` and `crashes` the process and its environment.
`stable`, `attempted`, `runs` and, after a crash, `path` are history variables:
no guard of a process step reads them.

The actions and the code:

| Action | Code |
|---|---|
| `Receive` (`WriteWal`) | `callback.controller.ts` 201-209, `writeWal` |
| `Reply` | `callback.controller.ts` 211-218 |
| `BeginDispatch`, `PostSettles` | `dispatchMessage`, `dispatchToTarget` |
| `FinishCallback` | the end of the `setImmediate` closure, `removeWal` |
| `Crash`, `CrashInWriteWal`, `CrashInUpdate` | a kill anywhere, inside `writeWal`, inside `updateWalAttempts` |
| `Restart` | `bootstrap` and the synchronous scan of `recoverPendingDispatches` |
| `RecoverGivesUp`, `RecoverStarts`, `RecoverFinishes` | the three exits of the recovery loop's body |
| `ToggleTarget`, `ReloadFails`, `Tick` | `updateCallback`, the watcher's reload, the clock |

Atomicity. Node runs one macrotask at a time and `handleCallback` never awaits
between the WAL write and the 200, so no other step of the process is enabled
while a request is in phase `persisted` (`LoopFree`); a crash is. Loading the
configuration in the file store takes microtasks only, so config load and
fan-out are one step; every POST settles in a step of its own.

The faults a run injects are listed in `FaultKinds`, each a failure the code
catches and swallows (or a crash point) and each with its own branch.
`Exhausted`, `Expired` and the file name are the code's own expressions.

### `AtLeastOnce`

The promise alone: a status per request that goes none, promised, discharged.
`PromiseOf` in `CallbackDelivery` computes the status from the files, and the
instance `Promised` states the refinement as `ImplementsPromise`. A status
"lost" exists in the mapping so that a loss is a violation, never a stutter.

### `DispatchLog` and `DispatchHistory`

`DispatchLog` is `dispatch-log.service.ts`: `buffer`, `head` and `count` of the
ring buffer, the three `totals`, and the id counter. `log` is a history variable,
everything recorded since the last clear. Every function of the service is
synchronous, so `Add` (`addDispatchRecord`) and `Clear` are one step each, and
the queries `GetRecent`, `FilteredGetRecent`, `GetDispatchRecords` and
`RecentFailures` are operators on a state, with the slot arithmetic of the code
(`Index`, with JavaScript's remainder). A record keeps what the queries look at:
its id, the text a search reads (an element of `Texts`, with `Found` for
`includes`), the two counts and whether there was an error. `Window`, `Hits`, `Rank`
and `IsStretch` say what a reader is entitled to, without recursion or slots: the
records of a page are those of the searched stretch of the log whose rank among
the hits lies within the page. `DispatchHistory` is the abstract history: a
sequence, newest first, that forgets from its end.

### `HistoryPage`

`DispatchHistoryPage.tsx` over `DispatchLog`. `loads` and `statLoads` are the
requests under way; the server answers one at any time (`ServeList`,
`ServeStats`), and the answer or a failure reaches the page at any later time
(`ArriveList`, `FailList`, `ArriveStats`, `FailStats`). `TurnTo`, `SearchFor`
and `Refresh` are the handlers of the controls up to their `await`; `Record` is
a dispatch that adds a record meanwhile. `refreshing` holds the parts of
`handleRefresh` still awaited; the button is enabled when it is empty. `shown`
stands for what is in the table: the load it came from, with its page and
search.

### `HttpRetry`

One call of `httpPostWithRetry`. `i` and `phase` are the loop and the `await` it
stands at, `travelling` the requests on their way, `served` what the target has
answered to which attempt. A time-out or a reset leaves the request travelling,
so the target may serve it during a later attempt or after the call; the answer
then has no listener.
In `CallbackDelivery` a call is one step that settles with either verdict;
`CallEnds` and `SuccessIsReal` are what that step takes for granted.

### `ConfigService`

`config.service.ts` over its two stores. `remote` is what the directory or the
ConfigMap holds: the two documents, the numbered versions, the operation log. A
document maps each item (a target or a tag definition) to the change that
determined it; `deleted` says which changes are deletions. `cache` and `heap`
separate the cached object from what it holds, because the code changes the
object first and writes it afterwards, and a request keeps its object while a
reload replaces the cache. `mirror` is `K8sConfigStore.cache`.

| Action | Code |
|---|---|
| `Change` | `addCallback`, `updateCallback`, `deleteCallback`, `addTag`, `updateTag`, `deleteTag` up to the write |
| `Apply` | the store carries the write out |
| `ConfigSaved`, `VersionSaved`, `Pruned` | the promise of a write resolves: cache, `saveConfigVersion`, pruning, `addLog`, the answer |
| `WriteFails` | a write is rejected: nothing done, file truncated, or the answer of a PATCH lost |
| `Rollback`, `ReadConfig`, `ReadLog`, `FlushLog` | `rollbackConfig`, the getters, `getOperationLogs`, `flushLogsToFile` |
| `Edit`, `WatchFires` | an edited file; the debounced callback of `watch` |
| `Crash`, `CrashInWrite`, `OrphanVanishes`, `Start` | a kill anywhere or inside `writeFileSync`; the fate of a PATCH whose process died; `bootstrap` |

Which store runs is chosen in `Init`. With the file store `LoopFree` lets nothing
of the process run between the steps of one request, but a crash may; with the
Kubernetes store everything may. `floor`, `open`, `acks` and `runAcks` say what the
console was told. `Listed` sorts version names as strings, by `Padded`.

### `TagMatcher` and `TargetForm`

`TagMatcher` is `tag-matcher.service.ts` as operators, one per function, with the
early returns of `shouldDispatch` in their order and the two copies of the loop
over groups (`PassesBuiltInTags`, `GetBuiltInMismatchDetail`) kept apart. Strings
are members of `Values`; prefixes, `includes` and regular expressions are
relations on them. `Wants` is the reference: what the documents promise, row by
row, without groups or early returns.

`TargetForm` has one target and one user. `HandleAdd`, `HandleEdit`, the edits of
the dialog and `HandleSubmit` are the handlers of `CallbackManagementPage.tsx`;
`CreateTag`, `EditTag` and `RemoveTag` those of the tag dialog. `Shown` and
`Submitted` are the two conversions between a stored target and the form: an empty
list of events stands for all of them.

### `CallbackIntake`

`remote`, `mirror` and `inMemory` are the secrets as stored, as the Kubernetes
store remembers them, and in the object the process uses. `SaveSecrets`, `Apply`,
`Saved` and `SaveFails` are `updateTSignConfig` and its write: the object in use is
changed before the write and replaced after it. `LoadSettings` is
`getTSignConfig`, which loads the stored configuration again. `HandleCallback` is
`handleCallback` up to the WAL; `Verdict` has its branches in their order, and
`diag` is `lastCallbackDiagnostic`. A callback is the secrets it was signed and
encrypted with; a body decrypts, or parses when there is no key, if and only if
both sides have the same key. `CallbackDelivery` begins where the verdict is
"success".

### `Console`

The console in one browser: tabs that share the token in `localStorage`, each at
the login page or at a list page with its table, spinner and dialog. A request is
in a slot from the click to the end of its answer. It carries the token the
interceptor found, is handled by the server at any time (`Refuse`, `HandleLoad`,
`HandleChange`, `HandleLogin`, `HandlePassword`), and its answer arrives at any
later one (`ChangeTold`, `LoadArrives`, `LoggedIn`, `PasswordSet`, `Rejected`,
`Unauthorized`), or never (`TimesOut`). `live` says whether the page that sent it
is still mounted: the interceptor runs either way, `setState` does nothing on an
unmounted page. `Elsewhere` is another administrator. The server's handlers are
those of the file store, each one step; what the configuration does inside them is
`ConfigService`'s concern. A target is its switch and its url, which the two
handlers that change a target treat differently: the switch sends one field, the
dialog the whole row.

## 4. Runs

`MCCallbackDelivery` holds the small instances: two requests, two messages, two
targets of which one reads the tag config. `MCDispatchLog`, `MCHistoryPage`,
`MCHttpRetry`, `MCConfigService`, `MCTargetForm`, `MCCallbackIntake` and `MCConsole`
hold those of their modules.

| Run | Question | Bounds and faults |
|---|---|---|
| `delivery_safe` | nothing lost, no early end, no orphan, budget kept, `AtLeastOnce` implemented, every persisted callback served | 2 crashes, `MaxAttempts` 1, `MaxAge` 2; WAL writes and removals may fail |
| `delivery_faulty` | one dispatcher per file, attempts bounded, whatever fails | every fault, both messages share one sanitised id, 1 crash, `MaxAttempts` 2 |
| `delivery_config_loss` | finding 1 | the one fault it needs |
| `log_ring` | pages and failures are those of a bounded history | capacity 3, 5 records, searches that match all or some, limits and offsets out of range |
| `page_loads` | table, controls, spinner and button agree whatever the order of the answers | 3 loads, 2 records, 2 pages of one record, one search |
| `retry_call` | what a result says, when a call gives up, how long it lasts, that it returns | up to 2 retries, one status on each side of every comparison, every error code |
| `config` | what is in force, stored and logged is what was acknowledged | either store, 2 requests at once, 2 targets, 1 built-in tag, 2 versions, 2 log entries, 4 changes, 1 crash, every fault |
| `config_versions` | finding 3 | the file store, no fault, 5 changes |
| `target_form` | the documented verdict, a true reason, a form that means what it shows | 4 events in two lists, 2 rows, 5 edits, 3 definitions, 36 messages |
| `target_unknown` | finding 2 | the same, smaller |
| `intake` | the acknowledged secrets are in force and last; the hint is true | either store, 2 saves, 2 keys, 2 tokens, 2 callbacks, 1 crash, every fault |
| `console` | pages show what they were told, undo nothing, stop spinning; tokens die | 2 tabs, 2 requests at once, 2 ids, 2 urls, 3 clicks or outside events |

Why the bounds suffice. For the delivery runs, two crashes let recovery itself
crash and be recovered, which is the only way `attempts` grows past one and the
attempts limit, or the age limit, is met: every restart takes a clock unit, so
that entries on both sides of both limits occur. Two requests are enough for a
live callback beside a recovered one, and for a collision of names. Larger
values repeat these situations; the theorems cover them for the safety
properties.

For the log: with capacity 3 and five records the buffer is empty, part full,
full, and overwritten for every position of `head`, before and after a clear;
limits 2 and scan 2 are below the capacity, so each cuts something off. For the
page: three loads allow an old answer after a newer one after a newest, a failure
between two answers, and a refresh during a page turn; two pages of one record
are enough for a record to move from one to the other. For the call: two retries
have a first, a middle and a last attempt, each of which can be answered while
another one is current.

For the configuration: with two versions and `Radix` 2 in place of ten, four
changes prune, reach a name that sorts before an older one, and give a number
twice; two log entries are cut off by the third; two requests overlap with the
Kubernetes store in every order of sending, application and answer, and a third
change follows. For the form: five edits can clear, switch the application type,
select again and add a row; the two types have lists of different lengths, which
`Submitted` compares; the values have an empty, a blank, a string and a longer one
with the same prefix. For the intake: two saves are the least that overlap, or that
fail and succeed; the two keys, the two tokens and the saves are symmetric. For
the console: one event can be a click in one tab, the next one in the other tab and
the last one the other administrator's, a logout or a request given up; two slots
allow an answer to be overtaken. The tabs are symmetric. Slots are not: a request
takes the lowest free one, so that their order says nothing.

Fairness. In `page_loads` every request ends: axios has a timeout
(`src/frontend/src/lib/api.ts:22`), and the browser reports what else goes wrong.
In `retry_call` axios ends every attempt by its timeout and timers fire; nothing
obliges the target to answer. In `delivery_safe`: the event loop runs what
is queued (`Reply`, `FinishCallback`, recovery's steps); every POST ends because
axios has a timeout; a dead container is restarted (`restart: unless-stopped`,
`src/docker/docker-compose.yml:9`, and the Kubernetes deployment). All are weak
fairness. Nothing obliges the platform to send, a request to succeed, an
administrator to act or a process to crash or not to. Crashes are bounded by
`MaxCrashes`: a process that crashes for ever serves nobody. The other modules
state no liveness. `SpinnerHasLoad` says what a page owes to the fairness of its
requests: a spinner always has a request whose end removes it.

`NoSilentLoss`, `EndsExhausted` and `EventuallyServed` speak of the targets that
were enabled all along (`stable`): a target switched off while a file waits is
deliberately not served. `InForceExplained` leaves out a process in which a
rollback met another change, `SecretsInForce` two saves at once, and
`OwnChangesShown` two loads at once: in each of these the code lets the later
answer win, which section 6 reports.

The delivery and log runs check for deadlock: the clock, the administrator's
`ToggleTarget` and `Clear` keep those models going. The other models come to
rest when their bounds are used up, and a configuration or secrets file that
cannot be parsed ends the start for good, so their runs do not.

## 5. Proofs

`CallbackDelivery_proofs`, for every number of requests, messages, targets,
crashes, and every `MaxAttempts` and `MaxAge`, from `ConstantsAssumption`.

- `TypeCorrect`: `TypeOK` is not inductive by itself, since the message recovery
  dispatches is that of `pending[current]`. `RecoveryHolds` adds that recovery
  holds an entry of its list whenever it is not idle.
- `RecoveryIsDisjoint`: with every fault. The strengthening says that every name
  in `pending` is older than the last start and every live callback's name is
  not, so even colliding names never meet across a restart.
- `NothingLost` and `EndsOnlyExhausted`: under `BenignFaults` (no unreadable
  config, no torn update, no failed rename, no name collision; failing WAL
  writes, updates and removals and all crashes are allowed). The inductive
  invariant `DeliveryInv` adds that live files and scanned files are readable on
  disk and have one owner, that a running dispatch waits for or has tried each
  matching stable target (`FanOutCovers`), and that no file is in both
  directories. The excluded faults are those section 6 reports as losses
  and the failed rename, a deliberate last resort of the code.
- `NoOrphans`: under `BenignFaults`. `NoOrphanFile` is inductive once `DeliveryInv`
  is known: a file gives up its owner only in `FinishCallback` and
  `RecoverFinishes`, where `FanOutCovers` shows its message was tried.
- `AttemptsAreBounded`: with every fault. `AttemptsInv` adds that an entry
  recovery has not taken yet counts fewer attempts than there were crashes.
- `DispatchesStayInBudget`: under `UpdatesReachDisk`, that is with every fault but
  a failing `updateWalAttempts`, without which the attempts on disk say nothing and
  every start dispatches the file once more. A bound on a count of requests needs
  the rest of the account: `BudgetKept` adds to the dispatches of a message the
  workers about to dispatch it and the attempts its files have left, and says that
  the sum is paid for by the requests sent. `ListOnDisk`, that a scanned entry is
  the one on disk, makes a start of recovery spend what the disk counts.
- `DeliveryRefinesAtLeastOnce`: under `BenignFaults`. `StepIsMonotone` collects
  what no step takes back (results, dead-letter files, answers, paths), so that
  each step is a `Promise`, a `Discharge` or a stutter of the abstract module.

`DispatchLog_proofs`, for every capacity, page size and set of texts and any number
of records and requests, from `LogAssumption` and `PageAssumption`.

- `LogTypeCorrect` and `BufferHoldsNewest`. The inductive invariant ties `head`
  to the length of the log and every slot in use to the record it holds; the
  arithmetic of `Index` is a lemma of its own.
- `RingRefinesHistory`: each `Add` and `Clear` is the step of the same name of
  `DispatchHistory`, because reading the buffer through `Index` gives the newest
  records in order.
- `EveryPageIsExact` and `ListedFailuresAreNewest`: the loops of the queries are
  folds; by induction on the records read (`NatInd`), what a fold has collected is
  the stretch of the hits among them, whose ranks are counted from the newest.
- `TableFollowsControls`, `SpinnerNeverStuck` and `WalkIsComplete`: `PageInv` adds
  the identities and ages of the loads under way and of their answers, and that
  each page of a walk begins where the last one ended or, when records came in
  between, before it.

`HttpRetry_proofs`, for every limit of retries and every set of statuses, from
`RetryAssumption`. The inductive invariant `RetryInv` adds to the types that the
verdict in a result is that of the last attempt, that an attempt is answered at
most once and never while it is still travelling, and that a pause has an
attempt after it. From it follow `RetryTypeCorrect`, `ReportedSuccessIsReal`,
`EarlyEndIsJustified` and `EveryCopyIsCounted`. `CallDurationIsBounded` needs the
closed form of the pauses' sum (`Budget`), with `PowerOf2` as a recursive function
whose equation `PrimRec` of `NatRecursion` gives, and an account of the time
already spent for each phase (`Spent`).

`ConfigService_proofs`, for any number of targets, tags, requests, changes,
versions and processes, either store and every fault, from `ConfigAssumption`,
which says that a directory belongs to one process.

- `ConfigTypeCorrect`: `Types` follows every document, cached object and request
  under way, and knows that no value carries a change that was not begun.
- `LogTellsItsRun`: `LogInv` says it of the list in memory, which a read of the
  stored one may extend but never reorder.
- `ForceIsExplained` and `FilesKeepWhatWasAcknowledged`: `ConfigInv`. Of a process
  in which no rollback met another change, `Sound` says that its two cached objects
  are different ones, that a change under way is in the cached object and not
  older than what was acknowledged, and that a rollback is alone. Of the file store,
  `FileSound` adds that one request runs at a time, what each stage of it has put in
  the file, and that the file holds what it should (`Holds`). The two need each
  other, since a reload takes what the file says, and a change writes what the
  cache holds.

`TargetForm_proofs`, for any events, keys, values, rows and definitions, from
`FormAssumption` and `MatcherAssumption`. The matcher's theorems need no state:
`VerdictsAreDeclared` compares `ShouldDispatch`, with its groups and early returns,
with the documented `Wants`, and `ReasonsAreTrue` shows that the reason given is one
for which the target does not want the message. `FormInv` says what a dialog can
select, what a saved target cannot contain, and that built-in definitions stay in
front; with it, by induction over the rows, `FormsMeanWhatTheyShow`,
`UntouchedFormsChangeNothing` and `DefinitionsChangeNoVerdicts`.

`CallbackIntake_proofs`, for any number of saves, secrets, callbacks and crashes,
either store and every fault, from `IntakeAssumption`. `SecretsInForce` and
`SecretsLast` need each other, since a reload takes what is stored and a save
writes what is in use; neither is inductive without `SavesExplained` (what a save
under way writes is explained, and once applied it is what is stored) and
`MirrorExplained`. `HintStaysTrue` adds a case analysis of `Verdict`
(`VerdictNamesDifference`) and uses the invariant for the callbacks that come when
every save had been acknowledged.

`Console_proofs`, for any number of tabs, targets, urls, slots and events, from
`ConsoleAssumption`. The inductive invariant says of every token, in a request, an
answer or the browser, that its version is the number of passwords set before it
was issued (`Genuine`), of the server that its version is that number, and of
every request that a form's carries a url and the switch's does not. Most actions
leave the server alone and are covered by one lemma (`CalmKeeps`); the handlers
are treated one by one. `UrlStaysLastGiven` and `OldTokensStayDead` follow.
`ConsoleInv` adds `RevsTrue` and `PagesWait`. `RevsTrue` says of each list, shown or
on its way, that it agrees with the server on every row not changed since, and of
each dialog that its switch does. `PagesWait` says that a page that spins waits for
a load, and that what a page will be shown is at least as new as what it was told.
From it follow `SpinnersEnd`, `ChangesAreShown` and `FreshEditsKeepSwitches`.

Every safety invariant and action property that a passing run checks is the subject
of a theorem.

Only model-checked: `EventuallyServed`, `ButtonComesBack` and `CallEnds`, since
liveness under fairness is beyond the prover, and what the three runs of section 6
refute. That the passing runs of the delivery and the log find no deadlock is not
proved either; it would need ENABLED.

## 6. Findings

1. A callbacks config that cannot be loaded ends the dispatch with an empty
   result list, and both the live path and recovery take that for a completed
   dispatch and remove the WAL file, although the comment at the removal says
   that every retry was used up (`delivery_config_loss`).
2. A target with all events selected, the default of a new one, is saved with an
   empty list, and an empty list passes every message before the policy for
   unknown types is looked at: "discard" does nothing, although the dialog says
   that unknown types will be ignored (`target_unknown`).
3. Version numbers are the length of the list plus one. Once old versions are
   pruned each change overwrites the version of the one before, so that of the
   latest changes only one can be rolled back to (`config_versions`).

Noticed on the way, without a run:

- WAL. Two callbacks with one sanitised id, in particular without `MsgId`, in one
  millisecond share a file name, and the second overwrites the first
  (`services/wal.service.ts:73`). `updateWalAttempts` overwrites the only copy in
  place: a crash between the truncation and the write loses the callback
  (`services/wal.service.ts:128`). `NoSilentLoss` is refuted as soon as a run admits
  either fault. An update that fails (`services/wal.service.ts:131`) leaves the
  attempts as they were: as long as updates fail, every start dispatches the file
  again, and only its age ends that. A tag config that cannot be loaded counts as "no match" for every
  target with tags: it is skipped, and the file is removed
  (`services/dispatch.service.ts:46`).
- Statistics. The success and failure figures count targets, where
  `src/docs/USER_GUIDE.md:260` says messages (`services/dispatch-log.service.ts:150`).
  An old statistics answer replaces a newer one on the history page: `loadStats`
  lacks the guard `loadHistory` has (`DispatchHistoryPage.tsx:65`). `handleRefresh`
  announces success also when both requests failed. The comment at
  `services/dispatch-log.service.ts:209` speaks of 100 scanned records where the code
  scans 200.
- HTTP. A call that fails after its last attempt reports no HTTP status, even if
  each attempt was answered (`utils/http.util.ts:198`; `src/docs/USER_GUIDE.md:292`
  promises the status), and `dispatchToTarget` leaves the error type out of what it
  keeps (`services/dispatch.service.ts:107`; `src/docs/USER_GUIDE.md:291`). The branches
  on `err.response` in `classifyError` and `isRetryable` are dead, because
  `validateStatus` accepts every status.
- Configuration. A rollback that overlaps with a change of the same process, which
  the Kubernetes store makes possible, leaves in the cache what one of them wrote
  and in the ConfigMap what the other one did. PATCH requests of one key can
  overtake each other. Replicas each keep their copy of the ConfigMap and never read
  it again (`store/k8s-config-store.ts:178`, :238), although `src/README.md:269`
  speaks of several replicas that share the configuration. After a restart the first
  flush replaces the stored operation log by the entries since the start, unless
  somebody looked at it before. Tag definitions are never versioned
  (`src/docs/USER_GUIDE.md:371`). Once removals of old versions have failed (line 121 of
  `services/config.service.ts` ignores it), there are more versions than the limit, and
  the number of a new one may be that of a version among the first of the list:
  `saveConfigVersion` overwrites it and then removes it with the old ones, so that the
  newest change, acknowledged, has no version at all. With the code's limit of 50 it
  takes 45 changes in a row whose removals fail, since the next change makes up for a
  single failure; with a limit of 2 and names as in the code one is enough.
- Matching. A tag whose key has no path and no dot is no condition at all. Deleting
  a tag definition stops no target from matching by its key
  (`TagManagementPage.tsx:210`). A target whose only rule is disabled gets nothing.
  An "exists" rule matches an empty value.
- Console. A late 401 to a request of an earlier session removes the token of the
  newer one. A dialog submitted twice before the answer creates the target twice.
  A stale dialog sends the whole row and undoes others' changes, the switch
  included; only a fresh one does not (`FreshEditKeepsSwitch`). Answers of
  overlapping loads are shown in the order they arrive. A load that fails shows an
  empty list.

## 7. Not modelled

- Payload construction, signatures, encryption and decryption, password hashes and
  the signature of tokens: data whose correctness is that of the cryptographic
  library. Their verdicts are inputs.
- Several replicas on one ConfigMap and two processes on one WAL directory during a
  rolling update: `ConfigService` has a parameter for replicas, and its theorems hold
  for any number of them over a ConfigMap, but each speaks of what one process was
  told; that they agree with each other they do not (section 6), and the run has one.
  `CallbackDelivery` has one process.
- Which log lines are written; the health report; `getWalStats`; the list of
  received callbacks, which only tests read.
- The validation of request bodies in the controllers, and users other than the one
  the code creates.
- A crash in the middle of the scan: it leaves some torn files moved and some
  not, and the next scan moves the rest.
- The recovery delay and the pause between entries: recovery may take its next
  step at any time, which includes every delay. Likewise the debounce time of the
  watcher, the delay of the log flush and the expiry of tokens, which only adds 401
  answers.
- The status and operation log tables of the settings page, the layout, and what
  the pages only draw; the deployment manifests, except as the source of the
  fairness.
- Response bodies and their summaries; redirects followed inside axios.
