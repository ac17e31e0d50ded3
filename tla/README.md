# synch-cli: specification and verification

TLA+ models of the synchronisation engine of `synch`, the command line client of
Synch (end-to-end encrypted vaults of notes), with TLC runs on small instances
and TLAPS proofs. Everything here is translated from the TypeScript sources
under `src/`; `PROJECT.json` maps each definition to the lines it stands for.

Contents: [the system](#the-system) · [modules](#the-modules) ·
[runs](#the-runs) · [bounds](#bounds) · [fairness](#fairness) ·
[proofs](#the-proofs) · [known disagreements](#where-code-and-promise-disagree) ·
[limits](#what-is-not-covered) · [plan](#plan)

## The system

A vault is a directory of files. Each file is an *entry* with an id, a revision
and a content hash. A coordinator (not in this repository) orders all changes of
a vault in one log: every change of an entry takes the next number of the log
(`updatedSeq`) and the next revision of that entry. A device keeps a SQLite store
with one row per entry (what the server is known to hold, what the vault holds,
and at most one *pending mutation*), and one *cursor*: the position in the log up
to which it asks for nothing again.

| component | state it keeps | operations | what makes it correct |
|---|---|---|---|
| entry store (`sync/store`, `host/sqlite-store`) | rows, pending mutations, cursor, blob cache | apply remote/local state, replace and clear a mutation, accept a pushed batch in one transaction | a mutation queued during a push is neither lost nor settled by another's acceptance |
| event recorder, mutation queue, event gate | the paths suppressed by a running pull | record upsert, delete, rename | what the user did becomes pending; what a pull did does not |
| local reconcile | – | compare the whole vault with the store | edits and deletions made while the process was down are found |
| push service, preparer, committer, pipeline | the push in progress, staged blobs, retry cache | verify, upload, commit, accept, requeue, block, checkpoint | bytes match the claimed hash; the cursor covers only accepted changes; a rejection leads to a pull |
| pull service, planner, applier | page in flight, window, reservations | list pages, plan, download, resolve conflicts, write the vault and the store, checkpoint, roll back | nothing is skipped; no local content is lost; a failed window leaves no trace |
| auto-sync loop | session, connect and drain in flight, timers, requested work | start, stop, notify, syncNow, reconnect, drain, retry | requested work is done in the end; syncNow tells the truth; one drain at a time |
| sync engine runtime | local-work queue, activity, status | wires all of the above | local work is serial; the status follows what happens |
| realtime socket session | pending requests, heartbeat | request/answer, timeouts, close | each request ends once; a late answer harms nothing |
| blob client, transfer scheduler | queues, concurrency | upload, download, retry after | limits kept; no transfer starves |
| content runtime, byte budget, hash workers | reservations, waiters, idle content | reserve, resize, reclaim, hash | the budget is never exceeded, nobody waits for ever |
| token manager, request client | cached token | get, refresh, clear | a refused token is not reused |
| auth manager, remote-vault manager | session, device login, connection record | login, cancel, connect, disconnect | a cancelled login changes nothing; a half-done connect is undone |
| vault lock | a lock file | acquire, release | one process per vault |
| change source | timers and chains per path | schedule, dispatch, rescan | the last event of a path is processed |
| change notifier, on-change hook | snapshot, timer, chain | schedule, flush, run | every change leads to a run |

How they interact. The change source calls the recorder, which writes a pending
mutation and tells the loop; after a debounce the loop's drain pulls (if a pull
was requested) and then pushes, over one realtime session; the session announces
changes of other devices, which request pulls. Recorder and reconcile are
serialised with each other by the engine, *not* with the drain: a push or a pull
runs beside them and every `await` in it is a place where a row, a mutation or a
file can change. A pull suppresses events of the paths it is writing.

Hard behaviours: these interleavings; the page prefetched while a window is
applied; numbers of the own mutations lying among those of other devices; lost
answers and replays; failure half way through a window; a crash between two store
calls; timers and connects that several callers share. `PROJECT.json` lists them
one by one under `hazards`, each at its line, with the properties that watch it.

## The modules

| module | what it models | source |
|---|---|---|
| `EntrySync` | one entry against recorder, push, pull and crashes | recorder, push and pull services, applier, reconcile |
| `SyncCursor` | many entries and the cursor | pull and push services |
| `AutoSyncLoop` | when pulls and pushes run | auto-sync loop |
| `PullApply` | a pull of several entries over paths that move and collide | planner, groups, applier, pending-mutation handler |
| `EntryRows` | the row of an entry and its unique keys | `entry-record.ts`, `store.ts` |
| `SqliteStore` | the store's calls on such rows | `sqlite-store/store.ts` |
| `StorePort` | what those calls promise: the reference store | `in-memory-sync-store.ts`, `ports.ts` |
| `ContentBudget` | bytes in memory, the push and pull pipelines, the retry cache | `content-runtime.ts`, `bytes-in-flight.ts`, pipelines |
| `HashPool` | hash workers | `sha256-worker-pool.ts` |
| `TransferScheduler` | lanes of transfers and their adaptive limit | `transfer-scheduler.ts`, `adaptive-concurrency-policy.ts` |
| `JobPool` | what a pool of jobs promises | – (abstract) |
| `RealtimeSocket` | one realtime session | `realtime-*.ts` |
| `VaultLock` | the lock file | `lock.ts` |
| `VaultWatch` | from a file change to the recorder and the hook | `change-source.ts`, `watch.ts`, `vault-changes.ts`, `on-change-hook.ts` |
| `MC...` | instances for TLC; `MCTransport` and `MCHost` put components side by side | |
| `..._proofs` | TLAPS proofs | |

Two abstract specifications are implemented, shown by TLC as properties of the
runs: `HashPool` and `TransferScheduler` implement `JobPool` (`jobs` is the state
of each job, a lane is the pool or the direction), and `SqliteStore` implements
`StorePort` (an entry is the row without keys and with its flags read as absence).
`JobPool` states its safety apart (`PoolSafety`), which is proved of both pools; its
liveness is checked.
`PullApply` and `SqliteStore` share `EntryRows`, so that the path keys which the
pull has to respect are the store's.

`MCTransport` explores the budget, the hash pool, the scheduler and the session,
`MCHost` the lock, the watching and the store. These components share no state, so
a variable `part`, fixed in the initial state, says which one moves; that saves a
product of states in which nothing of interest happens. What is fair of a part
asks nothing while the part has not begun.

### EntrySync – one entry on one device

`EntrySync.tla` models the life of one entry: file (`disk`), row, recorder
(`rec`), push, pull, requested work, and the server's side. A step is what runs
between two awaits of something really asynchronous (file system, crypto,
network). Store calls (SQLite) are synchronous, so a sequence of
them with nothing asynchronous in between is one step. Each actor has a `pc`:

| code | actions |
|---|---|
| `recordUpsertFromFile`, `recordUpsertWithHash` | `RecordRead`, `RecordHashed`, `RecordUpsert`, `RecordDrop` |
| `recordDelete`, `queueLocalDeleteMutation` | `RecordDelete`, `RecordDeleteQueued` |
| `pushPendingMutations` | `PushStart`, `PushTake`, `PushFinish`, `PushAborts` |
| `prepareMutationForCommit` | `PushRead`, `PushReadMissing`, `PushRequeue`, `PushUpload`, `PushBlock` |
| `commitMutations` and its answers | `PushCommit`, `PushRejected`, `PushAccepted`, `PushFails` |
| `applyAcceptedPushBatch` | `PushPlan`, `PushApply`, `PushApplyRetry`, `PushApplyGivesUp` |
| `pullOnce`, `planManifest` | `PullFetch`, `PullPlan`, `PullCheckpoint`, `PullFails` |
| `prepareConflictingPendingMutation` | `PullPrepare`, `PullInspect` |
| `applyPreparedManifest` | `PullBegin`, `PullCopy`, `PullVault`, `PullStore`, `PullVaultFails` |
| `unblockFileSizeBlockedMutations` | `PolicyUpdated`, and part of `Restart` |
| start-up: reconcile, start, syncNow | `Restart` |

Contents are model values standing for bytes, hash and blob. The path is fixed
and the file binary, so there is no move, no path collision and no text merge. A
file created again after its deletion was settled is a new entry in the code and
is left out (`SameEntryOnCreate`); so is the crash that would make one
(`ReleasedTombstone`).

`Overlap` bounds what local work may run beside in an instance: nothing (`"none"`:
file events wait until the drain is idle), the push only (`"push"`), or both (`"all"`,
the code). The theorems hold for each of them, and `entry_sync_race` runs with
`"all"`; only the liveness run has `"none"`. What the races break, the properties
except by a history variable: `beside` says what local work has run beside (a push, a
pull) since the entry was last at rest (`AtRest`: nothing runs, waits or is pending,
and the row knows the file, whose content is published). `Met` says when a step has
the two meet. So a property says what holds of every history, and names the local work
that can break it.

Two details of the code are not steps of the model. A reconcile skips a file whose time
and size are the recorded ones (`canSkipHash`); here it looks at every file, which is the
same as long as no write keeps both. And a rejected commit whose base is *ahead* of the
server is a conflict for the committer (push-mutation-committer.ts:80-91); with an honest
server this does not happen: `StaleIsPullable` says so, and is proved.

### SyncCursor – many entries, one cursor

`SyncCursor.tla` keeps of an entry only the number of its last change, and
models in full what moves the cursor: paging (`FetchPage` runs beside the
application of the window), windows and deferral (`ConsumePage`, where `MayDefer`
lets the planner put off *any* subset of a window but the last: the code's rule,
by path owners, is one of them), application one entry at a time, the checkpoint
after each window (`SafeCheckpoint`), a push whose mutations are accepted among
other devices' changes (`Commit`, `ApplyAccepted`), the contiguous checkpoint of
the push (`PushFinish`), and the interruption of both at any point. `lost` holds a
mutation which the server accepted while the device does not know.

### AutoSyncLoop – the scheduler

`AutoSyncLoop.tla` models `SyncAutoLoop`: `loop` (stopped or running), the session,
the connect in flight, the three timers, the requested work and the drain. A step
is one task of the event loop; continuations that run as microtasks (a drain
resumed by the connect it waited for, `syncNow` resumed by the end of the drain)
come before any other task (`Microtask`). History variables `need`, `fresh`,
`due` and `begun` record what there is to push and pull and which operations
began when, so that properties can speak of it.

The last await of a connect is a pass over the store that unblocks mutations. Anything may
come meanwhile: the session drops, a reconnect timer fires, the host stops or reconnects;
the pass may fail (`UnblockFails`), which closes the session. What comes joins the
connect in flight, which then sets the loop live without looking whether its session
is still there. The history variable `overrun` records this, until a session is opened
again, and `NeedsAreMet` excepts nothing else.

### PullApply – several entries, their paths and groups

`PullApply.tla` models `pullOnce` over entries that share paths. The state: what the
server holds (`server`, `head`), the files (`vault`, a text is the set of edits in
it, a place is a path or a numbered conflict copy of it), the store's `rows`, and
the `pull` in progress.

| code | actions |
|---|---|
| `pullOnce`: pages, windows, checkpoint | `PullStart` (the first window), `PlanWindow` (the last), `EndWindow` |
| `applyManifestWindow`, `planManifest`, `groupPullApplications` | both of them, through `Applies` (`Planned`, `Move`, `Adoptable`, `Superseded`, `Groups`) |
| the preparation pipeline | `PrepareAhead` or, lazily, `Settle` (`Prepared`, `Conflicts`) |
| `applyPreparedManifest` | `Settle` (snapshot, adoptions, conflicts, released paths), `MovePaths`, `WriteFile`, `WriteRows`, `ApplyMerges` |
| its `catch`, and the end of the process | `PullFails`, `Raises`, `Crash` |
| the recorder's upsert, rename, delete | `UserActs`, between pulls |
| other devices | `OthersWrite`, `OthersDelete` |

The groups of a window are prepared either one by one, each when its turn comes,
or all before the first is applied: the two ends of what the pipeline's
read-ahead can do. With the user between pulls nothing moves between the
preparation of a group and its first change, so these are one step (`Settle`). A
download stands for its result; a failure may come at every
step, and puts back the rows of the group, never its files. A rename whose source is gone
(`renameVaultPath` asks for no more than a writable path) is such a failure, with the
renames before it done. The server is honest:
it never takes a change whose base is not its own, but it may hold two live
entries at one path (two devices created it), which the planner resolves for
paths of the config directory and by a conflict copy otherwise.

History variables say what a property cannot read from the state: `work` holds the
user's edits, `unguarded` those a pull overwrote in one of the known windows (below),
`wiped` the files at old paths of deleted entries. `LocalWorkSurvives` and
`PullDelivers` except exactly these. `SameKind` keeps the user from moving a note
into the config directory or back.

When the store refuses a skipped remote state, the ones applied before it stay
(`Skip`). A crash leaves rows and files as they are; the reconcile that the next
start runs before its first pull is left out here (`EntrySync` has it, for one entry), so
the pull that follows a `Crash` meets the rows as the crash left them, unless the user
acts in between.

### EntryRows, StorePort, SqliteStore – the store

A row has three sides (remote, base, local), a pending mutation in columns with a
flag, and two keys: the paths of its live remote and local side, each unique in
the table. `Put` returns `Raised` where SQLite's unique index would make the call
throw, and the transaction leaves the table alone. The only call of several steps is
`applyAcceptedPushBatch`: `PushBatch` and `PlanBatch` read and encrypt outside of
the transaction, other calls may come in between, `ApplyBatch` verifies the plans,
puts the rows one after the other (`AcceptedRows`), and retries at most `MaxTries` times.
A caller may take a mutation and write it back later, blocked or as it was, whatever has
been queued or accepted since (`TakeDirty`, `UpdateDirtyEntry`: the preparer's block and
requeue, the applier's restore).

The abstract store has one record per entry and no keys, and follows the in-memory store
the tests use, except where `store.test.ts` asks for more: a path has one owner, and a call
that throws changes nothing, `applyReconcileEntryUpdates` included (the reference applies
its updates one by one, in-memory-sync-store.ts:319-336, and keeps those before a throw).
A call throws only for a reason, which the variable `outcome` names and which must be
there: another entry with a path of this one, a required base blob that is not cached, no
connection, or a mutation newer than the accepted one. In one point the two stores do
differ: `applyReconcileEntryUpdates` of the reference leaves the base of an entry it
marks, the SQLite store moves it to the mutation's. The constant `MovesBase` of
`StorePort` says which is meant, FALSE for the reference; `SqliteStore` implements the
port with TRUE, and not the one with FALSE. The base is read when a pull merges a text
(pull-pending-mutation-handler.ts:205), so a test that runs on the reference store sees
another base there than the program does.

### ContentBudget, HashPool, TransferScheduler, RealtimeSocket

`ContentBudget` has the holders of reservations: mutations being prepared or
waiting in a batch, groups of a pull (which may turn out larger than announced and are
charged the difference at once), reads of the recorder, ciphertexts in the
retry cache, which are given up when somebody waits (`Reclaim`). A push may yield or
fail with all of these in hand. A batch may be accepted in part: what the coordinator
accepted loses its cached ciphertext at once, also when the call of the store that follows
fails and the mutation stays queued (`BatchEnds`). `HashPool` gives each
worker a generation, so that answers of a replaced worker can arrive late or twice.
`TransferScheduler` takes times and rates as choices. `RealtimeSocket` has the
messages in order, every request with its time limit, the heartbeat, and all ends
of a session. Frames of one chunk may be handled in one turn, before `openSession` goes on
from the hello's answer; the history variable `overtaken` has the types of those that were.

### VaultLock, VaultWatch

`VaultLock` takes the file operations of `acquire` and `release` one at a time over
inodes, because a name may be moved off a file whose owner still writes to it. The file is
created in one step and filled in the next, and any number of processes contend. The
history variable `breached` records that an owner's file was dropped as stale while it
was empty, or that another file got the name while an owner's was aside.
`VaultWatch` goes from a change of a file through the debounced event or the
rescan after a watcher error to the queue of local work, and from a settled status
through the notifier's debounce to the hook, which may be killed by its time limit.

Definitions that begin with "Not the code:" are faulty variants, each the form a
plausible mistake would take; substituting one for the definition it follows
must break the property `PROJECT.json` pairs it with.

## The runs

| run | states | what it shows |
|---|---|---|
| `entry_sync` | 585k | no overlap; crashes at any step, lost answers, failed vault writes, a size limit that is lifted: with the drain fair, file, row and server agree in the end, except for an edit the size limit holds back (`Converges`). |
| `entry_sync_race` | 2.5M | the code's full overlap, crashes inside the recorder's two writes. The cursor covers only what is applied (`CursorCoversOnlyApplied`), uploaded bytes match their hash (`PublishedBytesMatchHash`). A stale base is behind the server, and beyond the cursor lies what made it stale (`StaleIsPullable`); pulls lose no content (`LossTakesOverlap`); both unless local work has run beside the drain since the entry was at rest. Pending edits survive, through requeues and acceptances planned against a row that changes, unless local work ran beside a pull (`PendingEditSurvives`). |
| `sync_cursor` | 760k | `NothingSkipped`: every entry whose last change is at or below the cursor is applied; `CatchesUp`: all changes arrive. |
| `auto_sync_loop` | 530k | `NoLostWakeup`, `SyncNowHonest`, `NeedsAreMet`. |
| `pull_apply` | 1.3M | `LocalWorkSurvives`: what the user wrote is in some file after any pull, whole or broken off. `PullDelivers`: after a pull that ends, every entry is where its row says, with the server's text if nothing is pending, and every file has an entry. `GroupsAreApart`: no group touches a file or a row of another. `RaisesOnlyOnClash`: entries that swap or follow each other's paths never collide in the store. `FailureRestores`: a failed group leaves every row, and every pending mutation, as it was. |
| `transport` | 102k | budget: the accounts agree with who holds bytes (`NoBytesLeak`), what is admitted fits or is alone (`AdmittedFits`), nobody waits for ever (`WorkComesToRest`). Pools: `OwnDigest`, `NoIdleSlot`, `PoolsKeepPromise` (both implement `JobPool`). Session: `EndIsClean`, `PolicyIsLatest`, `AnswersStay`, `RequestsSettle`. |
| `host` | 664k | lock: two processes hold it only after one of the two known windows (`OneHolderUnlessBreached`), a stale file locks nobody out (`SomebodyWins`). Watching: `ChangesAreRecorded`, `ChangesAreReported`, `OneHook`. Store: `StoreKeepsPromise` (it implements `StorePort` with `MovesBase`, queries included), `MetadataOpens`. |
| `entry_sync_overwrite`, `entry_sync_lost_delete`, `auto_sync_sync_now`, `pull_old_path`, `vault_lock` | – | expected violations, see below. |

Deadlock is not checked: a synchronised device with nothing left of its bounds
rightly does nothing.

### Bounds

Counters are bounded in guards: edits, remote changes, crashes, failures, calls.
Two contents tell the same from a different one; together with
"no file" they give every combination of file, row, server and pending mutation
(the row keeps no third content). Two edits, two remote changes and one crash or
failure (`MaxFaults`) give a lost answer followed by a newer edit and a concurrent remote
change; one of the two contents is too large until the limit is lifted. `entry_sync_race`
has four edits, two remote changes and two faults, four together at most (`MaxTogether`): two requeues, or an
acceptance that loses its two attempts, beside a remote change; a crash in the recovery from a
failure. In `sync_cursor` three entries on pages of one and windows of
two give a window with a deferral, a prefetched page behind it and a last window;
three changes and one interruption reach an own mutation between two foreign
ones. In `auto_sync_loop` two needs, two failures, one partial push and two calls
reach a second failure during the recovery from the first.

`pull_apply`: three entries are what a chain of moves, a swap with a third entry at
one of the paths, and a superseded pair beside another need (two of them may be there
at the start, the third is made during the run); two plain paths, one of
them text that is merged, and a config path cover the planner's cases. The server
starts in step with the vault; two further changes by others and two by the user
or by broken-off pulls give each pair of moves, an adoption beside a collision,
and a pull repeated after a failure or a crash at any step.

`transport`: a budget of 4 with items of 2, 3 and 5 has two that do not fit together
and one larger than the whole; two drains, one read and one failure. Two slots with
four jobs and two failures replace a worker while its answer travels. Five
transfers over two lanes start at a limit of 2 of 3, so that a probe goes up and
congestion down. `host`: three contenders with a dead owner's file (the third is what one more
window takes), two in `vault_lock`; one file changed three
times with an error of the watcher or of a hook; two entries over two paths with three
calls of the store out of all it offers, one of which may be an acceptance in steps.

Symmetry (over contents, over entries) is used in safety runs only.

### What the constants leave out

Some behaviour of the code is switched off in a passing run because a liveness
property fails with it, or to keep the run small; each is a constant, so that the run
can be repeated with it. No theorem assumes a value of any of them.

| constant | value | with the other value |
|---|---|---|
| `Overlap` (`EntrySync`) | `"none"` in `entry_sync` | `"all"` is the code, and is what `entry_sync_race` checks; `Converges` fails with it (11 below) |
| `CrashWindows` (`EntrySync`) | `{}` in `entry_sync` | all of them in `entry_sync_race`; `Converges` fails, as `entry_sync_lost_delete` shows |
| `SettledStart` (`VaultWatch`) | TRUE | a change between the reconcile at start-up and the watcher's `ready` is not seen (change-source.ts:27-33) |
| `SpacedErrors` (`VaultWatch`) | TRUE, and it matters with two errors | `ChangesAreRecorded` fails, see 13 |
| `SameSecond` (`PullApply`) | FALSE | two conflict copies named within one second collide, when the first is planned and not yet written |

### Fairness

`EntrySync`: weak fairness of the steps of the process as a whole (recorder, push,
pull, notification, restart): the
watcher delivers events, the loop's timers run requested work (that they do is
`NoLostWakeup` and `NeedsAreMet` of `AutoSyncLoop`), and a process that died is
started again. Which of them runs first is left open; none has to be fair by itself. `SyncCursor`: weak fairness of pull and push, for the same reason.
`AutoSyncLoop`: microtasks run, set timers fire, an operation in flight ends.
`ContentBudget`: every started operation comes back (a store read, an upload, a
commit, an application; network calls have time limits). `HashPool`: a worker answers
or fails. `TransferScheduler`: a transfer that runs ends. `RealtimeSocket`: the event
loop runs what is due and a request's timer fires; that a socket opens or fails is left
to the platform (the code sets no time limit there). `VaultWatch`: timers fire,
promises settle, a hook ends or is killed (a hook without a time limit that never ends
blocks those after it). `PullApply`, `VaultLock` and `SqliteStore` state safety only.
Nothing is assumed of users, other devices or failures, which are bounded: after
the last failure operations succeed.

## The proofs

TLAPS proves the following for all values of the constants that the assumptions
below admit: any number of entries, contents, jobs, sizes, processes and files, and
no bound on users, failures or crashes that matters.

| theorem | module | statement |
|---|---|---|
| `TypeCorrect` | `SyncCursor_proofs` | `Spec => []TypeOK` |
| `NeverSkips` | `SyncCursor_proofs` | `Spec => []NothingSkipped` |
| `TypeCorrect` | `AutoSyncLoop_proofs` | `Spec => []TypeOK` |
| `LosesNoWakeup` | `AutoSyncLoop_proofs` | `Spec => []NoLostWakeup` |
| `AnswersTruly` | `AutoSyncLoop_proofs` | `Spec => SyncNowHonest` |
| `EntryTypeCorrect` | `EntrySync_proofs` | `Spec => []TypeOK` |
| `CursorIsHonest` | `EntrySync_proofs` | `Spec => []CursorCoversOnlyApplied` |
| `BytesAreTheHash` | `EntrySync_proofs` | `Spec => []PublishedBytesMatchHash` |
| `EditsSurvive` | `EntrySync_proofs` | `Spec => PendingEditSurvives` |
| `StaleIsResolved` | `EntrySync_proofs` | `Spec => []StaleIsPullable` |
| `PullsLoseNothing` | `EntrySync_proofs` | `Spec => LossTakesOverlap` |
| `BudgetTypeCorrect` | `Transport_proofs` | `BudgetSpec => []BudgetTypeOK` |
| `NothingLeaks` | `Transport_proofs` | `BudgetSpec => []NoBytesLeak` |
| `BudgetSuffices` | `Transport_proofs` | `BudgetSpec => []AdmittedFits` |
| `TransportTypeCorrect` | `Transport_proofs` | `Spec => []TypesOK` |
| `NoSlotIdles` | `Transport_proofs` | `Spec => []NoIdleSlot` |
| `TransportKeepsAccounts` | `Transport_proofs` | `Spec => [](NoBytesLeak /\ AdmittedFits /\ OwnDigest)` |
| `HashTypeCorrect`, `TransferTypeCorrect` | `Pools_proofs` | `[]HashTypeOK`, `[]TransferTypeOK` |
| `DigestsAreOwn` | `Pools_proofs` | `HashSpec => []OwnDigest` |
| `NoWorkerIdles`, `NoLaneIdles` | `Pools_proofs` | `[]NoIdleWorker`, `[]NoIdleLane` |
| `HashPoolIsJobPool` | `Pools_proofs` | `HashSpec => HashJobs!PoolSafety` |
| `TransfersAreJobPool` | `Pools_proofs` | `TransferSpec => TransferJobs!PoolSafety` |
| `SocketTypeCorrect` | `RealtimeSocket_proofs` | `SocketSpec => []SocketTypeOK` |
| `AnswersStaySettled` | `RealtimeSocket_proofs` | `SocketSpec => AnswersStay` |
| `EndsClean` | `RealtimeSocket_proofs` | `SocketSpec => []EndIsClean` |
| `PolicyUpToDate` | `RealtimeSocket_proofs` | `SocketSpec => []PolicyIsLatest` |
| `LockTypeCorrect` | `Host_proofs` | `LockSpec => []LockTypeOK` |
| `SomebodyGetsLock` | `Host_proofs` | `LockSpec => []SomebodyWins` |
| `HolderIsAlone` | `Host_proofs` | `LockSpec => []OneHolderUnlessBreached` |
| `WatchTypeCorrect` | `Host_proofs` | `WatchSpec => []WatchTypeOK` |
| `HooksAreSerial` | `Host_proofs` | `WatchSpec => []OneHook` |
| `StoreTypeCorrect` | `Host_proofs` | `StoreSpec => []StoreTypeOK` |
| `MetadataStaysReadable` | `Host_proofs` | `StoreSpec => []MetadataOpens` |
| `StoreImplementsPort` | `Host_proofs` | `StoreSpec => StoreKeepsPromise` |
| `HostTypeCorrect` | `Host_proofs` | `Spec => []TypesOK` |
| `GroupsStayApart` | `PullApply_proofs` | `Spec => []GroupsAreApart` |
| `RowsStaySound` | `PullApply_proofs` | `Spec => []Sound(rows)`: every row has the keys of its sides, no two rows collide |
| `FailureRestoresRows` | `PullApply_proofs` | `Spec => FailureRestores` |
| `PullTypeCorrect` | `PullApply_proofs` | `Spec => []PullTypeOK` |

The assumptions are the modules' own, and say what kind of thing each constant is:
page and window sizes, workers and limits are positive, bounds are numbers,
`NoFile`, `Unknown`, `Gone`, `None` and the like are none of the values or records they
stand beside,
the holders of the budget are of one kind each, a group never turns out smaller than
announced, there are finitely many entries, a first limit is within the maximum, no file is called like the errand
`"reconcile"`, there is at least one file change to follow. TLC evaluates each of them
on the instances of the runs.

No theorem has a hypothesis beside these. Where the code breaks a promise in a known race,
the property says so by a history variable, and the theorem that nothing else breaks it:

- `beside` (`EntrySync`): `StaleIsPullable` and `LossTakesOverlap` speak of the time while no local work
  has run beside a push or a pull since the entry was last at rest; `PendingEditSurvives` of
  that while none has run beside a pull. That the promise fails otherwise is
  `entry_sync_overwrite` and 11 below. `CursorIsHonest`, `BytesAreTheHash` and the first half of
  `StaleIsPullable` (a stale base is behind the server) hold in any case.
- `overtaken` (`RealtimeSocket`): a policy or a close handled in the turn of the hello (14 below).
- `breached` (`VaultLock`): the two windows of the lock (`vault_lock`, 5 below).

### The arguments

*SyncCursor.* `NothingSkipped` is not inductive: that an entry is applied when the cursor
passes it depends on what the pull has listed. The invariant `IInv` adds
`Numbers` (every change has a number of its own, at most the head),
`BelowCursorHeld` (below the cursor an entry is applied *and* no accepted
mutation of it is unsettled, or its late settlement would set the row back),
`PullInv` (up to `after` every change is held or is in the page, the window or the
deferred entries; the page lies beyond the window; after the last page this
holds up to the target) and `PushInv` (what a push was told of is its own, lies
beyond the cursor, and its accepted numbers are held). The step that needs all of
it is the checkpoint: what `SafeCheckpoint` passes is neither in the page nor
deferred, hence held.

*AutoSyncLoop.* `NoLostWakeup` needs `OpeningMeansNone` (a connect is opening only when
there is no session), which is what makes a reconnect timer useful while it is set.
`SyncNowHonest` needs `DueHeld`: whatever a waiting `syncNow` asked for and is not
done is requested, or is held by a drain; when the drain ends with nothing
requested, it was done by an operation begun after the call.

*EntrySync*, with any overlap. `EntryInv` has, beside the shapes (`Shape`), who runs
when (`Turns`) and the numbering of mutations (`Ids`): `Books` (no number is beyond the
server's, and what it answered agrees with it), `News` (a mutation that the server
has accepted and that can still be settled, because it is pending, in the push's hands
or in the snapshot a failed pull puts back, is ahead of the row, and its content is
out), `Pushed` (a push began at the cursor, the row's mutation is the one it holds or one
the server has not seen, and what it was told is what the server decided) and
`Pulled` (what the pull holds is the server's at its target). The row is set back by no
late answer because of `News`; the push's checkpoint is honest because the numbers it
passes are contiguous and, if the server's last change is among them, settled.

*EntrySync*, and what ran beside. The three invariants below hold while `beside` does not name what
breaks them, and hold again at rest, when `beside` is empty: nothing runs then, so there is nothing
to hold but what `AtRest` says (`BaseInv`, `EditInv`, `FileInv` of an entry at rest). A step that
marks `beside` owes nothing, and a step that does not is not local work beside a push or a
pull (`StepMarks`, `Unmet`). `BaseInv`, while nothing met: every mutation, wherever it is, is based on the
row's revision; a stale one then meets a row behind the server, and `EntryInv` says the
cursor is behind too (`StaleLiesAhead`). `BoundInv`, always: no base that anybody holds, the recorder, the row, the
push, a pull's snapshot, is ahead of the server. `EditInv`, while nothing met a pull: what a pull looked at is still
pending when it is cleared, and is copied or equal to what is pulled. `FileInv`, while nothing met: while nothing waits for
the recorder, the row knows what the file holds (`Known`), and the content of a file
without a pending mutation is out; so a pull that has looked for a conflict knows that
what it replaces is out or in its hands (`Fetched`). `Known` excepts the moment
when a tombstone has released its path.

*ContentBudget.* `NoBytesLeak` needs to know who may hold what. `BudgetInv` has `Books`
(the bytes in use are the sum of what the holders and the cached blobs asked for, and of
what holders grew by; who waits holds nothing and waits once; what was asked for fits,
unless it is alone), `Seats` (mutations move in a push only, groups in a pull, and a
push that is closing has nothing but jobs) and `Asking` (who waits for bytes is a job,
who has them is a job or has been handed on). Each step changes one summand;
`AdmittedFits` follows from `Books`.

*HashPool, TransferScheduler.* `HashInv`: the slots hold exactly the jobs that run, each
in one (`Held`), beside the two invariants themselves. `TransferInv`, for each lane: no more run than
the maximum, and who waits does so beside a full lane of an open scheduler. Both rest on what
`pump` does to any set of jobs: it starts the first of those that wait, in order, until the room is
used up. The refinement theorems show that each step is a step of `JobPool` or leaves
the jobs alone.

*RealtimeSocket.* `SocketInv`: nothing else is asked before the hello is settled, and a session
that is over while `openSession` is still to go on from a hello that was answered was closed in that turn
(`HelloFirst`, `HelloSettled`); a session is over exactly when somebody ended it
(`EndSeen`); while the connection stands, the last message on its way that speaks of the policy tells the
server's, and so does the greeting about to be adopted unless a newer one follows or was
handled in its turn (`LastTold`, `GreetingHolds`).

*VaultLock.* `ClaimInv`: until somebody created the file there is only the stale one, and
who tries again finds none. `LeaseInv`: a file that was created holds its owner's pid or nothing
(`Created`), and, unless `breached`, there is one owner, whose file has the lock's name or was moved
aside by a process that is about to look at it again, or died before (`OwnerInv`). A second
owner can only come where the name is free, which is what `Displaces` sees.
*VaultWatch.* `WatchInv`: what is read, recorded or reported of a file is a change it
has had, at most two reconciles are queued, and one hook process is alive exactly while
the notifier waits for it.

*SqliteStore.* `StoreInv` has `GoodTable` and `GoodCall`. `GoodTable`: every row's keys are
those of its sides (`Keyed`), no two rows collide, and a pending mutation is older
than the next number, is based on the row's base and has its metadata encrypted for
the revision after it. `GoodCall`: a prepared plan is made for the accepted revision and
has the path of the mutation whose number it bears. The second is why a plan that
passes the verification may be used although any call may have come in
between: a number is never given twice, so a pending mutation with the plan's number is
the one it was made for (`Follows`, `Steady`, `CallStays`). `Kept` says that a call keeps
`StoreInv` and is a step of `StorePort` or a stutter; there is one lemma for each call
(`EnsureKept` to `BatchKept`). A put raises or yields a good table (`PutTable`); a batch is
an induction over its items (`AcceptedTable`, by the least item where it would fail),
and the table it ends with is the one `StorePort` states entry by entry, because no
entry is twice in a batch. A batch that is planned again is for the port a call with
no effect. `QueriesAgree` follows from the keys (`RowAnswers`, `AtMostOne`).

*PullApply, the groups.* `Groups` takes the connected components of the relation "has a key
in common"; two components have no key in common (`Component` is the least set closed under the
relation, so an element of two of them would join them), and what a group touches or moves
is among its keys. What the planner and `groupPullApplications` compute is then enough at
the moment a window is planned (`GroupsStayApart`); preparing a group adds conflicts
and changes none of its entries or places, applying the first one leaves the others as they
are. A conflict copy is not among the places: its name is chosen when a group is prepared.

*PullApply, a failure.* A snapshot is worth something only if nothing outside of it
changes. `RowsInv` says so, step by step: the table is `Sound`, every group speaks of
entries (`AllReady`), and, while one is applied, the rows are `BehindOf` the saved ones: they
differ from them for the entries the group touches, and for pending mutations of
the entries it looks at, which may be gone and are never new. Then `Restored` works out:
after the first pass no row of the group has a path left, so giving them back
the paths they had collides with nothing, since the saved table had no collisions and the other
rows have not moved; the last pass puts the mutations back and touches no key
(`FailureRestoresRows`). The faulty variant puts a row back over what the group wrote, and
fails at exactly this point. A loop over a set of entries or plans is a recursive
function; `Turns`, `ListsExists` and the like state what each of its steps sees.

*PullApply, the types.* `TypeInv`, beside `RowsInv`, says what the pieces of the state hold:
`ServerTyped` (what the server holds has a text and a place once it has a revision, and
a number up to the head), `VaultTyped` (finitely many files, each with a place and a text),
`RowsTyped` (a row's flag and its pending columns agree, and the mutation has a place)
and `PullTyped` (the windows are sequences of numbered entries; plans end at places
and conflicts are about texts the user wrote). Finiteness is what
makes `CopyOf` find a free name: of one more names than there are places taken, one is
free (`CopyIs`, by counting). The checkpoint of a window is the least or the greatest of the numbers
in it, hence at most the head. The loops again are `Turns`: a step keeps a firm table
firm, or raises (`FirmTurns`).

*The library.* The invariants that mention sums, sequences and least elements need
induction, which the library's theorems state for operators the provers cannot
instantiate. The proofs take the least counterexample instead
(`LeastNumber`, and the lemmas about sums and queues in `Pools_proofs` and
`Transport_proofs`). `ContentBudget!Dropping` is a recursive function for that reason:
`SelectSeq` is RECURSIVE.

### Only model-checked

All liveness (`Converges`, `CatchesUp`, `NeedsAreMet`, `WorkComesToRest`,
`RequestsSettle`, `ChangesAreRecorded`, `ChangesAreReported`, the liveness of
`JobPool`): the prover has no rules for liveness under fairness or for ENABLED. And of
`PullApply`, `LocalWorkSurvives`, `PullDelivers` and `RaisesOnlyOnClash`. These three relate
rows, files and server to each other: that a file without a pending mutation holds what its
row says and that the row's base is in the server's history, at every step of a group that
moves, removes and writes files in turn. The invariants above say what each of the three is,
and do not relate them; a proof would need a fourth invariant beside them.

## Where code and promise disagree

1. `entry_sync_overwrite`. A save between a pull's conflict check and its vault
   write is overwritten without a conflict copy, and its event is suppressed.
2. `entry_sync_lost_delete`. A crash while `recordDelete` awaits encryption
   leaves a row marked deleted with nothing pending; the deletion is never sent.
3. `auto_sync_sync_now`. `syncNow` answers false when a reconnect timer is still
   set although all was done; `synch sync` then reports pending changes and
   fails. For the same reason `drainUntilIdle` does not report idle.
4. `pull_old_path`. The row of a deleted entry keeps its path. A tombstone pulled
   again (a failure or a crash before the checkpoint) removes the file at that path,
   whoever owns it by then; the owner is skipped as already applied, and the next
   reconcile reports its file as deleted. For the same reason the owner's pending rename
   or edit is looked up and dropped as if it were the deleted entry's
   (pull-pending-mutation-handler.ts:299-306).

5. `vault_lock`. The lock file is created and then filled (lock.ts:21-25): a contender
   reads it before the pid is in it, takes it for stale, and both hold the lock. With
   three contenders this happens without that window too: one creates the file while
   another has a live owner's moved aside. `HolderIsAlone` says that there is no third way.

Found with the models, without a run of their own; each is one constant or one
property away, or the exception a property names:

6. `AutoSyncLoop`, the exception of `NeedsAreMet`: while a connect awaits the unblocking pass, its
   session is closed by a stop, by a reconnect of the host, or drops and the reconnect timer
   fires; what opens the next session (the start after the stop, the reconnect, the timer) joins
   that connect. The loop is live afterwards with no session and no timer
   (auto-sync.ts:458): remote changes go unheard until the next local change or call.
7. `PullApply`, `AdoptionKeepsTheEdits` with `MaxRemote = 1`: an entry that has
   a pending mutation and adopts a new local file is only asked for its own mutation
   (pull-pending-mutation-handler.ts:294); the adopted file is overwritten without a
   copy, against conflicts-paths.test.ts:917 ("adopts the remote identity but
   preserves differing unpushed local content as a conflict copy"). When the adopted
   file equals the remote bytes, the entry's own pending edit at its old path is
   removed instead.
8. `SqliteStore`, `AcceptedLands` with `Offered = {"remote", "local", "mark"}` and five
   calls: an entry is renamed away from its remote path, the rename waits, and a new
   entry at that path is accepted first. The unique key rolls the acceptance back, and
   every push that follows raises. The same key makes a pull raise when the server holds two
   live entries at one path, or one at the remote path of an entry renamed or deleted here
   (`RaisesOnlyOnClash` names these cases), and each retry of it writes another conflict
   copy.
9. A clean merge writes the remote bytes first and the merged ones after the rows; a
   failure between the two leaves the local edits in no file (`unguarded`).
10. A pending delete is dropped when another entry is pulled at its path: the entry
   stays deleted here and alive on the server.
11. `EntrySync`, the exception of `StaleIsPullable`: a mutation whose base was
   read just before an acceptance was applied is stale against a cursor that already
   covers that acceptance; the pull that follows brings nothing and the push is
   rejected again until the file or the remote entry changes. So `Converges` fails
   with `Overlap` other than `"none"`.
12. A file that changes more often than every 200 ms is never handed to the recorder:
   each event restarts its timer (change-source.ts). A file whose processing failed is not tried again
   before its next change or a reconcile.
13. `VaultWatch` with `SpacedErrors = FALSE` and two errors: a second watcher error joins a
   reconcile that has already read the file (watch.ts:46); what was missed in between
   waits for the next change.
14. `RealtimeSocket`, the exceptions of `PolicyIsLatest` and `EndIsClean`: a policy message handled
   in the turn of the hello is overwritten by the hello's older policy when `openSession`
   goes on (realtime-client.ts:121); after a close handled there, the heartbeat is
   started for a session that is over.
15. A pull that fails puts back the pending mutation it has saved
   (pull-entry-state-applier.ts:704), over one that was queued while it ran: an exception of
   `PendingEditSurvives`.

## What is not covered

- Local work beside a pull of several entries: the user of `PullApply` acts between
  pulls; what a save beside a pull does is in `EntrySync`, for one entry.
- Rename detection in the reconcile, and renames recorded beside a drain.
- Moves between plain and config paths; the predicates over path strings.
- The text merge itself: a merge is the union of the edits, or a conflict. That
  Markdown files pass through a text decoder (vault-writer.ts:23) is left out with it.
- The server's rollback of a replayed commit, the incompatible-path block, version
  history, the blob client's HTTP calls, presence and storage-status watching.
- Tokens and sign-in: the command line signs in or out once per process and never
  cancels a login, and the vault of a process does not change; the
  cache of one token has nothing to race with. The remote-vault manager is a sequence of
  requests.
- The coordinator is modelled from the client's side: it accepts a mutation when its
  base is the entry's revision and answers a repeated mutation as before. Cryptography
  is assumed to work. Formatting, logging, parsing and configuration are left out.

Each component is listed with its state in `PROJECT.json`.

## Plan

1. More proofs about `PullApply`: `RaisesOnlyOnClash` from `RowsStaySound`, then
   `LocalWorkSurvives` from `GroupsStayApart`.
2. An abstract feed ("a cursor and the set of changes held") implemented by
   `SyncCursor`.
3. Remaining components: rename detection, the text merge over bounded inputs.
