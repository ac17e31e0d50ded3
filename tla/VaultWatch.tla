----------------------------- MODULE VaultWatch -----------------------------
(***************************************************************************)
(* `synch watch`: from a change of a file to the recorder and to the       *)
(* --on-change hook.  NodeFsChangeSource debounces the file watcher's      *)
(* events per path; the engine's queue of local work runs the paths and    *)
(* the reconciles one after the other; VaultChangeNotifier compares        *)
(* snapshots when the sync status settles and runs the hook.               *)
(*                                                                         *)
(* A file is the number of its changes; what is recorded of it and what    *)
(* the hook was told are such numbers too.  Pushing what is recorded is    *)
(* AutoSyncLoop's: here the status settles some time after it.             *)
(***************************************************************************)
EXTENDS Naturals, Sequences, FiniteSets

CONSTANTS
    File,
    MaxEdits,     \* bound on the changes of each file
    MaxErrors,    \* bound on errors of the watcher, of local work and of hooks
    SettledStart, \* nothing changes before the watcher reports ready
    SpacedErrors  \* no watcher error while a reconcile is asked for

ASSUME VaultWatchAssumption ==
    /\ IsFiniteSet(File) /\ "reconcile" \notin File
    /\ MaxEdits \in Nat \ {0} /\ MaxErrors \in Nat
    /\ SettledStart \in BOOLEAN /\ SpacedErrors \in BOOLEAN

VARIABLES
    disk,      \* the changes of each file
    recorded,  \* what the recorder holds
    failed,    \* files whose last change local work failed to record
    ready,     \* the watcher reports changes
    events,    \* changes the watcher has seen and not reported
    pending,   \* pendingPaths: files with a running debounce timer
    rescan,    \* reconcileTimer
    asked,     \* reconcilePromise of the watch command
    queue,     \* localMutationQueue: files and reconciles
    work,      \* the local work that runs
    settling,  \* the sync status will settle again
    snapshot,  \* what the last detection saw
    timer,     \* the notifier's debounce timer
    passes,    \* detections in the notifier's chain
    hook,      \* the hook that is waited for, and those that live
    command,   \* "new", "runs", "stopped": the notifier is disposed of
    errors

watchVars == <<disk, recorded, failed, ready, events, pending, rescan, asked, queue, work,
               settling, snapshot, timer, passes, hook, command, errors>>
recordVars == <<recorded, failed>>
sourceVars == <<ready, events, pending, rescan, asked>>
localVars == <<queue, work>>
notifierVars == <<snapshot, timer, passes, hook, command>>

NoWork == [kind |-> "none", todo |-> {}, got |-> << >>]
Reconcile == "reconcile"
Fails == errors < MaxErrors /\ errors' = errors + 1

WatchInit ==
    /\ disk = [f \in File |-> 1]
    /\ recorded \in [File -> {0, 1}]  \* what changed since the last run
    /\ failed = {} /\ ready = FALSE /\ events = {} /\ pending = {}
    /\ rescan = FALSE /\ asked = FALSE
    /\ queue = << >> /\ work = NoWork /\ settling = FALSE
    /\ snapshot = [f \in File |-> 1] /\ timer = FALSE /\ passes = 0
    /\ hook = [state |-> "idle", alive |-> 0] /\ command = "new" /\ errors = 0

Runs == command = "runs"

(* runWatch: the watcher is set up, the first reconcile and the first syncNow
   are on their way. *)
RunWatch ==
    /\ command = "new" /\ command' = "runs"
    /\ queue' = <<Reconcile>> /\ settling' = TRUE /\ snapshot' = disk
    /\ UNCHANGED <<disk, recordVars, sourceVars, work, timer, passes, hook, errors>>
-----------------------------------------------------------------------------
(* The vault. *)

Edit ==
    /\ command = "new" \/ (SettledStart => ready)
    /\ \E f \in File :
          /\ disk[f] < MaxEdits /\ disk' = [disk EXCEPT ![f] = @ + 1]
          /\ events' = IF ready THEN events \cup {f} ELSE events
    /\ UNCHANGED <<recordVars, ready, pending, rescan, asked, localVars, settling, notifierVars, errors>>

(* A pull writes what another device changed; the recorder's rows follow. *)
PullWrites ==
    /\ Runs /\ \E f \in File :
          /\ disk[f] < MaxEdits /\ recorded[f] = disk[f]
          /\ disk' = [disk EXCEPT ![f] = @ + 1]
          /\ recorded' = [recorded EXCEPT ![f] = disk[f] + 1]
          /\ events' = IF ready THEN events \cup {f} ELSE events
    /\ settling' = TRUE
    /\ UNCHANGED <<failed, ready, pending, rescan, asked, localVars, notifierVars, errors>>

-----------------------------------------------------------------------------
(* NodeFsChangeSource. *)

(* chokidar reports nothing before its first scan ends. *)
WatcherReady ==
    /\ command # "new" /\ ~ready /\ ready' = TRUE
    /\ UNCHANGED <<disk, recordVars, events, pending, rescan, asked, localVars, settling, notifierVars, errors>>

(* handlePathEvent, schedulePath: the timer starts anew. *)
EventArrives ==
    /\ \E f \in events : events' = events \ {f} /\ pending' = pending \cup {f}
    /\ UNCHANGED <<disk, recordVars, ready, rescan, asked, localVars, settling, notifierVars, errors>>

(* dispatchPath *)
DebounceEnds ==
    /\ \E f \in pending : pending' = pending \ {f} /\ queue' = Append(queue, f)
    /\ UNCHANGED <<disk, recordVars, ready, events, rescan, asked, work, settling, notifierVars, errors>>

(* Events are lost; scheduleReconcile. *)
ErrorIgnored ==  \* Not the code: the lost events are only reported.
    /\ Fails /\ ready /\ (SpacedErrors => ~asked)
    /\ \E lost \in SUBSET events : events' = events \ lost
    /\ UNCHANGED <<disk, recordVars, ready, pending, rescan, asked, localVars, settling, notifierVars>>

WatcherError ==
    /\ Fails /\ ready /\ (SpacedErrors => ~asked)
    /\ \E lost \in SUBSET events : events' = events \ lost
    /\ rescan' = TRUE
    /\ UNCHANGED <<disk, recordVars, ready, pending, asked, localVars, settling, notifierVars>>

(* requestReconcile: nothing, when one was asked for and has not ended. *)
RescanTimer ==
    /\ rescan /\ rescan' = FALSE
    /\ asked' = TRUE
    /\ queue' = IF asked THEN queue ELSE Append(queue, Reconcile)
    /\ UNCHANGED <<disk, recordVars, ready, events, pending, work, settling, notifierVars, errors>>

-----------------------------------------------------------------------------
(* The engine's local work: runLocalMutationWork. *)

WorkStarts ==
    /\ work = NoWork /\ queue # << >> /\ queue' = Tail(queue)
    /\ work' = IF Head(queue) = Reconcile
               THEN [NoWork EXCEPT !.kind = "reconcile",
                                   !.todo = {f \in File : disk[f] # recorded[f]}]
               ELSE [NoWork EXCEPT !.kind = "path", !.got = [f \in {Head(queue)} |-> disk[f]]]
    /\ UNCHANGED <<disk, recordVars, sourceVars, settling, notifierVars, errors>>

(* What was read is recorded, and the drain is told if it is new. *)
RecordRead ==
    /\ work' = NoWork
    /\ recorded' = [f \in File |-> IF f \in DOMAIN work.got THEN work.got[f] ELSE recorded[f]]
    /\ settling' = (settling \/ recorded' # recorded)
    /\ failed' = failed \ DOMAIN work.got
    /\ UNCHANGED errors

ForgetRead ==
    /\ Fails /\ work' = NoWork
    /\ failed' = failed \cup DOMAIN work.got \cup work.todo
    /\ UNCHANGED <<recorded, settling>>

(* processPath; when it throws, the change waits for the file's next one. *)
PathEnds ==
    /\ work.kind = "path"
    /\ RecordRead \/ ForgetRead
    /\ UNCHANGED <<disk, sourceVars, queue, notifierVars>>

(* reconcileOnce reads the files whose stat, listed at the start, is not the
   stored one; the updates are one call at the end. *)
ReconcileReads ==
    /\ work.kind = "reconcile"
    /\ \E f \in work.todo :
          work' = [work EXCEPT !.todo = @ \ {f}, !.got = [g \in DOMAIN @ \cup {f} |-> IF g = f THEN disk[f] ELSE @[g]]]
    /\ UNCHANGED <<disk, recordVars, sourceVars, queue, settling, notifierVars, errors>>

(* The request that is served: runWatch's first reconcile is not one. *)
NoneWaits == \A i \in DOMAIN queue : queue[i] # Reconcile

ReconcileEnds ==
    /\ work.kind = "reconcile"
    /\ \/ work.todo = {} /\ RecordRead
       \/ ForgetRead
    /\ asked' = (asked /\ ~NoneWaits)
    /\ UNCHANGED <<disk, ready, events, pending, rescan, queue, notifierVars>>

-----------------------------------------------------------------------------
(* VaultChangeNotifier and OnChangeHook. *)

(* The watch command calls schedule when a status settles. *)
ScheduleUnlessBusy ==  \* Not the code: a running hook makes schedule return.
    /\ settling /\ settling' = FALSE
    /\ timer' = (timer \/ (Runs /\ hook.state = "idle"))
    /\ UNCHANGED <<disk, recordVars, sourceVars, localVars, snapshot, passes, hook, command, errors>>

StatusSettles ==
    /\ settling /\ settling' = FALSE
    /\ timer' = (timer \/ Runs)
    /\ UNCHANGED <<disk, recordVars, sourceVars, localVars, snapshot, passes, hook, command, errors>>

NotifierTimer ==
    /\ timer /\ timer' = FALSE /\ passes' = passes + 1
    /\ UNCHANGED <<disk, recordVars, sourceVars, localVars, settling, snapshot, hook, command, errors>>

(* flush: a detection now (runWatch asks for one after its first syncNow) *)
Flush ==
    /\ Runs /\ passes = 0
    /\ timer' = FALSE /\ passes' = passes + 1
    /\ UNCHANGED <<disk, recordVars, sourceVars, localVars, settling, snapshot, hook, command, errors>>

(* detect: the chain runs one pass, and its hook, at a time. *)
Detect ==
    /\ passes > 0 /\ hook.state = "idle" /\ passes' = passes - 1
    /\ IF ~Runs THEN UNCHANGED <<snapshot, hook>>
       ELSE /\ snapshot' = disk
            /\ hook' = IF snapshot = disk THEN hook
                       ELSE [state |-> "running", alive |-> hook.alive + 1]
    /\ UNCHANGED <<disk, recordVars, sourceVars, localVars, settling, timer, command, errors>>

(* close or error of the child, whatever its exit code *)
HookEnds ==
    /\ hook.state = "running" /\ hook' = [state |-> "idle", alive |-> hook.alive - 1]
    /\ UNCHANGED <<disk, recordVars, sourceVars, localVars, settling, snapshot, timer, passes, command, errors>>

TimeoutWithoutKill ==  \* Not the code: the hook that is given up goes on.
    /\ Fails /\ hook.state = "running" /\ hook' = [hook EXCEPT !.state = "idle"]
    /\ UNCHANGED <<disk, recordVars, sourceVars, localVars, settling, snapshot, timer, passes, command>>

HookTimesOut ==
    /\ Fails /\ hook.state = "running" /\ hook' = [state |-> "idle", alive |-> hook.alive - 1]
    /\ UNCHANGED <<disk, recordVars, sourceVars, localVars, settling, snapshot, timer, passes, command>>

(* SIGINT: dispose; what is detected already is reported. *)
Shutdown ==
    /\ Runs /\ command' = "stopped" /\ timer' = FALSE
    /\ UNCHANGED <<disk, recordVars, sourceVars, localVars, settling, snapshot, passes, hook, errors>>

LocalSteps == WorkStarts \/ PathEnds \/ ReconcileReads \/ ReconcileEnds
NotifierSteps == NotifierTimer \/ Detect \/ HookEnds

WatchNext ==
    \/ RunWatch \/ Edit \/ PullWrites \/ WatcherReady \/ EventArrives \/ DebounceEnds \/ WatcherError \/ RescanTimer
    \/ LocalSteps
    \/ StatusSettles \/ NotifierSteps \/ Flush \/ HookTimesOut \/ Shutdown

(* Timers fire, promises settle, and a hook ends or is killed. *)
WatchFairness ==
    /\ WF_watchVars(WatcherReady) /\ WF_watchVars(EventArrives) /\ WF_watchVars(DebounceEnds)
    /\ WF_watchVars(RescanTimer)
    /\ WF_watchVars(LocalSteps)
    /\ WF_watchVars(StatusSettles) /\ WF_watchVars(NotifierSteps)

WatchSpec == WatchInit /\ [][WatchNext]_watchVars /\ WatchFairness

-----------------------------------------------------------------------------
(***************************************************************************)
(* Type: the recorder and the hook are never ahead of the vault, and at    *)
(* most one reconcile waits for its turn beside the first one.             *)
(***************************************************************************)
WatchTypeOK ==
    /\ disk \in [File -> 1..MaxEdits]
    /\ \A f \in File : recorded[f] <= disk[f] /\ snapshot[f] <= disk[f]
    /\ events \subseteq File /\ pending \subseteq File /\ failed \subseteq File
    /\ Cardinality({i \in DOMAIN queue : queue[i] = Reconcile}) <= 2
    /\ work.kind \in {"none", "path", "reconcile"} /\ errors \in 0..MaxErrors
    /\ \A v \in {ready, rescan, asked, settling, timer} : v \in BOOLEAN
    /\ command \in {"new", "runs", "stopped"}

(***************************************************************************)
(* Every change of a file comes to the recorder: through its debounced     *)
(* event, or through the reconcile that follows an error of the watcher    *)
(* (change-source.ts).  Only a change that local work failed on waits.     *)
(***************************************************************************)
ChangesAreRecorded ==
    \A f \in File : command # "new" /\ disk[f] # recorded[f] ~> (disk[f] = recorded[f] \/ f \in failed)

(***************************************************************************)
(* Every change comes to the hook while the command runs, whatever arrives *)
(* while another hook or detection runs (vault-changes.ts).                *)
(***************************************************************************)
ChangesAreReported ==
    \A f \in File : Runs /\ disk[f] # snapshot[f] ~> (disk[f] = snapshot[f] \/ f \in failed \/ ~Runs)

(***************************************************************************)
(* Hooks are serialised: one that is still alive is waited for.            *)
(***************************************************************************)
OneHook == hook.alive <= 1 /\ (hook.state = "running" <=> hook.alive = 1)
=============================================================================
