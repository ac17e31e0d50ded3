------------------------------ MODULE EntrySync ------------------------------
(***************************************************************************)
(* The life of one vault entry on one device: the file on disk, the row    *)
(* the sync store keeps about it, the recorder that turns file events into *)
(* pending mutations, the push that commits them, the pull that applies    *)
(* what other devices committed, and the server they share.                *)
(*                                                                         *)
(* Granularity.  A step is what runs between two awaits of something that  *)
(* is really asynchronous: file system, crypto, network.  The SQLite store *)
(* is synchronous, so consecutive store calls are one step.  Push and pull *)
(* never overlap (the auto-sync drain runs them one after the other), the  *)
(* recorder runs beside both.                                              *)
(*                                                                         *)
(* Data.  A content stands for its bytes and for their hash; a blob id is  *)
(* identified with the content it names.  The path of the entry does not   *)
(* change and the file is binary (no three-way merge).  A file that comes  *)
(* back after its deletion was settled is another entry and is left out.   *)
(***************************************************************************)
EXTENDS Integers

CONSTANTS
    Content,       \* what the file may hold
    NoFile,        \* the file does not exist, the entry is deleted
    Unknown,       \* the row holds no local state (localKnown = false)
    TooLarge,      \* contents the server's file size limit refuses
    MaxApplyTries, \* attempts at applying an acceptance (3 in the code)
    MaxEdits,      \* bound on what the local user does
    MaxRemote,     \* bound on what the other devices do
    MaxFaults,     \* bound on crashes of this process, failures of network and vault
    MaxTogether,   \* bound on the three together
    Overlap,       \* what local work may run beside: "none", "push", "all"
    CrashWindows   \* recorder writes a crash may split: "upsert", "delete"

ASSUME EntrySyncAssumption ==
    /\ NoFile \notin Content /\ Unknown \notin Content /\ NoFile # Unknown
    /\ TooLarge \subseteq Content /\ MaxApplyTries \in Nat \ {0}
    /\ MaxEdits \in Nat /\ MaxRemote \in Nat /\ MaxFaults \in Nat /\ MaxTogether \in Nat
    /\ Overlap \in {"none", "push", "all"}
    /\ CrashWindows \subseteq {"upsert", "delete"}

VARIABLES
    disk,       \* the file
    copies,     \* contents saved in conflict copies
    event,      \* a file event waits for the recorder
    row,        \* the entry's row in the store
    cursor,     \* the store's last pulled cursor
    rec,        \* the recorder
    push,       \* pushPendingMutations
    pull,       \* pullOnce
    wantPush,   \* push work requested from the drain
    wantPull,   \* pull work requested from the drain
    server,     \* the entry on the server, and the vault's cursor
    accepted,   \* what the server answered to the mutations it accepted
    published,  \* every content the server ever held for this entry
    limited,    \* the server's policy still refuses TooLarge
    nextId,     \* the next mutation id
    up,         \* the process runs
    spent,      \* how much of each bound is used
    beside      \* history: what local work has run beside since the entry was at rest

device == <<row, cursor, nextId>>
drain  == <<push, pull, wantPush, wantPull>>
remote == <<server, accepted, published, limited>>
vars == <<disk, copies, event, device, rec, drain, remote, up, spent, beside>>

File == Content \cup {NoFile}

(***************************************************************************)
(* Pending mutations and rows.  The operation of a mutation is a delete    *)
(* exactly when it carries no content.                                     *)
(***************************************************************************)
Mutation == [id : Nat, hash : File, base : Nat, blocked : BOOLEAN]
NoMutation == [id |-> 0, hash |-> NoFile, base |-> 0, blocked |-> FALSE]

\* Not the code: the base revision is not recorded.
NewMutationWithoutBase(hash, base) ==
    [id |-> nextId, hash |-> hash, base |-> 0, blocked |-> FALSE]
\* Not the code: the base is the revision before the one recorded.
NewMutationBehind(hash, base) ==
    [id |-> nextId, hash |-> hash, base |-> base - 1, blocked |-> FALSE]

NewMutation(hash, base) ==
    [id |-> nextId, hash |-> hash, base |-> base, blocked |-> FALSE]

Row == [rev : Nat, hash : File, local : File \cup {Unknown}, pending : Mutation]
EmptyRow == [rev |-> 0, hash |-> NoFile, local |-> Unknown, pending |-> NoMutation]

IsDirty(r) == r.pending.id # 0
IsPushable(r) == IsDirty(r) /\ ~r.pending.blocked

\* upsertEntry writes the row anew: remote and local agree, nothing is pending.
UpsertedRow(rev, hash) ==
    [rev |-> rev, hash |-> hash, local |-> hash, pending |-> NoMutation]

\* toCombinedEntryRow: the content the entry has for the planner.
CombinedHash(r) == IF r.local # Unknown THEN r.local ELSE r.hash

RecIdle == [pc |-> "idle", hash |-> NoFile, base |-> 0]
PushIdle == [pc |-> "idle", mut |-> NoMutation, bytes |-> NoFile, base |-> 0,
             result |-> "none", rev |-> 0, at |-> 0, plan |-> 0, tries |-> 0,
             start |-> 0, acked |-> {}, requeued |-> 0, pullAfter |-> FALSE]
PullIdle == [pc |-> "idle", rev |-> 0, hash |-> NoFile, target |-> 0,
             skip |-> FALSE, old |-> EmptyRow, pend |-> NoMutation,
             keep |-> FALSE, copy |-> NoFile, snap |-> EmptyRow]

DrainIdle == push.pc = "idle" /\ pull.pc = "idle"

(***************************************************************************)
(* Where the instance lets local work overlap the drain.                   *)
(***************************************************************************)
LocalMayRun ==
    CASE Overlap = "none" -> DrainIdle
      [] Overlap = "push" -> pull.pc = "idle"
      [] Overlap = "all"  -> TRUE
LocalQuiet == rec.pc = "idle" /\ ~event
PushMayStart == Overlap = "none" => LocalQuiet
PullMayStart == Overlap # "all" => LocalQuiet

Spend(what, limit) ==
    /\ spent[what] < limit /\ spent.edits + spent.remote + spent.faults < MaxTogether
    /\ spent' = [spent EXCEPT ![what] = @ + 1]

(***************************************************************************)
(* The entry is at rest: nothing runs or waits, and the file is the one    *)
(* its row says and one the server knows.                                  *)
(***************************************************************************)
AtRest ==
    /\ DrainIdle /\ LocalQuiet /\ ~IsDirty(row)
    /\ row.local = disk \/ (disk = NoFile /\ row.local = Unknown)
    /\ disk \in published \cup {NoFile}

\* What runs while the user, the recorder or the unblocking pass does
\* something, or starts while a file event waits or is recorded.
Running == {x \in {"push", "pull"} : (x = "push" /\ push.pc # "idle") \/ (x = "pull" /\ pull.pc # "idle")}
Met ==
    IF UNCHANGED <<push, pull>>
    THEN IF UNCHANGED <<disk, rec, row, limited>> THEN {} ELSE Running
    ELSE IF LocalQuiet THEN {} ELSE Running' \ Running
Mark == beside' = IF AtRest' THEN {} ELSE beside \cup Met

-----------------------------------------------------------------------------
(* The user and the file system watcher. *)

\* The file may come back only as the same entry (see the header).
SameEntryOnCreate ==
    \/ row.local \in Content
    \/ IsDirty(row) /\ row.pending.hash = NoFile
    \/ server.rev = 0 /\ DrainIdle

UserWrite(c) ==
    /\ disk # c
    /\ disk = NoFile => SameEntryOnCreate
    /\ up => LocalMayRun
    /\ Spend("edits", MaxEdits)
    /\ disk' = c
    /\ event' = up
    /\ UNCHANGED <<copies, device, rec, drain, remote, up>>
    /\ Mark

UserRemove ==
    /\ disk # NoFile
    /\ up => LocalMayRun
    /\ Spend("edits", MaxEdits)
    /\ disk' = NoFile
    /\ event' = up
    /\ UNCHANGED <<copies, device, rec, drain, remote, up>>
    /\ Mark

-----------------------------------------------------------------------------
(* The recorder: one file event at a time, serialised with the reconcile.  *)

\* The event gate covers the paths a pull is changing, while it applies them.
Suppressed == pull.pc \in {"copy", "vault", "store"} /\ ~pull.skip

RecordDrop ==
    /\ up /\ rec.pc = "idle" /\ event /\ LocalMayRun
    /\ Suppressed
    /\ event' = FALSE
    /\ UNCHANGED <<disk, copies, device, rec, drain, remote, up, spent>>
    /\ Mark

RecordRead ==
    /\ up /\ rec.pc = "idle" /\ event /\ LocalMayRun
    /\ ~Suppressed
    /\ disk # NoFile
    /\ event' = FALSE
    /\ rec' = [RecIdle EXCEPT !.pc = "hash", !.hash = disk]
    /\ UNCHANGED <<disk, copies, device, drain, remote, up, spent>>
    /\ Mark

\* The store already says what the file says.
NothingNew ==
    /\ row.local = rec.hash
    /\ ~IsDirty(row) \/ row.pending.hash = rec.hash

RecordHashed ==
    /\ rec.pc = "hash" /\ LocalMayRun
    /\ rec' = IF Suppressed \/ NothingNew
              THEN RecIdle
              ELSE [rec EXCEPT !.pc = "encrypt", !.base = row.rev]
    /\ UNCHANGED <<disk, copies, event, device, drain, remote, up, spent>>
    /\ Mark

RecordUpsert ==
    /\ rec.pc = "encrypt" /\ LocalMayRun
    /\ row' = [row EXCEPT !.pending = NewMutation(rec.hash, rec.base),
                          !.local = rec.hash]
    /\ nextId' = nextId + 1
    /\ rec' = RecIdle
    /\ wantPush' = TRUE
    /\ UNCHANGED <<disk, copies, event, cursor, push, pull, wantPull, remote,
                   up, spent>>
    /\ Mark

\* getLocalStateByPath(path) ?? getRemoteStateByPath(path)
KnownAtPath == row.local \in Content \/ (row.rev > 0 /\ row.hash \in Content)

RecordDelete ==
    /\ up /\ rec.pc = "idle" /\ event /\ LocalMayRun
    /\ ~Suppressed
    /\ disk = NoFile
    /\ event' = FALSE
    /\ \/ /\ ~KnownAtPath
          /\ UNCHANGED <<row, rec>>
       \/ /\ KnownAtPath /\ row.rev = 0
          /\ row' = EmptyRow
          /\ UNCHANGED rec
       \/ /\ KnownAtPath /\ row.rev > 0
          /\ row' = [row EXCEPT !.pending = NoMutation, !.local = NoFile]
          /\ rec' = [RecIdle EXCEPT !.pc = "encryptDelete", !.base = row.rev]
    /\ UNCHANGED <<disk, copies, cursor, nextId, drain, remote, up, spent>>
    /\ Mark

RecordDeleteQueued ==
    /\ rec.pc = "encryptDelete" /\ LocalMayRun
    /\ row' = [row EXCEPT !.pending = NewMutation(NoFile, rec.base)]
    /\ nextId' = nextId + 1
    /\ rec' = RecIdle
    /\ wantPush' = TRUE
    /\ UNCHANGED <<disk, copies, event, cursor, push, pull, wantPull, remote,
                   up, spent>>
    /\ Mark

Recorder == \/ RecordDrop \/ RecordRead \/ RecordHashed \/ RecordUpsert
            \/ RecordDelete \/ RecordDeleteQueued

-----------------------------------------------------------------------------
(* Push. *)

PushStart ==
    /\ up /\ DrainIdle /\ wantPush /\ ~wantPull /\ PushMayStart
    /\ push' = [PushIdle EXCEPT !.pc = "list", !.start = cursor]
    /\ wantPush' = FALSE
    /\ UNCHANGED <<disk, copies, event, device, rec, pull, wantPull, remote,
                   up, spent>>
    /\ Mark

\* shouldYield() || shouldPullAfterPush || requeueLimitReached
PushStops == wantPull \/ push.pullAfter \/ push.requeued > 1

PushTake ==
    /\ push.pc = "list" /\ IsPushable(row) /\ ~PushStops
    /\ push' = [push EXCEPT !.pc = IF row.pending.hash = NoFile
                                   THEN "ready" ELSE "read",
                            !.mut = row.pending, !.bytes = NoFile]
    /\ UNCHANGED <<disk, copies, event, device, rec, pull, wantPush, wantPull,
                   remote, up, spent>>
    /\ Mark

\* The push throws: the drain asks for it again and the cursor stays put.
PushAborts ==
    /\ push' = PushIdle
    /\ wantPush' = TRUE
    /\ UNCHANGED <<disk, copies, event, device, rec, pull, wantPull, remote, up>>

\* Not the code: the bytes read are not compared with the recorded hash.
PushReadUnverified ==
    /\ push.pc = "read" /\ disk # NoFile
    /\ push' = [push EXCEPT !.pc = "upload", !.bytes = disk]
    /\ UNCHANGED <<disk, copies, event, device, rec, pull, wantPush, wantPull,
                   remote, up, spent>>
    /\ Mark

PushRead ==
    /\ push.pc = "read" /\ disk # NoFile
    /\ push' = IF disk = push.mut.hash
               THEN [push EXCEPT !.pc = "upload", !.bytes = disk]
               ELSE [push EXCEPT !.pc = "requeue", !.bytes = disk,
                                 !.base = IF row.rev > 0 THEN row.rev
                                          ELSE push.mut.base]
    /\ UNCHANGED <<disk, copies, event, device, rec, pull, wantPush, wantPull,
                   remote, up, spent>>
    /\ Mark

PushReadMissing ==
    /\ push.pc = "read" /\ disk = NoFile
    /\ PushAborts
    /\ UNCHANGED spent
    /\ Mark

PushRequeue ==
    /\ push.pc = "requeue"
    /\ row' = [row EXCEPT !.pending = NewMutation(push.bytes, push.base),
                          !.local = push.bytes]
    /\ nextId' = nextId + 1
    /\ push' = [push EXCEPT !.pc = "list", !.requeued = @ + 1]
    /\ UNCHANGED <<disk, copies, event, cursor, rec, pull, wantPush, wantPull,
                   remote, up, spent>>
    /\ Mark

PushUpload ==
    /\ push.pc = "upload"
    /\ push' = [push EXCEPT !.pc = IF limited /\ push.bytes \in TooLarge
                                   THEN "refused" ELSE "ready"]
    /\ UNCHANGED <<disk, copies, event, device, rec, pull, wantPush, wantPull,
                   remote, up, spent>>
    /\ Mark

\* updateDirtyEntry writes back the mutation the push took from the store.
PushBlock ==
    /\ push.pc = "refused"
    /\ row' = [row EXCEPT !.pending = [push.mut EXCEPT !.blocked = TRUE]]
    /\ push' = [push EXCEPT !.pc = "list"]
    /\ UNCHANGED <<disk, copies, event, cursor, nextId, rec, pull, wantPush,
                   wantPull, remote, up, spent>>
    /\ Mark

\* The coordinator decides the mutation; one it has accepted before is
\* answered as before.
PushCommit ==
    /\ push.pc = "ready"
    /\ \/ /\ push.mut.id \in DOMAIN accepted
          /\ push' = [push EXCEPT !.pc = "answered", !.result = "accepted",
                                  !.rev = accepted[push.mut.id].rev,
                                  !.at = accepted[push.mut.id].at]
          /\ UNCHANGED remote
       \/ /\ push.mut.id \notin DOMAIN accepted
          /\ push.mut.base = server.rev
          /\ server' = [rev |-> server.rev + 1, hash |-> push.mut.hash,
                        body |-> push.bytes, seq |-> server.cursor + 1,
                        cursor |-> server.cursor + 1]
          /\ accepted' = [i \in DOMAIN accepted \cup {push.mut.id} |->
                            IF i = push.mut.id
                            THEN [rev |-> server'.rev, at |-> server'.seq]
                            ELSE accepted[i]]
          /\ published' = published \cup ({push.mut.hash} \ {NoFile})
          /\ UNCHANGED limited
          /\ push' = [push EXCEPT !.pc = "answered", !.result = "accepted",
                                  !.rev = server'.rev, !.at = server'.seq]
       \/ /\ push.mut.id \notin DOMAIN accepted
          /\ push.mut.base # server.rev
          /\ push' = [push EXCEPT !.pc = "answered", !.result = "stale"]
          /\ UNCHANGED remote
    /\ UNCHANGED <<disk, copies, event, device, rec, pull, wantPush, wantPull,
                   up, spent>>
    /\ Mark

\* isPullResolvableStaleRevision: leave the mutation to the pull that follows.
\* A base that is ahead of the server is not a case: see StaleIsPullable.
PushRejected ==
    /\ push.pc = "answered" /\ push.result = "stale"
    /\ push' = [push EXCEPT !.pc = "list", !.pullAfter = TRUE]
    /\ UNCHANGED <<disk, copies, event, device, rec, pull, wantPush, wantPull,
                   remote, up, spent>>
    /\ Mark

PushAccepted ==
    /\ push.pc = "answered" /\ push.result = "accepted"
    /\ push' = [push EXCEPT !.pc = "plan", !.tries = 0]
    /\ UNCHANGED <<disk, copies, event, device, rec, pull, wantPush, wantPull,
                   remote, up, spent>>
    /\ Mark

\* planAcceptedPushApply re-encrypts a newer pending mutation, which takes an
\* await; with none the plan and the transaction are one step.
NewerPending == IsDirty(row) /\ row.pending.id # push.mut.id

PushPlan ==
    /\ push.pc = "plan" /\ NewerPending
    /\ push' = [push EXCEPT !.pc = "apply", !.plan = row.pending.id]
    /\ UNCHANGED <<disk, copies, event, device, rec, pull, wantPush, wantPull,
                   remote, up, spent>>
    /\ Mark

\* Not the code: an acceptance settles whatever is pending.
AcceptedRowForgetsNewer ==
    [row EXCEPT !.rev = push.rev, !.hash = push.mut.hash, !.pending = NoMutation]

\* applyAcceptedPushToEntry
AcceptedRow ==
    [rev |-> push.rev, hash |-> push.mut.hash,
     local |-> IF push.mut.hash # NoFile /\ row.local = Unknown
               THEN push.mut.hash ELSE row.local,
     pending |-> IF NewerPending
                 THEN [row.pending EXCEPT !.base = push.rev]
                 ELSE NoMutation]

PushApply ==
    /\ \/ push.pc = "plan" /\ ~NewerPending
       \/ push.pc = "apply" /\ (NewerPending => row.pending.id = push.plan)
    /\ row' = AcceptedRow
    /\ push' = [push EXCEPT !.pc = "list", !.acked = @ \cup {push.at},
                            !.requeued = 0]
    /\ UNCHANGED <<disk, copies, event, cursor, nextId, rec, pull, wantPush,
                   wantPull, remote, up, spent>>
    /\ Mark

PushApplyRetry ==
    /\ push.pc = "apply" /\ NewerPending /\ row.pending.id # push.plan
    /\ push.tries + 1 < MaxApplyTries
    /\ push' = [push EXCEPT !.pc = "plan", !.tries = @ + 1]
    /\ UNCHANGED <<disk, copies, event, device, rec, pull, wantPush, wantPull,
                   remote, up, spent>>
    /\ Mark

PushApplyGivesUp ==
    /\ push.pc = "apply" /\ NewerPending /\ row.pending.id # push.plan
    /\ push.tries + 1 >= MaxApplyTries
    /\ PushAborts
    /\ UNCHANGED spent
    /\ Mark

\* getContiguousAcceptedCursor
Contiguous(from, acked) ==
    CHOOSE n \in acked \cup {from} :
        n >= from /\ (from + 1)..n \subseteq acked /\ n + 1 \notin acked

PushFinish ==
    LET checkpoint == Contiguous(push.start, push.acked) IN
    /\ push.pc = "list" /\ (~IsPushable(row) \/ PushStops)
    /\ cursor' = IF checkpoint > push.start THEN checkpoint ELSE cursor
    /\ wantPull' = (wantPull \/ push.pullAfter
                             \/ \E n \in push.acked : n > checkpoint)
    /\ wantPush' = (wantPush \/ IsPushable(row))
    /\ push' = PushIdle
    /\ UNCHANGED <<disk, copies, event, row, nextId, rec, pull, remote, up, spent>>
    /\ Mark

\* The upload or the commit fails, or its answer is lost.
PushFails ==
    /\ push.pc \in {"upload", "ready", "answered"}
    /\ Spend("faults", MaxFaults)
    /\ PushAborts
    /\ Mark

Push == \/ PushStart \/ PushTake \/ PushRead \/ PushReadMissing \/ PushRequeue
        \/ PushUpload \/ PushBlock \/ PushCommit \/ PushRejected
        \/ PushAccepted \/ PushPlan \/ PushApply \/ PushApplyRetry
        \/ PushApplyGivesUp \/ PushFinish

-----------------------------------------------------------------------------
(* Pull. *)

\* listEntryStates: the entry is on the page when it changed after the cursor.
PullFetch ==
    /\ up /\ DrainIdle /\ wantPull /\ PullMayStart
    /\ wantPull' = FALSE
    /\ pull' = IF server.seq > cursor
               THEN [PullIdle EXCEPT !.pc = "planned", !.rev = server.rev,
                                     !.hash = server.hash, !.target = server.cursor]
               ELSE [PullIdle EXCEPT !.pc = "checkpoint", !.target = server.cursor]
    /\ UNCHANGED <<disk, copies, event, device, rec, push, wantPush, remote,
                   up, spent>>
    /\ Mark

\* isAlreadyAppliedToVault
AlreadyApplied ==
    /\ pull.hash # NoFile /\ ~IsDirty(row)
    /\ row.rev = pull.rev /\ row.hash = pull.hash /\ row.local = pull.hash

\* planManifest: an older revision than the one recorded is not applied.
PullPlan ==
    /\ pull.pc = "planned"
    /\ pull' = IF pull.rev < row.rev
               THEN [pull EXCEPT !.pc = "checkpoint"]
               ELSE [pull EXCEPT !.pc = "prepare", !.skip = AlreadyApplied,
                                 !.old = row]
    /\ UNCHANGED <<disk, copies, event, device, rec, push, wantPush, wantPull,
                   remote, up, spent>>
    /\ Mark

\* The blob is downloaded, then a pending mutation of the entry is looked for.
PullPrepare ==
    /\ pull.pc = "prepare"
    /\ pull' = [pull EXCEPT !.pc = IF IsDirty(row) THEN "inspect" ELSE "begin",
                            !.pend = row.pending]
    /\ UNCHANGED <<disk, copies, event, device, rec, push, wantPush, wantPull,
                   remote, up, spent>>
    /\ Mark

\* Not the code: a pending mutation gives way to whatever bytes are pulled.
AnyBytesAlreadyRemote == pull.hash # NoFile

\* isSameEntryPendingMutationAlreadyRemote
AlreadyRemote ==
    /\ pull.pend.hash = pull.hash
    /\ pull.pend.hash # NoFile => disk = pull.pend.hash

PullInspect ==
    /\ pull.pc = "inspect"
    /\ pull' = [pull EXCEPT !.pc = "begin", !.keep = ~AlreadyRemote,
                            !.copy = IF ~AlreadyRemote /\ pull.pend.hash # NoFile
                                     THEN disk ELSE NoFile]
    /\ UNCHANGED <<disk, copies, event, device, rec, push, wantPush, wantPull,
                   remote, up, spent>>
    /\ Mark

\* clearDirtyEntryByMutationId, then clearChangingStorePaths (a tombstone
\* releases the path of the row the planner saw).
PathReleased(r) ==
    IF pull.hash = NoFile /\ CombinedHash(pull.old) # NoFile
    THEN UpsertedRow(pull.old.rev, CombinedHash(pull.old))
    ELSE r
ConflictCleared ==
    IF pull.keep /\ row.pending.id = pull.pend.id
    THEN [row EXCEPT !.pending = NoMutation] ELSE row

PullBegin ==
    /\ pull.pc = "begin"
    /\ \/ /\ pull.copy # NoFile
          /\ pull' = [pull EXCEPT !.pc = "copy", !.snap = row]
          /\ UNCHANGED row
       \/ /\ pull.copy = NoFile
          /\ pull' = [pull EXCEPT !.pc = "vault", !.snap = row]
          /\ row' = PathReleased(ConflictCleared)
    /\ UNCHANGED <<disk, copies, event, cursor, nextId, rec, push, wantPush,
                   wantPull, remote, up, spent>>
    /\ Mark

PullCopy ==
    /\ pull.pc = "copy"
    /\ copies' = copies \cup {pull.copy}
    /\ row' = PathReleased(ConflictCleared)
    /\ pull' = [pull EXCEPT !.pc = "vault"]
    /\ UNCHANGED <<disk, event, cursor, nextId, rec, push, wantPush, wantPull,
                   remote, up, spent>>
    /\ Mark

\* Remove the path of a deleted entry, or write the downloaded bytes.
VaultAfterPull ==
    IF pull.hash = NoFile
    THEN IF CombinedHash(pull.old) # NoFile THEN NoFile ELSE disk
    ELSE IF pull.skip THEN disk ELSE pull.hash

PullVault ==
    /\ pull.pc = "vault"
    /\ disk' = VaultAfterPull
    /\ event' = (event \/ disk' # disk)
    /\ pull' = [pull EXCEPT !.pc = "store"]
    /\ UNCHANGED <<copies, device, rec, push, wantPush, wantPull, remote, up, spent>>
    /\ Mark

PullStore ==
    /\ pull.pc = "store"
    /\ row' = UpsertedRow(pull.rev, pull.hash)
    /\ pull' = [pull EXCEPT !.pc = "checkpoint"]
    /\ UNCHANGED <<disk, copies, event, cursor, nextId, rec, push, wantPush,
                   wantPull, remote, up, spent>>
    /\ Mark

\* Not the code: the checkpoint is the server's cursor of now.
PullCheckpointLatest ==
    /\ pull.pc = "checkpoint"
    /\ cursor' = server.cursor
    /\ pull' = PullIdle
    /\ UNCHANGED <<disk, copies, event, row, nextId, rec, push, wantPush,
                   wantPull, remote, up, spent>>
    /\ Mark

PullCheckpoint ==
    /\ pull.pc = "checkpoint"
    /\ cursor' = IF pull.target > cursor THEN pull.target ELSE cursor
    /\ pull' = PullIdle
    /\ UNCHANGED <<disk, copies, event, row, nextId, rec, push, wantPush,
                   wantPull, remote, up, spent>>
    /\ Mark

PullFails ==
    /\ pull.pc \in {"planned", "prepare", "inspect"}
    /\ Spend("faults", MaxFaults)
    /\ pull' = PullIdle
    /\ wantPull' = TRUE
    /\ UNCHANGED <<disk, copies, event, device, rec, push, wantPush, remote, up>>
    /\ Mark

\* restoreManifestEntries and restoreDirtyEntries put the snapshot back.
PullVaultFails ==
    /\ pull.pc = "vault"
    /\ Spend("faults", MaxFaults)
    /\ row' = pull.snap
    /\ pull' = PullIdle
    /\ wantPull' = TRUE
    /\ UNCHANGED <<disk, copies, event, cursor, nextId, rec, push, wantPush,
                   remote, up>>
    /\ Mark

Pull == \/ PullFetch \/ PullPlan \/ PullPrepare \/ PullInspect \/ PullBegin
        \/ PullCopy \/ PullVault \/ PullStore \/ PullCheckpoint

-----------------------------------------------------------------------------
(* The other devices and the server's notifications. *)

\* Another device creates the entry only while this one has nothing at its path.
NothingHere == row = EmptyRow /\ disk = NoFile /\ DrainIdle /\ LocalQuiet

RemoteChange(hash) ==
    /\ server.hash # hash
    /\ server.rev = 0 => NothingHere
    /\ Spend("remote", MaxRemote)
    /\ server' = [rev |-> server.rev + 1, hash |-> hash, body |-> hash,
                  seq |-> server.cursor + 1, cursor |-> server.cursor + 1]
    /\ published' = published \cup ({hash} \ {NoFile})
    /\ UNCHANGED <<disk, copies, event, device, rec, drain, accepted, limited, up>>
    /\ Mark

\* Another entry of the vault changes.
RemoteElsewhere ==
    /\ Spend("remote", MaxRemote)
    /\ server' = [server EXCEPT !.cursor = @ + 1]
    /\ UNCHANGED <<disk, copies, event, device, rec, drain, accepted, published,
                   limited, up>>
    /\ Mark

\* unblockFileSizeBlockedMutations: what the policy no longer refuses is
\* pending again.
Unblocked(r) == IF limited' THEN r
                ELSE [r EXCEPT !.pending.blocked = FALSE]

\* The server raises its file size limit and tells its sessions.
PolicyUpdated ==
    /\ up /\ limited /\ LocalMayRun
    /\ limited' = FALSE
    /\ row' = Unblocked(row)
    /\ wantPush' = (wantPush \/ row.pending.blocked)
    /\ UNCHANGED <<disk, copies, event, cursor, nextId, rec, push, pull, wantPull,
                   server, accepted, published, up, spent>>
    /\ Mark

\* onCursorAdvanced, or a session that opens behind the server's cursor.
Notify ==
    /\ up /\ server.cursor > cursor /\ ~wantPull
    /\ wantPull' = TRUE
    /\ UNCHANGED <<disk, copies, event, device, rec, push, pull, wantPush,
                   remote, up, spent>>
    /\ Mark

-----------------------------------------------------------------------------
(* Crash and restart. *)

\* A tombstone being applied has released its path: the file a crash leaves
\* behind is picked up as another entry, which this module does not have.
ReleasedTombstone == pull.pc \in {"vault", "store"} /\ pull.hash = NoFile

Crash ==
    /\ up
    /\ ~ReleasedTombstone
    /\ rec.pc = "encryptDelete" => "delete" \in CrashWindows
    /\ Spend("faults", MaxFaults)
    /\ up' = FALSE
    /\ event' = FALSE
    /\ rec' = RecIdle /\ push' = PushIdle /\ pull' = PullIdle
    /\ wantPush' = FALSE /\ wantPull' = FALSE
    /\ \/ UNCHANGED <<row, nextId>>
       \/ /\ "upsert" \in CrashWindows
          /\ rec.pc = "encrypt"   \* after replaceDirtyEntry, before applyLocalState
          /\ row' = [row EXCEPT !.pending = NewMutation(rec.hash, rec.base)]
          /\ nextId' = nextId + 1
    /\ UNCHANGED <<disk, copies, cursor, remote>>
    /\ Mark

\* Start-up reconciles the vault with the store before the drain starts, then
\* asks for a pull and a push (syncNow).  A file of the recorded time and size
\* is taken for the recorded one without a look (canSkipHash), which is right
\* as long as no write keeps both.
ReconcileUpsert == disk # NoFile /\ ~(row.local = disk /\
                     ~(IsDirty(row) /\ row.pending.hash = NoFile))

\* Not the code: the reconcile does not look for missing files.
ReconcileNoDelete == FALSE
ReconcileDelete == disk = NoFile /\ row.local \in Content

Restart ==
    /\ ~up
    /\ up' = TRUE
    /\ wantPush' = TRUE /\ wantPull' = TRUE
    /\ limited' \in {limited, FALSE}   \* as the policy of the new session says
    /\ \/ /\ ReconcileUpsert \/ (ReconcileDelete /\ row.rev > 0)
          /\ row' = [row EXCEPT !.pending = NewMutation(disk, row.rev),
                                !.local = disk]
          /\ nextId' = nextId + 1
       \/ /\ ReconcileDelete /\ row.rev = 0
          /\ row' = EmptyRow
          /\ UNCHANGED nextId
       \/ /\ ~ReconcileUpsert /\ ~ReconcileDelete
          /\ row' = Unblocked(row)
          /\ UNCHANGED nextId
    /\ UNCHANGED <<disk, copies, event, cursor, rec, push, pull, server,
                   accepted, published, spent>>
    /\ Mark

-----------------------------------------------------------------------------
(* The device either knows the entry, in step with the server, or neither  *)
(* has it yet.                                                             *)

Init ==
    /\ copies = {} /\ event = FALSE /\ up = TRUE /\ beside = {}
    /\ rec = RecIdle /\ push = PushIdle /\ pull = PullIdle
    /\ wantPush = FALSE /\ wantPull = FALSE
    /\ accepted = <<>> /\ nextId = 1 /\ limited = (TooLarge # {})
    /\ spent = [edits |-> 0, remote |-> 0, faults |-> 0]
    /\ \/ /\ disk = NoFile /\ row = EmptyRow /\ cursor = 0 /\ published = {}
          /\ server = [rev |-> 0, hash |-> NoFile, body |-> NoFile,
                       seq |-> 0, cursor |-> 0]
       \/ \E c \in Content :
            /\ disk = c /\ row = UpsertedRow(1, c) /\ cursor = 1
            /\ published = {c}
            /\ server = [rev |-> 1, hash |-> c, body |-> c, seq |-> 1, cursor |-> 1]

Environment == \/ \E c \in Content : UserWrite(c)
               \/ UserRemove
               \/ \E hash \in File : RemoteChange(hash)
               \/ RemoteElsewhere \/ PolicyUpdated
               \/ PushFails \/ PullFails \/ PullVaultFails
               \/ Crash

Next == Recorder \/ Push \/ Pull \/ Notify \/ Restart \/ Environment

Spec == Init /\ [][Next]_vars

(***************************************************************************)
(* The process goes on: timers re-run the drain after a failure, the       *)
(* watcher delivers its events, a dead process is started again.  Not even *)
(* which of these comes first is assumed, and nothing of the user, the     *)
(* other devices or failures.                                              *)
(***************************************************************************)
Fairness == WF_vars(Recorder \/ Push \/ Pull \/ Notify \/ Restart)

FairSpec == Spec /\ Fairness
-----------------------------------------------------------------------------
(* Properties. *)

\* The shape of the state.
TypeOK ==
    /\ disk \in File /\ copies \subseteq Content
    /\ event \in BOOLEAN /\ up \in BOOLEAN
    /\ wantPush \in BOOLEAN /\ wantPull \in BOOLEAN
    /\ row \in Row /\ cursor \in Nat /\ nextId \in Nat
    /\ rec \in [pc : {"idle", "hash", "encrypt", "encryptDelete"},
                hash : File, base : Nat]
    /\ push.pc \in {"idle", "list", "read", "requeue", "upload", "refused",
                    "ready", "answered", "plan", "apply"}
    /\ push.mut \in Mutation /\ push.bytes \in File /\ push.acked \subseteq Nat
    /\ pull.pc \in {"idle", "planned", "prepare", "inspect", "begin", "copy",
                    "vault", "store", "checkpoint"}
    /\ pull.old \in Row /\ pull.snap \in Row /\ pull.pend \in Mutation
    /\ server \in [rev : Nat, hash : File, body : File, seq : Nat, cursor : Nat]
    /\ published \subseteq Content /\ limited \in BOOLEAN

\* The cursor never passes a change of the entry the device has not applied:
\* a pull from the cursor would never be told of it again.
CursorCoversOnlyApplied == server.seq <= cursor => row.rev = server.rev

\* A commit is rejected as stale because its base is behind the server, never
\* ahead of it, and the pull that follows resolves it (the change that made it
\* stale lies beyond the cursor) unless local work has run beside a push or a
\* pull: the recorder may base a mutation on a revision it read before an
\* acceptance was applied (isPullResolvableStaleRevision).
StaleIsPullable ==
    push.pc = "answered" /\ push.result = "stale" =>
        push.mut.base < server.rev /\ (beside = {} => server.seq > cursor)

\* The server never holds bytes whose hash is not the one the entry claims.
PublishedBytesMatchHash == server.rev > 0 => server.body = server.hash

\* A pull replaces or removes a file only when its content was published by
\* some device or is kept in a conflict copy.
PullLosesNothing ==
    [][pull.pc = "vault" /\ disk' # disk
         => disk \in published \cup copies \cup {NoFile}]_vars

\* What is lost so is lost to local work that ran beside a push or a pull since
\* the entry was at rest.
LossTakesOverlap ==
    [][pull.pc = "vault" /\ disk' # disk /\ beside = {}
         => disk \in published \cup copies \cup {NoFile}]_vars

\* An edit that is pending and is still what the file holds leaves the store
\* only when it is published, copied, or replaced by a later pending mutation,
\* unless local work has run beside a pull.
PendingEditSurvives ==
    [][IsDirty(row) /\ row.pending.hash \in Content /\ row.pending.hash = disk
         => \/ IsDirty(row')
            \/ row.pending.hash \in published' \cup copies'
            \/ disk' # disk
            \/ "pull" \in beside]_vars

\* Once the users stop, the file, the row and the server come to agree, but
\* for an edit the file size limit holds back.
Agreed == /\ disk = server.hash /\ row.rev = server.rev
          /\ (server.rev > 0 => row.hash = disk /\ row.local = disk)
          /\ ~IsDirty(row)
HeldBack == limited /\ row.pending.blocked /\ row.pending.hash \in TooLarge
Converges == <>[](up /\ (Agreed \/ HeldBack))
=============================================================================
