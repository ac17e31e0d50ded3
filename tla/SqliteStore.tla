---------------------------- MODULE SqliteStore ----------------------------
(***************************************************************************)
(* The command line's sync store: one SQLite row per entry, with flags for *)
(* what is known, the pending mutation's columns, and the paths by which   *)
(* an entry is found, unique among the rows.  A put that would give two    *)
(* rows one path raises, and its transaction is rolled back.               *)
(*                                                                         *)
(* Calls are synchronous and one step each, but for the acceptance of a    *)
(* pushed batch, which prepares its plans (encryption) outside of the      *)
(* transaction that verifies them.                                         *)
(***************************************************************************)
EXTENDS EntryRows, Integers, Sequences, FiniteSets, SequencesExt

CONSTANTS
    Entry, Path, Hash,
    MaxRev,    \* revisions other devices reach
    MaxId,     \* mutations made
    MaxCalls,  \* bound on calls
    MaxTries,  \* ACCEPTED_PUSH_BATCH_MAX_RETRIES
    Offered    \* the calls that are made

HashOf(deleted) == IF deleted THEN {None} ELSE Hash
RemoteState == [path : Path, rev : Nat, hash : Hash \cup {None}, deleted : BOOLEAN]
LocalState == [path : Path, hash : Hash \cup {None}, deleted : BOOLEAN]
Mutation == [id : Nat, op : {"upsert", "delete"}, status : {"pending", "blocked"}, path : Path,
             hash : Hash \cup {None}, rev : Nat, forRev : Nat, baseHash : Hash \cup {None}]
Plan == [id : Nat, path : Path, forRev : Nat]

ASSUME SqliteStoreAssumption ==
    /\ None \notin Entry \cup Path \cup Hash /\ IsFiniteSet(Entry)
    /\ None \notin RemoteState \cup LocalState \cup Mutation \cup Plan
    /\ None \notin [entry : Entry, mutation : Mutation]
    /\ MaxRev \in Nat \ {0} /\ MaxId \in Nat /\ MaxCalls \in Nat /\ MaxTries \in Nat \ {0}

VARIABLES
    rows,     \* the table entries
    blobs,    \* the table blobs
    metadata, \* the remote vault's cursor, None before it is connected
    call,     \* applyAcceptedPushBatch in progress
    taken,    \* a mutation a caller read, to write it back later
    result,   \* what the last call came to: no error, or why it threw
    nextId,   \* the next mutation id
    calls

storeVars == <<rows, blobs, metadata, call, taken, result, nextId, calls>>

NoCall == [phase |-> "none", items |-> << >>, plans |-> << >>, attempt |-> 0]

(* assertRequiredBaseBlob *)
BaseIsMissing(m) == m.baseHash # None /\ m.baseHash \notin blobs

-----------------------------------------------------------------------------
(* What the callers pass. *)

RemoteRows == UNION {[path : Path, rev : 1..MaxRev, hash : HashOf(d), deleted : {d}] : d \in BOOLEAN}
LocalRows == UNION {[path : Path, hash : HashOf(d), deleted : {d}] : d \in BOOLEAN}

(* A new mutation starts from the remote state, as it is or as it was when the
   caller read it: the base of what is pending, or of a mutation taken earlier. *)
Bases(e) ==
    LET row == RowOf(rows, e) IN
    {[rev |-> row.remote.rev, hash |-> row.remote.hash], [rev |-> row.base.rev, hash |-> row.base.hash]}
      \cup {[rev |-> t.mutation.rev, hash |-> t.mutation.baseHash] : t \in {x \in {taken} \ {None} : x.entry = e}}

MutationsFrom(id, bases) ==
    {[id |-> id, op |-> op, status |-> "pending", path |-> p,
      hash |-> IF op = "delete" THEN None ELSE h,
      rev |-> b.rev, forRev |-> b.rev + 1, baseHash |-> b.hash] :
        op \in {"upsert", "delete"}, p \in Path, h \in Hash, b \in bases}
NewMutations(id, e) == MutationsFrom(id, Bases(e))

Counts(name, n) == name \in Offered /\ calls + n <= MaxCalls /\ calls' = calls + n
Calls(name) == Counts(name, 1)

NoError == [error |-> "none"]
BaseMissing(m) == [error |-> "base", mutation |-> m]

(* The rows as the port shows them: toEntryStateRow. *)
Shown(row) ==
    [remote |-> IF row.remote.known
                THEN [path |-> row.remote.path, rev |-> row.remote.rev,
                      hash |-> row.remote.hash, deleted |-> row.remote.deleted] ELSE None,
     base |-> row.base,
     local |-> IF row.local.known
               THEN [path |-> row.local.path, hash |-> row.local.hash, deleted |-> row.local.deleted]
               ELSE None,
     dirty |-> Pending(row)]

(* Why a put raises: another row has the key. *)
ClashOf(rs, e, row) ==
    LET f == CHOOSE f \in DOMAIN rs \ {e} : Collides(Normalized(row), rs[f])
    IN [error |-> "path", entry |-> e, state |-> Shown(row), other |-> f, has |-> Shown(rs[f])]

(* A call that writes rs, in a transaction of its own, or fails and says why. *)
Write(rs, why) ==
    /\ IF rs = Raised THEN result' = why /\ rows' = rows ELSE result' = NoError /\ rows' = rs
    /\ UNCHANGED <<blobs, metadata, call>>
PutRow(e, row) == Write(Put(rows, e, row), ClashOf(rows, e, row))
DropRow(e) == Write(Drop(rows, e), NoError)

-----------------------------------------------------------------------------
StoreInit ==
    /\ rows = << >> /\ blobs = {} /\ metadata = None /\ call = NoCall
    /\ taken = None /\ result = NoError /\ nextId = 1 /\ calls = 0

EnsureEntry ==
    /\ Calls("ensure")
    /\ \E e \in Entry : PutRow(e, RowOf(rows, e))
    /\ UNCHANGED <<nextId, taken>>

ApplyRemoteState ==
    /\ Calls("remote")
    /\ \E e \in Entry, r \in RemoteRows :
          LET updated == [RowOf(rows, e) EXCEPT !.remote = Known(r)]
          IN PutRow(e, IF updated.dirty THEN updated ELSE CopyRemoteToBase(updated))
    /\ UNCHANGED <<nextId, taken>>

ApplyLocalState ==
    /\ Calls("local")
    /\ \E e \in Entry, l \in LocalRows :
          PutRow(e, [RowOf(rows, e) EXCEPT !.local = KnownLocal(l)])
    /\ UNCHANGED <<nextId, taken>>

ClearRemoteState ==
    /\ Calls("clear")
    /\ \E e \in DOMAIN rows :
          LET updated == [rows[e] EXCEPT !.remote = RowOf(<< >>, e).remote] IN
          IF ~updated.local.known /\ ~updated.dirty THEN DropRow(e) ELSE PutRow(e, updated)
    /\ UNCHANGED <<nextId, taken>>

ClearLocalState ==
    /\ Calls("clear")
    /\ \E e \in DOMAIN rows :
          LET updated == [rows[e] EXCEPT !.local = RowOf(<< >>, e).local] IN
          IF ~updated.remote.known /\ ~updated.dirty THEN DropRow(e) ELSE PutRow(e, updated)
    /\ UNCHANGED <<nextId, taken>>

UpsertEntry ==
    /\ Calls("upsert")
    /\ \E e \in Entry, r \in RemoteRows :
          PutRow(e, CopyRemoteToBase(
             [RowOf(<< >>, e) EXCEPT !.remote = Known(r), !.local = KnownLocal(r)]))
    /\ UNCHANGED <<nextId, taken>>

DeleteEntry ==
    /\ Calls("delete")
    /\ \E e \in DOMAIN rows : DropRow(e)
    /\ UNCHANGED <<nextId, taken>>

(* markEntryDirty, replaceDirtyEntry: a new mutation *)
MarkEntryDirty ==
    /\ Calls("mark") /\ nextId <= MaxId /\ nextId' = nextId + 1
    /\ \E e \in Entry, required \in BOOLEAN : \E m \in NewMutations(nextId, e) :
          IF required /\ BaseIsMissing(m) THEN Write(Raised, BaseMissing(m))
          ELSE PutRow(e, ToDirty(RowOf(rows, e), m))
    /\ UNCHANGED taken

(* A caller reads a mutation, to push it, to replace it or to put it back. *)
TakeDirty ==
    /\ "block" \in Offered
    /\ \E e \in DOMAIN rows :
          Pending(rows[e]) # None /\ taken' = [entry |-> e, mutation |-> rows[e].pending]
    /\ UNCHANGED <<rows, blobs, metadata, call, result, nextId, calls>>

(* updateDirtyEntry, markEntryDirty: it writes it back, blocked or as it was,
   whatever has been queued or accepted since *)
UpdateDirtyEntry ==
    /\ Calls("block") /\ taken # None
    /\ \E status \in {taken.mutation.status, "blocked"} : LET e == taken.entry IN
          PutRow(e, ToDirty(RowOf(rows, e), [taken.mutation EXCEPT !.status = status]))
    /\ taken' = None /\ UNCHANGED nextId

Queued == {e \in DOMAIN rows : rows[e].pending # None /\ rows[e].pending.status = "pending"}
Blocked == {e \in DOMAIN rows : rows[e].pending # None /\ rows[e].pending.status = "blocked"}

UnblockDirtyEntriesByReason ==
    /\ Calls("block")
    /\ Write([e \in DOMAIN rows |->  \* no path changes, so none of the puts raises
                 IF e \in Blocked THEN Normalized([rows[e] EXCEPT !.pending.status = "pending"])
                 ELSE rows[e]], NoError)
    /\ UNCHANGED <<nextId, taken>>

(* clearDirtyEntryByMutationId, markEntryClean *)
MarkEntryClean ==
    /\ Calls("clean")
    /\ \E e \in DOMAIN rows : PutRow(e, ClearPending(rows[e]))
    /\ UNCHANGED <<nextId, taken>>

-----------------------------------------------------------------------------
(* applyReconcileEntryUpdates *)

NoMutation == None
Update(e, kind, m, local) == [entry |-> e, kind |-> kind, dirty |-> m, local |-> local]

\* The file the reconcile made the mutation of.
Found(m) == [path |-> m.path, hash |-> m.hash, deleted |-> m.op = "delete"]

DirtyKinds == {"dirty", "dirty with its base"}  \* the second is refused without the base's blob

(* What the reconcile asks for: a missing file or an entry that is adopted as
   it is, one that is no longer synced, a changed or new file. *)
Settling(e) == {Update(e, kind, NoMutation, None) : kind \in {"delete", "clean"}}
Keeping(e) == {Update(e, "keep", NoMutation, l) : l \in LocalRows}
Marking(e, id) ==
    {Update(e, kind, m, Found(m)) : kind \in DirtyKinds, m \in NewMutations(id, e)}

UpdatesOf(e, id) == Settling(e) \cup Keeping(e) \cup Marking(e, id)

RowMade(row, u) ==
    LET marked == IF u.kind = "clean" THEN ClearPending(row)
                  ELSE IF u.dirty # NoMutation THEN ToDirty(row, u.dirty) ELSE row
    IN IF u.local = None THEN marked ELSE [marked EXCEPT !.local = KnownLocal(u.local)]

Unfounded(u) == u.kind = "dirty with its base" /\ BaseIsMissing(u.dirty)

Updated(rs, u) ==
    IF rs = Raised \/ Unfounded(u) THEN Raised
    ELSE IF u.kind = "delete" THEN Drop(rs, u.entry)
    ELSE Put(rs, u.entry, RowMade(RowOf(rs, u.entry), u))

Refusal(rs, u) ==
    IF Unfounded(u) THEN BaseMissing(u.dirty) ELSE ClashOf(rs, u.entry, RowMade(RowOf(rs, u.entry), u))

ApplyReconcileEntryUpdates ==
    /\ Counts("reconcile", 2) /\ nextId < MaxId /\ nextId' = nextId + 2
    /\ \E e, f \in Entry : e # f /\
          \E u \in UpdatesOf(e, nextId), v \in UpdatesOf(f, nextId + 1) : LET rs == Updated(rows, u) IN
             Write(Updated(rs, v), IF rs = Raised THEN Refusal(rows, u) ELSE Refusal(rs, v))
    /\ UNCHANGED taken

PutBlob ==
    /\ Calls("blob")
    /\ \E h \in Hash : blobs' = blobs \cup {h}
    /\ result' = NoError /\ UNCHANGED <<rows, metadata, call, nextId, taken>>

(* writeSyncConnection *)
WriteSyncConnection ==
    /\ Calls("connection")
    /\ metadata' \in 0..MaxRev /\ result' = NoError
    /\ UNCHANGED <<rows, blobs, call, nextId, taken>>

SetCursor ==
    /\ Calls("connection")
    /\ IF metadata = None THEN result' = [error |-> "not connected"] /\ UNCHANGED metadata
       ELSE result' = NoError /\ metadata' \in 0..MaxRev
    /\ UNCHANGED <<rows, blobs, call, nextId, taken>>

-----------------------------------------------------------------------------
(* applyAcceptedPushBatch *)

Item(e) == LET m == rows[e].pending IN
    [entry |-> e, mutation |-> m, path |-> m.path, rev |-> m.rev + 1]

(* planAcceptedPushApply: the metadata of a mutation that is newer than the
   accepted one, encrypted again for the accepted revision. *)
PlanForOldBase(item) ==  \* Not the code: the metadata is not encrypted again.
    LET m == Pending(RowOf(rows, item.entry)) IN
    IF m = None \/ m.id = item.mutation.id THEN None
    ELSE [id |-> m.id, path |-> m.path, forRev |-> m.forRev]

PlanFor(item) ==
    LET m == Pending(RowOf(rows, item.entry)) IN
    IF m = None \/ m.id = item.mutation.id THEN None
    ELSE [id |-> m.id, path |-> m.path, forRev |-> item.rev + 1]

Plans(items) == [i \in DOMAIN items |-> PlanFor(items[i])]

(* The server accepts pending mutations, in the order they were made. *)
PushBatch ==
    /\ call = NoCall
    /\ \E es \in SeqOf(Queued, Cardinality(Queued)) :
          /\ es # << >> /\ \A i \in DOMAIN es : rows[es[i]].pending.rev <= MaxRev
          /\ \A i, j \in DOMAIN es : i < j => rows[es[i]].pending.id < rows[es[j]].pending.id
          /\ call' = [NoCall EXCEPT !.phase = "sent", !.items = [i \in DOMAIN es |-> Item(es[i])]]
    /\ UNCHANGED <<rows, blobs, metadata, taken, result, nextId, calls>>

PlanBatch ==
    /\ call.phase = "sent"
    /\ call' = [call EXCEPT !.phase = "planned", !.plans = Plans(call.items), !.attempt = 1]
    /\ UNCHANGED <<rows, blobs, metadata, taken, result, nextId, calls>>

(* applyAcceptedPushToEntry; "retry" when the plan is of another mutation *)
MustRetry(item, plan) ==
    LET m == Pending(RowOf(rows, item.entry)) IN
    m # None /\ m.id # item.mutation.id /\ (plan = None \/ plan.id # m.id)

AcceptedRow(row, item, plan) ==
    LET m == item.mutation
        remote == [row EXCEPT !.remote =
                      [known |-> TRUE, path |-> item.path, rev |-> item.rev,
                       hash |-> m.hash, deleted |-> m.op = "delete"]]
        follows == /\ m.op = "upsert"
                   /\ row.local.known => row.local.hash = m.hash /\ row.local.path = item.path
        updated == IF ~follows THEN remote
                   ELSE [remote EXCEPT !.local =
                            [known |-> TRUE, path |-> item.path, hash |-> m.hash, deleted |-> FALSE]]
        current == Pending(updated)
    IN IF current = None THEN CopyRemoteToBase(updated)
       ELSE IF current.id = m.id THEN CopyRemoteToBase(ClearPending(updated))
       ELSE ToDirty(updated, [current EXCEPT !.rev = item.rev, !.baseHash = m.hash,
                                             !.path = plan.path, !.forRev = plan.forRev])

OnlyUnplanned(items, plans) ==  \* Not the code: a plan is good once made.
    \E i \in DOMAIN items : MustRetry(items[i], plans[i]) /\ plans[i] = None
Outdated(items, plans) == \E i \in DOMAIN items : MustRetry(items[i], plans[i])

AcceptedRows(items, plans) ==  \* after each of the items
    LET applied[i \in 0..Len(items)] ==
            IF i = 0 THEN rows
            ELSE Put(applied[i - 1], items[i].entry,
                     AcceptedRow(RowOf(rows, items[i].entry), items[i], plans[i]))
    IN applied

(* Why the acceptance raises, with rs the rows after each item: a put does. *)
ClashIn(rs, items, plans) ==
    LET i == CHOOSE i \in DOMAIN items : rs[i] = Raised /\ rs[i - 1] # Raised
    IN ClashOf(rs[i - 1], items[i].entry,
               AcceptedRow(RowOf(rows, items[i].entry), items[i], plans[i]))

Overtaken(items) ==
    LET i == CHOOSE i \in DOMAIN items : LET m == Pending(RowOf(rows, items[i].entry)) IN
                m # None /\ m.id # items[i].mutation.id
    IN [error |-> "changed", entry |-> items[i].entry]

Retry ==
    /\ call.attempt < MaxTries
    /\ call' = [call EXCEPT !.plans = Plans(call.items), !.attempt = @ + 1]
    /\ UNCHANGED <<rows, blobs, result>>

GiveUp(why) == call' = NoCall /\ result' = why /\ UNCHANGED <<rows, blobs>>

ApplyBatch ==
    /\ call.phase = "planned"
    /\ IF Outdated(call.items, call.plans)
       THEN Retry \/ (call.attempt >= MaxTries /\ GiveUp(Overtaken(call.items)))
       ELSE LET rs == AcceptedRows(call.items, call.plans)
            IN IF rs[Len(call.items)] = Raised THEN GiveUp(ClashIn(rs, call.items, call.plans))
               ELSE /\ call' = NoCall /\ result' = NoError /\ rows' = rs[Len(call.items)]
                    /\ \E S \in SUBSET ({i.mutation.hash : i \in ToSet(call.items)} \ {None}) :
                          blobs' = blobs \cup S  \* the cached ones: text within its bounds
    /\ UNCHANGED <<metadata, taken, nextId, calls>>

StoreNext ==
    \/ EnsureEntry \/ ApplyRemoteState \/ ApplyLocalState \/ ClearRemoteState \/ ClearLocalState
    \/ UpsertEntry \/ DeleteEntry \/ MarkEntryDirty \/ TakeDirty \/ UpdateDirtyEntry
    \/ UnblockDirtyEntriesByReason \/ MarkEntryClean \/ ApplyReconcileEntryUpdates
    \/ PutBlob \/ WriteSyncConnection \/ SetCursor \/ PushBatch \/ PlanBatch \/ ApplyBatch

StoreSpec == StoreInit /\ [][StoreNext]_storeVars

-----------------------------------------------------------------------------
EntryStates == [e \in DOMAIN rows |-> Shown(rows[e])]

(* countSyncProgress, by the columns *)
Counted == {e \in DOMAIN rows : Pending(rows[e]) # None \/ ~RowDeleted(rows[e])}
Completed == {e \in DOMAIN rows : Pending(rows[e]) = None /\ ~RowDeleted(rows[e])
                                  /\ rows[e].remote.known /\ rows[e].remote.rev > 0}

Port == INSTANCE StorePort WITH
    entries <- EntryStates, cached <- blobs, connection <- metadata,
    batch <- call.items, outcome <- result, MovesBase <- TRUE

-----------------------------------------------------------------------------
(***************************************************************************)
(* Type: what a row holds, and a call that is prepared has a plan for      *)
(* every item (schema.ts, entry-record.ts).                                *)
(***************************************************************************)
StoreTypeOK ==
    /\ DOMAIN rows \subseteq Entry /\ blobs \subseteq Hash
    /\ metadata \in {None} \cup 0..MaxRev /\ nextId \in 1..(MaxId + 2)
    /\ \A e \in DOMAIN rows : LET r == rows[e] IN
          /\ r.dirty <=> r.pending # None
          /\ r.remoteKey \in Path \cup {None} /\ r.localKey \in Path \cup {None}
          /\ ~r.remote.known => r.remote.rev = 0 /\ r.remote.path = None
          /\ r.dirty => r.pending.id < nextId /\ r.pending.rev = r.base.rev
    /\ taken # None => taken.entry \in Entry /\ taken.mutation.id < nextId
    /\ call.phase = "planned" <=> Len(call.plans) > 0
    /\ call.phase = "planned" => Len(call.plans) = Len(call.items)

(***************************************************************************)
(* The queries by column answer as the reference store's: the owner of a   *)
(* path, the queue, the progress; and a path has one owner.                *)
(***************************************************************************)
QueriesAgree ==
    /\ \A p \in Path : OwnersOf(rows, p) = Port!EntryByPath(p) /\ Cardinality(OwnersOf(rows, p)) <= 1
    /\ Queued = Port!Listed("pending") /\ Blocked = Port!Listed("blocked")
    /\ Counted = Port!Counted /\ Completed = Port!Completed

(***************************************************************************)
(* Every call has the effect the port states, or throws for a reason that  *)
(* is there and has none, and between the calls the queries answer as the  *)
(* reference store's: store.test.ts holds the two side by side over two    *)
(* scenarios.  It is the port with MovesBase: marking an entry in the      *)
(* reconcile moves its base, which the reference leaves.                   *)
(***************************************************************************)
StoreKeepsPromise == Port!PortSpec /\ []QueriesAgree

(***************************************************************************)
(* The metadata of a pending mutation can be decrypted: it is encrypted    *)
(* for the revision the mutation makes, through acceptances of older       *)
(* mutations and the plans that race newer ones.                           *)
(***************************************************************************)
MetadataOpens ==
    \A e \in DOMAIN rows : rows[e].dirty => rows[e].pending.forRev = rows[e].pending.rev + 1

(***************************************************************************)
(* An accepted batch is applied when the files are where the rows and the  *)
(* pending mutations say: the local paths differ, so the paths the remote  *)
(* states end up with differ too.  It fails, see the README: an entry may  *)
(* be accepted at the remote path of one whose rename still waits.         *)
(***************************************************************************)
FilesInPlace ==
    \A e \in DOMAIN rows :
       /\ rows[e].local.known /\ ~rows[e].local.deleted
       /\ rows[e].dirty => rows[e].pending.op = "upsert" /\ rows[e].pending.path = rows[e].local.path
       /\ rows[e].remote.known /\ ~rows[e].dirty => rows[e].remote.path = rows[e].local.path

Unchanged == \A i \in DOMAIN call.items : rows[call.items[i].entry].pending = call.items[i].mutation

AcceptedLands ==
    [][ (call.phase = "planned" /\ call' = NoCall /\ FilesInPlace /\ Unchanged)
        => result' = NoError ]_storeVars
=============================================================================
