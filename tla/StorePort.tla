----------------------------- MODULE StorePort -----------------------------
(***************************************************************************)
(* What the sync store promises: one record per entry (its remote, base    *)
(* and local state and its pending mutation) and what each call makes of   *)
(* it, as the reference store has it on which the tests run.  In two       *)
(* points store.test.ts asks for more than the reference gives: a path has *)
(* one owner, and a call that throws changes nothing, an update of several *)
(* entries included.  In a third the two stores differ, and MovesBase says *)
(* which one is meant.  A call throws for a reason, which the outcome      *)
(* names and which must be there.                                          *)
(*                                                                         *)
(* A hash stands for a content, its blob and the blob's id.  A pending     *)
(* mutation carries the path in its encrypted metadata and the revision    *)
(* that metadata was encrypted for.                                        *)
(***************************************************************************)
EXTENDS Integers, Sequences

CONSTANTS
    Entry, Path, Hash, None,
    MaxRev,    \* revisions other devices reach
    MovesBase  \* does marking an entry in the reconcile move its base: not in the reference

VARIABLES
    entries,    \* the entries the store knows
    cached,     \* the blobs it keeps
    connection, \* lastPulledCursor, None without a connection
    batch,      \* the accepted pushes of a call in progress
    outcome     \* what the last call came to: no error, or why it threw

portVars == <<entries, cached, connection, batch, outcome>>

NoError == [error |-> "none"]
Clash(e, s, f, t) == [error |-> "path", entry |-> e, state |-> s, other |-> f, has |-> t]
BaseMissing(m) == [error |-> "base", mutation |-> m]
Unconnected == [error |-> "not connected"]
Overtaken(e) == [error |-> "changed", entry |-> e]

Done(rest) == outcome' = NoError /\ UNCHANGED rest

HashOf(deleted) == IF deleted THEN {None} ELSE Hash
RemoteRows == UNION {[path : Path, rev : 1..MaxRev, hash : HashOf(d), deleted : {d}] : d \in BOOLEAN}
LocalRows == UNION {[path : Path, hash : HashOf(d), deleted : {d}] : d \in BOOLEAN}

NewState == [remote |-> None, base |-> [path |-> None, rev |-> 0, hash |-> None, deleted |-> TRUE],
             local |-> None, dirty |-> None]

StateOf(e) == IF e \in DOMAIN entries THEN entries[e] ELSE NewState  \* getOrCreateEntry

PutEntry(es, e, s) == [f \in DOMAIN es \cup {e} |-> IF f = e THEN s ELSE es[f]]
Without(es, e) == [f \in DOMAIN es \ {e} |-> es[f]]

(* What a caller may give: a mutation it makes or took earlier, based on what
   it knew then, its metadata encrypted for the revision it makes. *)
Mutations ==
    [id : Nat, op : {"upsert", "delete"}, status : {"pending", "blocked"}, path : Path,
     hash : Hash \cup {None}, rev : Nat, forRev : Nat, baseHash : Hash \cup {None}]
Readable(m) == m \in Mutations /\ m.forRev = m.rev + 1

(* assertRequiredBaseBlob *)
BaseIsCached(m) == m.baseHash = None \/ m.baseHash \in cached

Visible(row, p) == row # None /\ row.path = p /\ ~row.deleted

Shares(s, t) ==  \* two entries in these states would own one path
    \E p \in Path : \/ Visible(s.local, p) /\ Visible(t.local, p)
                    \/ Visible(s.remote, p) /\ Visible(t.remote, p)

(* The entry becomes s, unless another one has a path of it. *)
Puts(e, s) ==
    \/ /\ outcome' = NoError /\ entries' = PutEntry(entries, e, s)
       /\ \A f \in DOMAIN entries \ {e} : ~Shares(s, entries[f])
    \/ /\ entries' = entries
       /\ \E f \in DOMAIN entries \ {e} :
             outcome' = Clash(e, s, f, entries[f]) /\ Shares(s, entries[f])

-----------------------------------------------------------------------------
(* The queries. *)

Shown(s) == IF s.local # None THEN s.local ELSE s.remote  \* toCombinedEntry

EntryByPath(p) ==
    LET local == {e \in DOMAIN entries : Visible(entries[e].local, p)}
        remote == {e \in DOMAIN entries : Visible(entries[e].remote, p)}
    IN IF local # {} THEN local
       ELSE {e \in remote : entries[e].local = None \/ entries[e].local.path = p}

Listed(status) == {e \in DOMAIN entries : entries[e].dirty # None /\ entries[e].dirty.status = status}

(* countSyncProgress *)
Counted ==
    {e \in DOMAIN entries :
        \/ entries[e].dirty # None
        \/ Shown(entries[e]) # None /\ ~Shown(entries[e]).deleted}
Completed ==
    {e \in Counted : entries[e].remote # None /\ entries[e].remote.rev > 0 /\ entries[e].dirty = None}

-----------------------------------------------------------------------------
PortInit ==
    /\ entries = << >> /\ cached = {} /\ connection = None
    /\ batch = << >> /\ outcome = NoError

EnsureEntry ==
    /\ \E e \in Entry : Puts(e, StateOf(e))
    /\ UNCHANGED <<cached, connection, batch>>

RemoteToBase(r) == [path |-> r.path, rev |-> r.rev, hash |-> r.hash, deleted |-> r.deleted]

ApplyRemoteState ==
    /\ \E e \in Entry, r \in RemoteRows : LET s == StateOf(e) IN
          Puts(e, [s EXCEPT !.remote = r, !.base = IF s.dirty = None THEN RemoteToBase(r) ELSE @])
    /\ UNCHANGED <<cached, connection, batch>>

ApplyLocalState ==
    /\ \E e \in Entry, l \in LocalRows : Puts(e, [StateOf(e) EXCEPT !.local = l])
    /\ UNCHANGED <<cached, connection, batch>>

Removes(e) == entries' = Without(entries, e) /\ outcome' = NoError

(* An entry of which nothing is known any more goes. *)
Keep(e, s) ==
    IF s.remote = None /\ s.local = None /\ s.dirty = None THEN Removes(e) ELSE Puts(e, s)

ClearState ==
    /\ \E e \in DOMAIN entries :
          \/ Keep(e, [entries[e] EXCEPT !.remote = None])
          \/ Keep(e, [entries[e] EXCEPT !.local = None])
    /\ UNCHANGED <<cached, connection, batch>>

UpsertEntry ==
    /\ \E e \in Entry, r \in RemoteRows :
          Puts(e, [remote |-> r, base |-> RemoteToBase(r), dirty |-> None,
                   local |-> [path |-> r.path, hash |-> r.hash, deleted |-> r.deleted]])
    /\ UNCHANGED <<cached, connection, batch>>

DeleteEntry ==
    /\ \E e \in DOMAIN entries : Removes(e)
    /\ UNCHANGED <<cached, connection, batch>>

DirtyBase(s, m) ==
    [path |-> IF s.remote = None THEN s.base.path ELSE s.remote.path,
     deleted |-> IF s.remote = None THEN s.base.deleted ELSE s.remote.deleted,
     rev |-> m.rev, hash |-> m.baseHash]
Dirtied(s, m) == [s EXCEPT !.dirty = m, !.base = DirtyBase(s, m)]

Refuses(why) == entries' = entries /\ outcome' = why

\* The mutations the outcome of a step speaks of: the one a call was given is among them.
Told ==
    {entries'[e].dirty : e \in DOMAIN entries'}
      \cup {CASE outcome'.error = "path" -> outcome'.state.dirty
              [] outcome'.error = "base" -> outcome'.mutation
              [] OTHER -> None}

(* markEntryDirty, replaceDirtyEntry, updateDirtyEntry *)
MarkEntryDirty ==
    /\ \E e \in Entry, m \in {x \in Told : Readable(x)} :
          \/ Puts(e, Dirtied(StateOf(e), m))
          \/ ~BaseIsCached(m) /\ Refuses(BaseMissing(m))
    /\ UNCHANGED <<cached, connection, batch>>

UnblockDirtyEntriesByReason ==
    /\ entries' = [e \in DOMAIN entries |->
          IF e \in Listed("blocked") THEN [entries[e] EXCEPT !.dirty.status = "pending"] ELSE entries[e]]
    /\ Done(<<cached, connection, batch>>)

(* clearDirtyEntryByMutationId, markEntryClean *)
MarkEntryClean ==
    /\ \E e \in DOMAIN entries : Puts(e, [entries[e] EXCEPT !.dirty = None])
    /\ UNCHANGED <<cached, connection, batch>>

(* applyReconcileEntryUpdates: several entries in one call.  What it may make
   of an entry in state s: *)
Becomes(s, t) ==
    /\ t.remote = s.remote /\ t.local \in {s.local} \cup LocalRows
    /\ \/ t.dirty \in {s.dirty, None} /\ t.base = s.base
       \/ Readable(t.dirty) /\ t.base = IF MovesBase THEN DirtyBase(s, t.dirty) ELSE s.base

ApplyReconcileEntryUpdates ==
    /\ DOMAIN entries' \subseteq Entry
    /\ \A e \in DOMAIN entries' : Becomes(StateOf(e), entries'[e])
    /\ \A e, f \in DOMAIN entries' : e # f => ~Shares(entries'[e], entries'[f])
    /\ Done(<<cached, connection, batch>>)

(* It throws for a state that shares a path with what another entry is, or is
   made by the same call, or for a base that is not cached. *)
RefuseReconcile ==
    /\ \/ /\ outcome'.error = "path"
          /\ \E e, f \in Entry : LET s == outcome'.state t == outcome'.has IN
                /\ outcome' = Clash(e, s, f, t) /\ e # f /\ Shares(s, t)
                /\ Becomes(StateOf(e), s) /\ Becomes(StateOf(f), t)
       \/ \E m \in {x \in Told : Readable(x)} : ~BaseIsCached(m) /\ outcome' = BaseMissing(m)
    /\ UNCHANGED <<entries, cached, connection, batch>>

PutBlob ==
    /\ \E h \in Hash : cached' = cached \cup {h}
    /\ Done(<<entries, connection, batch>>)

(* writeSyncConnection; setCursor, which needs a connection *)
WriteSyncConnection ==
    /\ connection' \in 0..MaxRev
    /\ Done(<<entries, cached, batch>>)

SetCursorWithout ==
    /\ connection = None /\ outcome' = Unconnected
    /\ UNCHANGED <<entries, cached, connection, batch>>

-----------------------------------------------------------------------------
(* applyAcceptedPushBatch *)

Accepted(s, item) ==
    LET m == item.mutation
        r == [path |-> item.path, rev |-> item.rev, hash |-> m.hash, deleted |-> m.op = "delete"]
        follows == /\ m.op = "upsert"
                   /\ s.local # None => s.local.hash = m.hash /\ s.local.path = item.path
        settled == s.dirty = None \/ s.dirty.id = m.id
    IN [remote |-> r, base |-> RemoteToBase(r),
        local |-> IF follows THEN [path |-> item.path, hash |-> m.hash, deleted |-> FALSE]
                  ELSE s.local,
        dirty |-> IF settled THEN None
                  ELSE [s.dirty EXCEPT !.rev = item.rev, !.baseHash = m.hash, !.forRev = item.rev + 1]]

ItemsOf(e) == {i \in DOMAIN batch : batch[i].entry = e}

BeginBatch ==
    /\ batch = << >> /\ batch' # << >>
    /\ UNCHANGED <<entries, cached, connection, outcome>>

AcceptedOf(e) ==
    IF ItemsOf(e) = {} THEN entries[e]
    ELSE Accepted(StateOf(e), batch[CHOOSE i \in ItemsOf(e) : TRUE])

BatchApplied ==
    /\ batch # << >> /\ batch' = << >>
    /\ entries' = [e \in DOMAIN entries \cup {batch[i].entry : i \in DOMAIN batch} |-> AcceptedOf(e)]
    /\ \A e, f \in DOMAIN entries' : e # f => ~Shares(entries'[e], entries'[f])
    /\ \E S \in SUBSET {batch[i].mutation.hash : i \in DOMAIN batch} : cached' = cached \cup (S \ {None})
    /\ Done(connection)

(* It throws for an entry whose accepted state shares a path with what another
   one is or is accepted as, or that has a newer mutation by then. *)
RefuseBatch ==
    /\ batch # << >> /\ batch' = << >>
    /\ \/ \E i \in DOMAIN batch : LET e == batch[i].entry IN
             \/ \E f \in DOMAIN entries \cup {batch[j].entry : j \in DOMAIN batch} :
                   /\ f # e
                   /\ \E t \in {StateOf(f), AcceptedOf(f)} :
                         Shares(AcceptedOf(e), t) /\ outcome' = Clash(e, AcceptedOf(e), f, t)
             \/ /\ StateOf(e).dirty # None /\ StateOf(e).dirty.id # batch[i].mutation.id
                /\ outcome' = Overtaken(e)
    /\ UNCHANGED <<entries, cached, connection>>

PortNext ==
    \/ BatchApplied \/ RefuseBatch \/ BeginBatch
    \/ ApplyReconcileEntryUpdates \/ RefuseReconcile
    \/ PutBlob \/ WriteSyncConnection \/ SetCursorWithout \/ ClearState \/ DeleteEntry
    \/ MarkEntryClean \/ UnblockDirtyEntriesByReason \/ EnsureEntry \/ ApplyLocalState
    \/ ApplyRemoteState \/ UpsertEntry \/ MarkEntryDirty

PortSpec == PortInit /\ [][PortNext]_portVars
=============================================================================
