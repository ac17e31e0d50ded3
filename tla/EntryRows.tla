----------------------------- MODULE EntryRows -----------------------------
(***************************************************************************)
(* The row of an entry, and what a call makes of it: remote is what the    *)
(* server is known to hold, base what the pending mutation starts from,    *)
(* local what the vault holds.  A row is found by the paths of its live    *)
(* sides, which no two rows share: a put that would raises.                *)
(***************************************************************************)
CONSTANT None

Raised == [e \in {None} |-> None]  \* in place of the rows: the call threw

RowOf(rs, e) ==  \* getEntryRecord ?? createEmptyEntryRecord
    IF e \in DOMAIN rs THEN rs[e]
    ELSE [remote |-> [known |-> FALSE, path |-> None, rev |-> 0, hash |-> None, deleted |-> TRUE],
          base |-> [path |-> None, rev |-> 0, hash |-> None, deleted |-> TRUE],
          local |-> [known |-> FALSE, path |-> None, hash |-> None, deleted |-> TRUE],
          dirty |-> FALSE, pending |-> None, remoteKey |-> None, localKey |-> None]

KeyOfDeleted(side) == IF side.known THEN side.path ELSE None  \* Not the code: a deleted entry keeps its path.
Key(side) == IF side.known /\ ~side.deleted THEN side.path ELSE None

Normalized(row) == [row EXCEPT !.remoteKey = Key(row.remote), !.localKey = Key(row.local)]

Collides(row, other) ==
    \/ row.remoteKey # None /\ row.remoteKey = other.remoteKey
    \/ row.localKey # None /\ row.localKey = other.localKey

(* putEntry *)
PutOrReplace(rs, e, row) ==  \* Not the code: INSERT OR REPLACE.
    IF rs = Raised THEN Raised
    ELSE LET n == Normalized(row)
             kept == {f \in DOMAIN rs : f # e /\ ~Collides(n, rs[f])}
         IN [f \in kept \cup {e} |-> IF f = e THEN n ELSE rs[f]]

Put(rs, e, row) ==
    IF rs = Raised THEN Raised
    ELSE LET n == Normalized(row) IN
         IF \E f \in DOMAIN rs \ {e} : Collides(n, rs[f]) THEN Raised
         ELSE [f \in DOMAIN rs \cup {e} |-> IF f = e THEN n ELSE rs[f]]

Drop(rs, e) == IF rs = Raised THEN Raised ELSE [f \in DOMAIN rs \ {e} |-> rs[f]]

(* toPendingMutationRow *)
Pending(row) == IF row.dirty THEN row.pending ELSE None

CopyRemoteToBase(row) ==
    [row EXCEPT !.base = [path |-> row.remote.path, rev |-> row.remote.rev,
                          hash |-> row.remote.hash, deleted |-> row.remote.deleted]]

ToDirty(row, m) ==
    [row EXCEPT !.dirty = TRUE, !.pending = m,
                !.base = [path |-> IF row.remote.known THEN row.remote.path ELSE @.path,
                          deleted |-> IF row.remote.known THEN row.remote.deleted ELSE @.deleted,
                          rev |-> m.rev, hash |-> m.baseHash]]

ClearFlag(row) == [row EXCEPT !.dirty = FALSE]  \* Not the code: the columns stay.
ClearPending(row) == [row EXCEPT !.dirty = FALSE, !.pending = None]

Known(r) == [path |-> r.path, rev |-> r.rev, hash |-> r.hash, deleted |-> r.deleted, known |-> TRUE]
KnownLocal(l) == [path |-> l.path, hash |-> l.hash, deleted |-> l.deleted, known |-> TRUE]

(* toCombinedEntryRow *)
RowDeleted(row) ==
    IF row.local.known THEN row.local.deleted ELSE IF row.remote.known THEN row.remote.deleted ELSE TRUE

Combined(row) ==
    IF ~row.remote.known /\ ~row.local.known THEN None
    ELSE [path |-> IF row.local.known THEN row.local.path ELSE row.remote.path,
          hash |-> IF row.local.known THEN row.local.hash ELSE row.remote.hash,
          rev |-> row.remote.rev, deleted |-> RowDeleted(row)]

(* getEntryRowByPath: at most one *)
OwnersOf(rs, p) ==
    LET local == {e \in DOMAIN rs : rs[e].localKey = p}
        remote == {e \in DOMAIN rs : rs[e].remoteKey = p}
    IN IF local # {} THEN local
       ELSE {e \in remote : ~rs[e].local.known \/ rs[e].local.path = p}
=============================================================================
