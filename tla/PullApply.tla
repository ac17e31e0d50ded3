----------------------------- MODULE PullApply -----------------------------
(***************************************************************************)
(* A pull of several entries: the planner gives every pulled state a path  *)
(* of the vault, defers it when another entry still owns that path, adopts *)
(* a new local file that has the path of a remote entry, or writes it as a *)
(* conflict copy; states that share a path or an entry form a group; and   *)
(* groups are applied one after the other, each of them over files and     *)
(* rows that are put back, the rows only, when a step of it fails.         *)
(*                                                                         *)
(* The user and the other devices act between pulls; what a save beside a  *)
(* pull does is in EntrySync.  A text is the set of the edits it holds.    *)
(***************************************************************************)
EXTENDS EntryRows, Integers, Sequences, FiniteSets, SequencesExt, FiniteSetsExt

CONSTANTS
    Entry, Path,
    Config,     \* paths under the config directory, synced without conflict copies
    Text,       \* paths of text that is merged: isAutoMergeTextPath
    SameSecond, \* TRUE: every conflict copy of a pull is named within one second
    MaxRemote, MaxHere  \* changes by other devices; changes by the user and pulls broken off

Place == [path : Path, copy : Nat]

ASSUME PullApplyAssumption ==
    /\ None \notin Entry \cup Path /\ IsFiniteSet(Entry)
    /\ Config \cup Text \subseteq Path /\ SameSecond \in BOOLEAN
    /\ MaxRemote \in Nat /\ MaxHere \in Nat

VARIABLES
    server,     \* what the server holds of each entry
    head,       \* its latest sequence number, and changes made
    vault,      \* the files: a function from places to texts
    rows,       \* the store's table of entries
    cursor,
    rules,      \* TRUE: the client syncs the config directory
    pull,       \* the pull in progress
    fails,
    locals,     \* changes made by the user
    work,       \* history: the user's edits in files the user has kept
    unguarded,  \* history: edits that a pull overwrote with no copy in any file
    wiped       \* history: files at the path of an entry that was deleted before

pullVars == <<server, head, vault, rows, cursor, rules, pull, fails, locals, work, unguarded, wiped>>

At(p) == [path |-> p, copy |-> 0]
IsCopy(place) == place.copy > 0
Files == DOMAIN vault
With(v, place, text) == [f \in DOMAIN v \cup {place} |-> IF f = place THEN text ELSE v[f]]
Without(v, places) == [f \in DOMAIN v \ places |-> v[f]]

(* The members of s that are in S, in the order of s. *)
Those(s, S) ==
    LET kept[i \in 0..Len(s)] ==
            IF i = 0 THEN << >>
            ELSE IF s[i] \in S THEN Append(kept[i - 1], s[i]) ELSE kept[i - 1]
    IN kept[Len(s)]
Ascending(S, n) == Those([i \in 1..n |-> i], S)

(* What the steps of a loop make of rs, one after the other. *)
InTurn(rs, step(_, _), s) ==
    LET after[i \in 0..Len(s)] == IF i = 0 THEN rs ELSE step(after[i - 1], s[i])
    IN after[Len(s)]
Each(rs, step(_, _), S) == InTurn(rs, step, SetToSeq(S))

NoPull == [phase |-> "idle", window |-> << >>, rest |-> << >>, deferred |-> << >>,
           groups |-> << >>, group |-> None, todo |-> << >>, saved |-> None,
           named |-> {}, outcome |-> "none"]

Idle == pull.phase = "idle"
Absent == [path |-> None, rev |-> 0, text |-> {}, deleted |-> TRUE, seq |-> 0]
Live(e) == server[e].rev > 0 /\ ~server[e].deleted

-----------------------------------------------------------------------------
(* The user and the recorder, the other devices. *)

Own(edit) == edit[1] = "here"
KeptWork(v) == {n \in UNION {v[f] : f \in {g \in DOMAIN v : g.path \notin Config}} : Own(n)}

RemoteOf(rs, e) == RowOf(rs, e).remote
Mutation(rs, e, op, place, text) ==
    [op |-> op, path |-> place, hash |-> text, rev |-> RemoteOf(rs, e).rev,
     baseHash |-> RemoteOf(rs, e).hash, at |-> locals]

Queue(rs, e, op, place, text) ==
    Put(rs, e, ToDirty(RowOf(rs, e), Mutation(rs, e, op, place, text)))
SetLocal(rs, e, place, text, deleted) ==
    Put(rs, e, [RowOf(rs, e) EXCEPT
                   !.local = [known |-> TRUE, path |-> place, hash |-> text, deleted |-> deleted]])

LocalAt(rs, place) == {e \in DOMAIN rs : rs[e].localKey = place}
DeletePending(rs, place) ==  \* findPendingDeleteLocalEntryByPath
    {e \in DOMAIN rs : rs[e].dirty /\ rs[e].pending.op = "delete" /\ rs[e].pending.path = place}

Unused == {e \in Entry : e \notin DOMAIN rows /\ server[e].rev = 0}

Recorded(rs, e, place, text) == SetLocal(Queue(rs, e, "upsert", place, text), e, place, text, FALSE)

RecordUpsert(place, text) ==
    LET known == CASE LocalAt(rows, place) # {} -> LocalAt(rows, place)
                   [] DeletePending(rows, place) # {} -> DeletePending(rows, place)
                   [] OTHER -> OwnersOf(rows, place)
    IN \E e \in IF known # {} THEN known ELSE Unused : rows' = Recorded(rows, e, place, text)

RecordRename(from, to, text) ==
    IF LocalAt(rows, from) = {} THEN RecordUpsert(to, text)
    ELSE \E e \in LocalAt(rows, from) : rows' = Recorded(rows, e, to, text)

RecordDelete(place) ==
    LET known == IF LocalAt(rows, place) # {} THEN LocalAt(rows, place)
                 ELSE {e \in DOMAIN rows : rows[e].remoteKey = place}
    IN IF known = {} THEN UNCHANGED rows
       ELSE \E e \in known : LET clean == Put(rows, e, ClearPending(rows[e])) IN
               rows' = IF RemoteOf(rows, e).rev = 0 THEN Drop(clean, e)
                       ELSE Queue(SetLocal(clean, e, None, None, TRUE), e, "delete", place, None)

SameKind(f, g) == f.path \in Config <=> g.path \in Config  \* a note does not become a setting

(* Saves, creates (what another device has, too), renames and deletes. *)
UserActs ==
    /\ Idle /\ locals + fails < MaxHere /\ locals' = locals + 1
    /\ LET mine == {<<"here", locals>>}
           seen == {f \in Files : ~IsCopy(f) /\ ~(f.path \in Config /\ ~rules)}
           free == {At(p) : p \in IF rules THEN Path ELSE Path \ Config} \ Files
       IN \/ \E f \in seen : vault' = With(vault, f, vault[f] \cup mine) /\ RecordUpsert(f, vault[f] \cup mine)
          \/ \E f \in free : \E text \in {mine} \cup {server[e].text : e \in {d \in Entry : Live(d) /\ server[d].path = f}} :
                vault' = With(vault, f, text) /\ RecordUpsert(f, text)
          \/ \E f \in seen, g \in free : SameKind(f, g) /\
                vault' = With(Without(vault, {f}), g, vault[f]) /\ RecordRename(f, g, vault[f])
          \/ \E f \in seen : vault' = Without(vault, {f}) /\ RecordDelete(f)
    /\ rows' # Raised
    /\ work' = KeptWork(vault') /\ pull' = NoPull
    /\ UNCHANGED <<server, head, cursor, rules, fails, unguarded, wiped>>

OthersWrite ==
    /\ Idle /\ head < MaxRemote /\ head' = head + 1
    /\ \E e \in Entry, p \in Path, edited \in BOOLEAN :
          /\ server[e].rev = 0 => e \notin DOMAIN rows /\ edited
          /\ edited \/ server[e].deleted \/ server[e].path # At(p)
          /\ server[e].rev > 0 => SameKind(server[e].path, At(p))
          /\ server' = [server EXCEPT ![e] =
                [path |-> At(p), rev |-> @.rev + 1, deleted |-> FALSE, seq |-> head',
                 text |-> IF edited THEN @.text \cup {<<"there", head>>} ELSE @.text]]
    /\ pull' = NoPull
    /\ UNCHANGED <<vault, rows, cursor, rules, fails, locals, work, unguarded, wiped>>

OthersDelete ==
    /\ Idle /\ head < MaxRemote /\ head' = head + 1
    /\ \E e \in {d \in Entry : Live(d)} :
          server' = [server EXCEPT ![e] =
                [path |-> @.path, rev |-> @.rev + 1, deleted |-> TRUE, seq |-> head', text |-> @.text]]
    /\ pull' = NoPull
    /\ UNCHANGED <<vault, rows, cursor, rules, fails, locals, work, unguarded, wiped>>

-----------------------------------------------------------------------------
(* PullManifestPlanner *)

LatestWins(place) == place.path \in Config /\ rules
Rejected(place) == place.path \in Config /\ ~rules
InOrder(S) ==
    LET seqs == Ascending({server[e].seq : e \in S}, head)
    IN [k \in 1..Len(seqs) |-> CHOOSE e \in S : server[e].seq = seqs[k]]

(* findLatestManagedEntryByPath: another entry of the window has the path. *)
Superseded(e, window) ==
    /\ LatestWins(server[e].path)
    /\ \E d \in window \ {e} :
          /\ Live(d) /\ server[d].path = server[e].path
          /\ server[d].seq > server[e].seq \/ server[e].deleted

(* findAdoptableLocalPathOwner *)
Adoptable(e, owner) ==
    LET row == rows[owner] IN
    /\ owner # e /\ row.remote.rev = 0 /\ ~RowDeleted(row)
    /\ row.dirty /\ row.pending.op = "upsert" /\ row.pending.path = server[e].path

Matches(e, owner) == rows[owner].pending.hash = server[e].text /\ Combined(rows[owner]).hash = server[e].text

Owner(e) == OwnersOf(rows, server[e].path) \ {e}
HeldByOther(e, moving) ==  \* externalPathOwner
    ~server[e].deleted /\ \E d \in Owner(e) : d \notin moving /\ ~Adoptable(e, d)

(* The entries that wait for the owner of their path, those that wait for
   them, and all that come later than one of them. *)
Waiting(active) ==
    FoldLeft(LAMBDA D, i : D \cup {e \in active : HeldByOther(e, active \ D) /\ ~LatestWins(server[e].path)},
             {}, SetToSeq(active))

BeforeThreshold(active, waiting) ==
    {e \in active : \A d \in waiting : server[e].seq < server[d].seq}

(* getAvailableConflictCopyPath; in another second the name is another. *)
CopyOf(place, taken) ==
    [place EXCEPT !.copy = CHOOSE n \in 1..(Cardinality(taken) + 1) :
        /\ [place EXCEPT !.copy = n] \notin taken
        /\ \A k \in 1..(n - 1) : [place EXCEPT !.copy = k] \in taken]

(* planVaultMove *)
Move(e, final, plain) ==
    LET row == RowOf(rows, e) from == Combined(row).path IN
    IF /\ plain /\ Combined(row) # None /\ ~RowDeleted(row) /\ from # None /\ from # final /\ ~row.dirty
       /\ from \in Files /\ final \notin Files
    THEN [from |-> from, to |-> final] ELSE None

(* isAlreadyAppliedToVault *)
AlreadyApplied(e, final) ==
    LET row == RowOf(rows, e) IN
    /\ ~server[e].deleted /\ ~row.dirty
    /\ row.remote = [known |-> TRUE, path |-> final, rev |-> server[e].rev,
                     hash |-> server[e].text, deleted |-> FALSE]
    /\ row.local = [known |-> TRUE, path |-> final, hash |-> server[e].text, deleted |-> FALSE]

Plan(e, reserved, moving) ==
    LET path == server[e].path
        owners == Owner(e)
        adopted == {d \in owners : Adoptable(e, d)}
        collides == path \in reserved \/ HeldByOther(e, moving)
        copied == collides /\ ~LatestWins(path)
        final == IF copied THEN CopyOf(path, Files \cup reserved) ELSE path
        match == adopted # {} /\ \A d \in adopted : Matches(e, d)
    IN IF server[e].deleted
       THEN [entry |-> e, final |-> None, adopted |-> {}, match |-> FALSE, move |-> None,
             skip |-> FALSE, loser |-> {}, existing |-> Combined(RowOf(rows, e))]
       ELSE [entry |-> e, final |-> final, adopted |-> adopted, match |-> match,
             move |-> Move(e, final, ~copied /\ adopted = {}),
             skip |-> \/ match /\ ~copied
                      \/ ~copied /\ adopted = {} /\ AlreadyApplied(e, final),
             loser |-> IF collides /\ ~copied THEN owners ELSE {},
             existing |-> Combined(RowOf(rows, e))]

Planned(window, last) ==
    LET valid == {e \in ToSet(window) : ~Rejected(server[e].path)}
        active == {e \in valid : ~Superseded(e, valid)}
        waiting == IF last THEN {} ELSE Waiting(active)
        moving == BeforeThreshold(active, waiting)
        deferred == {e \in active : \/ e \notin moving
                                    \/ ~last /\ HeldByOther(e, moving) /\ ~LatestWins(server[e].path)}
        planning == Those(window, active \ deferred)
        plans[i \in 0..Len(planning)] ==
            IF i = 0 THEN << >>
            ELSE LET before == plans[i - 1]
                 IN Append(before, Plan(planning[i], {plan.final : plan \in ToSet(before)}, moving))
    IN [plans |-> plans[Len(planning)],
        deferred |-> Those(window, deferred),
        superseded |-> Those(window, valid \ active),
        skipped |-> Those(window, {e \in ToSet(window) : Rejected(server[e].path)})]

-----------------------------------------------------------------------------
(* groupPullApplications: what shares an entry or a path is one group. *)

Given(S) == S \ {None}
PathsOf(plan) ==
    Given({plan.final, server[plan.entry].path} \cup {Combined(rows[d]).path : d \in plan.adopted \cup plan.loser}
          \cup (IF plan.existing = None THEN {} ELSE {plan.existing.path})
          \cup (IF plan.move = None THEN {} ELSE {plan.move.from, plan.move.to}))
EntriesOf(plan) == {plan.entry} \cup plan.adopted \cup plan.loser

OldPath(e) == IF Combined(RowOf(rows, e)) = None THEN None ELSE Combined(rows[e]).path

ByFinalPath(plans, superseded) ==  \* Not the code: the path an entry has now is no key.
    [i \in 1..(Len(plans) + Len(superseded)) |->
        IF i <= Len(plans) THEN {plans[i].entry} \cup Given({plans[i].final})
        ELSE {superseded[i - Len(plans)]}]
Keys(plans, superseded) ==
    [i \in 1..(Len(plans) + Len(superseded)) |->
        IF i <= Len(plans) THEN EntriesOf(plans[i]) \cup PathsOf(plans[i])
        ELSE LET e == superseded[i - Len(plans)] IN {e} \cup Given({server[e].path, OldPath(e)})]

Linked(keys) == {l \in (DOMAIN keys) \X (DOMAIN keys) : keys[l[1]] \cap keys[l[2]] # {}}
Closed(C, linked) == \A l \in linked : l[1] \in C => l[2] \in C
Component(i, nodes, linked) ==
    {j \in nodes : \A C \in SUBSET nodes : i \in C /\ Closed(C, linked) => j \in C}

(* findSupersededPathsToRemove *)
LoserFiles(superseded, plans) ==
    Given({OldPath(e) : e \in superseded}) \ {plan.final : plan \in ToSet(plans)}

GroupOf(C, planned) ==
    LET n == Len(planned.plans)
        own == Ascending(C, n)
        losers == {planned.superseded[i - n] : i \in C \ (1..n)}
    IN [plans |-> [k \in 1..Len(own) |-> planned.plans[own[k]]], superseded |-> losers,
        remove |-> LoserFiles(losers, planned.plans), conflicts |-> None]

(* A group has the place of its first member. *)
Groups(planned) ==
    LET keys == Keys(planned.plans, planned.superseded)
        linked == Linked(keys)
        component(i) == Component(i, DOMAIN keys, linked)
        order == Ascending({i \in DOMAIN keys : \A j \in component(i) : i <= j}, Len(keys))
    IN [k \in 1..Len(order) |-> GroupOf(component(order[k]), planned)]

-----------------------------------------------------------------------------
(* PullPendingMutationHandler *)

(* findConflictingPendingMutation *)
PendingFor(plan) ==
    LET e == plan.entry
        candidates == Given((IF server[e].deleted THEN {} ELSE {plan.final})
                            \cup (IF plan.existing = None THEN {} ELSE {plan.existing.path}))
        at == {d \in DOMAIN rows : rows[d].dirty /\ rows[d].pending.path \in candidates}
    IN IF RowOf(rows, e).dirty THEN {e}
       ELSE {d \in at : \A f \in at : rows[d].pending.at <= rows[f].pending.at}

(* isSameEntryPendingMutationAlreadyRemote *)
AlreadyRemote(plan, d) ==
    LET m == rows[d].pending IN
    /\ d = plan.entry /\ (m.op = "delete") = server[d].deleted
    /\ IF m.op = "delete" THEN m.path = server[d].path
       ELSE /\ m.path = plan.final /\ m.hash = server[d].text
            /\ m.path \in Files /\ vault[m.path] = m.hash

(* preparePendingTextMerge, when the base is cached *)
MayMerge(plan, d) ==
    LET row == rows[d] IN
    /\ row.pending.op = "upsert" /\ ~server[plan.entry].deleted /\ ~plan.skip
    /\ row.local.path = plan.final /\ plan.final.path \in Text /\ plan.final \in Files
    /\ row.base.hash # None /\ row.base.hash \subseteq server[plan.entry].text

Conflict(plan, d, clean) ==
    LET m == rows[d].pending
        c == [plan |-> plan.entry, of |-> d, kind |-> "remote", copy |-> None, place |-> None, text |-> {}]
        both == vault[plan.final] \cup server[plan.entry].text
    IN IF AlreadyRemote(plan, d) \/ LatestWins(m.path) THEN c
       ELSE IF clean /\ MayMerge(plan, d)
       THEN IF both = server[plan.entry].text THEN c ELSE [c EXCEPT !.kind = "local", !.place = plan.final, !.text = both]
       ELSE IF m.op = "upsert" /\ m.path \in Files
       THEN [c EXCEPT !.kind = "copy", !.text = vault[m.path],
                      !.copy = CopyOf(m.path, Files \cup IF SameSecond THEN {} ELSE pull.named)]
       ELSE [c EXCEPT !.kind = "drop"]

(* prepareApplicationGroup: a pending mutation is handled once. *)
Conflicts(group, clean) ==
    LET step(acc, plan) ==
            LET found == IF plan.match THEN {} ELSE PendingFor(plan) \ {c.of : c \in acc}
            IN acc \cup {Conflict(plan, d, clean) : d \in found}
    IN InTurn({}, step, group.plans)

-----------------------------------------------------------------------------
(* PullEntryStateApplier, SyncPullService *)

SetRemote(rs, e, r) ==  \* applyRemoteState
    LET updated == [RowOf(rs, e) EXCEPT !.remote = Known(r)]
    IN Put(rs, e, IF updated.dirty THEN updated ELSE CopyRemoteToBase(updated))
ClearRemote(rs, e) ==
    LET updated == [RowOf(rs, e) EXCEPT !.remote = RowOf(<< >>, e).remote] IN
    IF e \notin DOMAIN rs THEN rs ELSE IF ~updated.local.known /\ ~updated.dirty THEN Drop(rs, e) ELSE Put(rs, e, updated)
ClearLocal(rs, e) ==
    LET updated == [RowOf(rs, e) EXCEPT !.local = RowOf(<< >>, e).local] IN
    IF e \notin DOMAIN rs THEN rs ELSE IF ~updated.remote.known /\ ~updated.dirty THEN Drop(rs, e) ELSE Put(rs, e, updated)
Clean(rs, e) == IF e \in DOMAIN rs THEN Put(rs, e, ClearPending(rs[e])) ELSE rs
Upsert(rs, e, path, rev, text, deleted) ==
    LET r == [path |-> path, rev |-> rev, hash |-> text, deleted |-> deleted]
    IN Put(rs, e, CopyRemoteToBase([RowOf(<< >>, e) EXCEPT !.remote = Known(r), !.local = KnownLocal(r)]))

State(e) == [path |-> server[e].path, rev |-> server[e].rev, deleted |-> server[e].deleted,
             hash |-> IF server[e].deleted THEN None ELSE server[e].text]

-----------------------------------------------------------------------------
PullInit ==
    /\ rules \in BOOLEAN
    /\ \E S \in SUBSET Entry : \E path \in [S -> IF rules THEN Path ELSE Path \ Config] :
          /\ IsInjective(path) /\ Cardinality(S) < Cardinality(Entry)
          /\ server = [e \in Entry |-> IF e \notin S THEN Absent
                ELSE [path |-> At(path[e]), rev |-> 1, text |-> {<<"base", path[e]>>},
                      deleted |-> FALSE, seq |-> 0]]
          /\ vault = [f \in {At(path[e]) : e \in S} |-> {<<"base", f.path>>}]
          /\ rows = Each(<< >>, LAMBDA rs, e :
                Upsert(rs, e, At(path[e]), 1, {<<"base", path[e]>>}, FALSE), S)
    /\ head = 0 /\ cursor = 0 /\ pull = NoPull
    /\ fails = 0 /\ locals = 0 /\ work = {} /\ unguarded = {} /\ wiped = {}

Stops(outcome) == pull' = [NoPull EXCEPT !.outcome = outcome]
Raises == Stops("raised") /\ fails' = fails + 1

(* applySkippedRemoteStates: one call of the store for each. *)
Skip(rs, s) == InTurn(rs, LAMBDA acc, e : SetRemote(acc, e, State(e)), s)

(* applyManifestWindow, up to its groups.  When the store refuses a skipped
   state, those before it are applied. *)
Applies(window, rest) ==
    /\ LET planned == Planned(window, rest = << >>) IN
       \/ /\ rows' = Skip(rows, planned.skipped)
          /\ pull' = [NoPull EXCEPT !.phase = "apply", !.window = window, !.rest = rest,
                !.deferred = planned.deferred,
                !.groups = Groups(planned),
                !.named = Given({plan.final : plan \in ToSet(planned.plans)})]
          /\ UNCHANGED fails
       \/ /\ \E k \in 1..Len(planned.skipped) :
                /\ rows' = Skip(rows, SubSeq(planned.skipped, 1, k - 1))
                /\ Skip(rows, SubSeq(planned.skipped, 1, k)) = Raised
          /\ Raises
    /\ rows' # Raised
    /\ UNCHANGED <<server, head, vault, cursor, rules, locals, work, unguarded, wiped>>

(* pullOnce: the pages, in a window that is applied before the last one came
   and a last window, or in one. *)
PullStart ==
    /\ Idle /\ head > cursor /\ locals + fails <= MaxHere
    /\ LET listed == InOrder({e \in Entry : server[e].seq > cursor}) IN
       \E k \in 1..Len(listed) : Applies(SubSeq(listed, 1, k), SubSeq(listed, k + 1, Len(listed)))

PlanWindow == pull.phase = "plan" /\ Applies(pull.window, pull.rest)

Touched(g) == g.superseded \cup UNION {EntriesOf(plan) : plan \in ToSet(g.plans)}

(* prepareApplicationGroup: a merge of texts is clean or is not *)
Prepared(g) ==
    IF g.conflicts # None THEN {g} ELSE {[g EXCEPT !.conflicts = Conflicts(g, clean)] : clean \in BOOLEAN}

(* The pipeline prepares a group when its turn comes, or all of them before
   the first is applied: the same, if there is no conflict to look at. *)
PrepareAhead ==
    /\ pull.phase = "apply" /\ Len(pull.groups) > 1
    /\ \A g \in ToSet(pull.groups) : g.conflicts = None
    /\ \E gs \in [DOMAIN pull.groups -> UNION {Prepared(g) : g \in ToSet(pull.groups)}] :
          /\ \A i \in DOMAIN gs : gs[i] \in Prepared(pull.groups[i])
          /\ \E g \in ToSet(gs) : g.conflicts # {}
          /\ pull' = [pull EXCEPT !.groups = gs]
    /\ UNCHANGED <<server, head, vault, rows, cursor, rules, fails, locals, work, unguarded, wiped>>

(* snapshotManifestEntries, snapshotDirtyEntries *)
Saved(g) == [entries |-> Touched(g), rows |-> rows, queued |-> Touched(g) \cup {c.of : c \in g.conflicts}]

(* applySupersededRemoteEntries *)
Supersede(rs, e, superseded) ==
    LET bare == ClearLocal(Clean(rs, e), e)
        r == RemoteOf(bare, e)
    IN IF e \in superseded
       THEN SetRemote(bare, e, [State(e) EXCEPT !.path = IF server[e].deleted THEN @ ELSE None])
       ELSE IF r.known THEN SetRemote(bare, e, [r EXCEPT !.path = IF r.deleted THEN @ ELSE None]) ELSE bare

(* clearChangingStorePaths *)
KeepsPath(rs, plan) == rs  \* Not the code: two entries that swap their paths collide.
ReleasePath(rs, plan) ==
    LET old == plan.existing IN
    IF old = None \/ (old # None /\ old.path \in {None, plan.final}) THEN rs
    ELSE Upsert(rs, plan.entry, None, old.rev, old.hash, old.deleted)

(* The store keeps the path of an entry known to be deleted, another file's
   by now perhaps. *)
OldGrave(plan) == IF plan.existing # None /\ plan.existing.deleted THEN plan.existing.path ELSE None

(* Of the pending mutations at the old path of an entry, at its new one and of
   the entry itself one is looked at, or none if a new file is adopted. *)
Overlooked(plan) ==
    IF OldGrave(plan) # None \/ (plan.adopted # {} /\ RowOf(rows, plan.entry).dirty)
    THEN {n \in UNION {vault[f] : f \in {plan.final, plan.existing.path} \cap Files} : Own(n)} ELSE {}

(* applyPreparedManifest, up to the vault's paths: nobody sees what it has
   prepared before. *)
Settle ==
    /\ pull.phase = "apply" /\ pull.groups # << >>
    /\ \E g \in Prepared(Head(pull.groups)) :
       LET plans == ToSet(g.plans)
           copies == {c \in g.conflicts : c.kind = "copy"}
           r1 == Each(rows, LAMBDA rs, e : Supersede(rs, e, g.superseded),
                      g.superseded \cup UNION {plan.loser : plan \in plans})
           r2 == Each(r1, LAMBDA rs, c : Clean(rs, c.of), {c \in g.conflicts : c.kind \in {"copy", "drop"}})
           r3 == Each(r2, Drop, UNION {plan.adopted : plan \in plans})
       IN /\ rows' = InTurn(r3, ReleasePath, g.plans)
          /\ vault' = Each(Without(vault, g.remove), LAMBDA v, c : With(v, c.copy, c.text), copies)
          /\ pull' = [pull EXCEPT !.phase = "move", !.groups = Tail(@), !.group = g, !.saved = Saved(g)]
          /\ wiped' = wiped \cup (Files \cap {OldGrave(plan) : plan \in plans})
          /\ unguarded' = unguarded \cup ((UNION {Overlooked(plan) : plan \in plans})
                                           \ UNION {c.text : c \in copies})
    /\ UNCHANGED <<server, head, cursor, rules, fails, locals, work>>

(* restoreManifestEntries, restoreDirtyEntries *)
RestoredInPlace(rs, saved) ==  \* Not the code: a row is put back over what the group wrote.
    Each(rs, LAMBDA acc, e : IF e \in DOMAIN saved.rows THEN Put(acc, e, saved.rows[e]) ELSE acc, saved.entries)
Back(rs, e, old) ==
    LET r == IF old.remote.known THEN SetRemote(rs, e, old.remote) ELSE ClearRemote(rs, e)
        l == IF old.local.known
             THEN SetLocal(r, e, old.local.path, old.local.hash, old.local.deleted) ELSE ClearLocal(r, e)
    IN IF ~old.remote.known /\ ~old.local.known /\ ~RowOf(l, e).dirty THEN Drop(l, e) ELSE l
Requeued(rs, e, old) ==
    LET clean == Clean(rs, e)
    IN IF old.dirty THEN Put(clean, e, ToDirty(RowOf(clean, e), old.pending)) ELSE clean
Restored(rs, saved) ==
    LET cleared == Each(rs, LAMBDA t, e : ClearLocal(ClearRemote(t, e), e), saved.entries)
        back == Each(cleared, LAMBDA t, e : Back(t, e, RowOf(saved.rows, e)), saved.entries)
    IN Each(back, LAMBDA t, e : Requeued(t, e, RowOf(saved.rows, e)), saved.queued)

Merged == {c \in pull.group.conflicts : c.kind \in {"remote", "local"}}
Merges == {c \in Merged : c.kind = "local"}

(* Edits that only the merge in memory holds. *)
InMemory == IF pull.group = None THEN {} ELSE
    {n \in UNION {c.text : c \in Merges} : Own(n)} \ KeptWork(vault)

(* pathsToRemoveForPlan *)
RemovesHistory(plan) ==  \* Not the code: a tombstone removes the path its metadata names.
    IF server[plan.entry].deleted THEN {server[plan.entry].path} ELSE {}
Removes(plan) ==
    IF plan.existing = None \/ plan.move # None THEN {} ELSE Given({plan.existing.path} \ {plan.final})

Moved(plan) == IF plan.move = None THEN {} ELSE {plan.move.from, plan.move.to}

(* renameVaultPath *)
Renames(v, plan) == plan.move # None /\ plan.move.from \in DOMAIN v
Renamed(v, plan) ==
    IF Renames(v, plan) THEN With(Without(v, {plan.move.from}), plan.move.to, v[plan.move.from]) ELSE v

MovePaths ==
    /\ pull.phase = "move"
    /\ LET plans == pull.group.plans
           after(i) == InTurn(vault, Renamed, SubSeq(plans, 1, i))
           gone == {i \in DOMAIN plans : plans[i].move # None /\ ~Renames(after(i - 1), plans[i])}
       IN IF gone # {}
          THEN /\ vault' = after(Min(gone) - 1) /\ rows' = Restored(rows, pull.saved)
               /\ Stops("failed") /\ fails' = fails + 1 /\ unguarded' = unguarded \cup InMemory
          ELSE /\ vault' = Without(after(Len(plans)), UNION {Removes(plan) : plan \in ToSet(plans)})
               /\ pull' = [pull EXCEPT !.phase = "write",
                     !.todo = Those(plans, {plan \in ToSet(plans) : plan.final # None /\ ~plan.skip})]
               /\ UNCHANGED <<rows, fails, unguarded>>
    /\ UNCHANGED <<server, head, cursor, rules, locals, work, wiped>>

WriteFile ==
    /\ pull.phase = "write" /\ pull.todo # << >>
    /\ LET plan == Head(pull.todo) IN
       vault' = With(vault, plan.final, server[plan.entry].text)
    /\ pull' = [pull EXCEPT !.todo = Tail(@)]
    /\ UNCHANGED <<server, head, rows, cursor, rules, fails, locals, work, unguarded, wiped>>

GroupEnds == [pull EXCEPT !.phase = "apply", !.group = None, !.saved = None]

Written(rs, plan) ==
    LET e == plan.entry
    IN Upsert(rs, e, IF server[e].deleted THEN server[e].path ELSE plan.final,
              server[e].rev, State(e).hash, server[e].deleted)

(* The rows of a group; then the texts merged with a pending edit. *)
WriteRows ==
    /\ pull.phase = "write" /\ pull.todo = << >>
    /\ LET rs == InTurn(rows, Written, pull.group.plans)
       IN IF rs = Raised THEN rows' = Restored(rows, pull.saved) /\ Raises
          ELSE /\ rows' = rs /\ UNCHANGED fails
               /\ pull' = IF Merged = {} THEN GroupEnds ELSE [pull EXCEPT !.phase = "merge"]
    /\ UNCHANGED <<server, head, vault, cursor, rules, locals, work, unguarded, wiped>>

Rebased(rs, c) ==
    LET e == c.plan
        m == [op |-> "upsert", path |-> c.place, hash |-> c.text, rev |-> server[e].rev,
              baseHash |-> server[e].text, at |-> locals]
    IN IF c.kind = "remote" THEN Clean(rs, c.of)
       ELSE SetLocal(Put(rs, c.of, ToDirty(RowOf(rs, c.of), m)), c.of, c.place, c.text, FALSE)

ApplyMerges ==
    /\ pull.phase = "merge"
    /\ vault' = Each(vault, LAMBDA v, c : With(v, c.place, c.text), Merges)
    /\ LET rs == Each(rows, Rebased, Merged)
       IN IF rs = Raised THEN rows' = Restored(rows, pull.saved) /\ Raises
          ELSE rows' = rs /\ pull' = GroupEnds /\ UNCHANGED fails
    /\ UNCHANGED <<server, head, cursor, rules, locals, work, unguarded, wiped>>

(* checkpointAppliedWindow, getSafeCheckpointCursor *)
EndWindow ==
    /\ pull.phase = "apply" /\ pull.groups = << >>
    /\ LET seqs(w) == {server[e].seq : e \in ToSet(w)} IN
       cursor' = IF pull.deferred # << >> THEN Max({cursor, Min(seqs(pull.deferred)) - 1})
                 ELSE IF pull.rest = << >> THEN head ELSE Max(seqs(pull.window))
    /\ IF pull.rest = << >> THEN Stops("ok")
       ELSE pull' = [NoPull EXCEPT !.phase = "plan", !.window = pull.deferred \o pull.rest]
    /\ UNCHANGED <<server, head, vault, rows, rules, fails, locals, work, unguarded, wiped>>

(* A download, a write or the store fails: the rows are put back. *)
PullFails ==
    /\ ~Idle /\ locals + fails < MaxHere /\ fails' = fails + 1
    /\ rows' = IF pull.group = None THEN rows ELSE Restored(rows, pull.saved)
    /\ Stops("failed") /\ unguarded' = unguarded \cup InMemory
    /\ UNCHANGED <<server, head, vault, cursor, rules, locals, work, wiped>>

(* Outside of a group it leaves what a failure leaves.  The reconcile of the
   next start comes before the next pull; it is left out. *)
Crash ==
    /\ pull.group # None /\ locals + fails < MaxHere /\ fails' = fails + 1
    /\ Stops("crashed") /\ unguarded' = unguarded \cup InMemory
    /\ UNCHANGED <<server, head, vault, rows, cursor, rules, locals, work, wiped>>

PullNext ==
    \/ UserActs \/ OthersWrite \/ OthersDelete
    \/ PullStart \/ PlanWindow \/ PrepareAhead \/ Settle \/ MovePaths \/ WriteFile
    \/ WriteRows \/ ApplyMerges \/ EndWindow \/ PullFails \/ Crash

Spec == PullInit /\ [][PullNext]_pullVars

-----------------------------------------------------------------------------
(***************************************************************************)
(* Type: files have texts, rows are keyed by the paths of their live sides *)
(* and a group is applied only while its snapshot is held.                 *)
(***************************************************************************)
PullTypeOK ==
    /\ DOMAIN server = Entry /\ head \in 0..MaxRemote /\ cursor \in 0..head
    /\ \A f \in Files : f \in Place /\ vault[f] # {}
    /\ DOMAIN rows \subseteq Entry
    /\ \A d, e \in DOMAIN rows : d # e => ~Collides(rows[d], rows[e])
    /\ \A e \in DOMAIN rows :
          /\ rows[e] = Normalized(rows[e])
          /\ IF rows[e].dirty THEN rows[e].pending.op \in {"upsert", "delete"} /\ rows[e].pending.path \in Place
             ELSE rows[e].pending = None
    /\ pull.phase \in {"idle", "plan", "apply", "move", "write", "merge"}
    /\ IF pull.phase \in {"move", "write", "merge"}
       THEN /\ DOMAIN pull.saved.rows \subseteq Entry
            /\ pull.saved.entries = Touched(pull.group) /\ Touched(pull.group) \subseteq pull.saved.queued
       ELSE pull.group = None /\ pull.saved = None
    /\ work \cup unguarded \subseteq {<<"here", n>> : n \in 0..locals}

(***************************************************************************)
(* What the user wrote and has not pushed is in some file of the vault     *)
(* after any pull, whole or broken off, whatever moved, collided or was    *)
(* adopted, but for the windows that unguarded records: a new file adopted *)
(* by an entry that has a pending mutation too, a file at the old path of  *)
(* a deleted entry, a merge whose write does not follow that of the remote *)
(* text.                                                                   *)
(***************************************************************************)
Survives(edits) == edits \subseteq KeptWork(vault) \cup InMemory
LocalWorkSurvives == Survives(work \ unguarded)

(***************************************************************************)
(* A pull that writes over a file it adopted keeps what the user wrote in  *)
(* it (conflicts-paths.test.ts: "adopts the remote identity but preserves  *)
(* differing unpushed local content as a conflict copy").  It fails when   *)
(* the adopting entry has a pending mutation of its own: see the README.   *)
(***************************************************************************)
AdoptionKeepsTheEdits ==
    [][ pull.phase = "write" /\ pull.todo # << >> /\ Head(pull.todo).adopted # {}
        => KeptWork(vault) \subseteq KeptWork(vault') ]_pullVars

(***************************************************************************)
(* After a pull that ends, each entry is known at the revision the server  *)
(* has and, unless the user deleted it, has its file where its row says,   *)
(* the server's if nothing is pending.  If no pull was broken off, the     *)
(* file holds the text its row says and every file has an entry.           *)
(***************************************************************************)
IsLoser(e) == LatestWins(server[e].path) /\ RowOf(rows, e).remote.path = None
DeletedHere(row) == row.local.known /\ row.local.deleted
Delivered(e) ==
    LET row == RowOf(rows, e) IN
    /\ row.remote.rev = server[e].rev
    /\ /\ Live(e) /\ ~Rejected(server[e].path) /\ ~IsLoser(e) /\ ~DeletedHere(row)
       /\ row.local.path \notin wiped
       => /\ row.local.known /\ row.local.path \in Files
          /\ fails = 0 => row.local.hash = vault[row.local.path]
          /\ ~row.dirty => row.local.hash = server[e].text /\ row.local.path.path = server[e].path.path
    /\ server[e].deleted /\ ~Rejected(server[e].path) => row.localKey = None

PullDelivers ==
    pull.outcome = "ok" =>
       /\ \A e \in Entry : server[e].rev > 0 => Delivered(e)
       /\ fails = 0 => \A f \in Files : ~IsCopy(f) => \E e \in DOMAIN rows : rows[e].localKey = f

(***************************************************************************)
(* After a pull that ends, each entry that is in place and clean has its   *)
(* file (pull-entry-state-internal.ts, pathsToRemoveForPlan: a path        *)
(* "another entry may now own" is not removed).                            *)
(***************************************************************************)
OwnersKeepFiles ==
    pull.outcome = "ok" =>
        \A e \in DOMAIN rows : rows[e].localKey # None /\ ~rows[e].dirty /\ Live(e) => rows[e].localKey \in Files

(***************************************************************************)
(* A pull is refused by the store only while two live entries of the       *)
(* server have one path or a rename or delete made here is not pushed:     *)
(* entries that swap their paths or follow each other never collide.       *)
(***************************************************************************)
RaisesOnlyOnClash ==
    pull.outcome = "raised" =>
        \/ \E d, e \in Entry : d # e /\ Live(d) /\ Live(e) /\ server[d].path = server[e].path
        \/ \E e \in DOMAIN rows : rows[e].remote.rev > 0 /\ rows[e].local.path # rows[e].remote.path

(***************************************************************************)
(* Groups are apart: what is applied for one neither writes nor removes a  *)
(* file, nor changes a row, of another (pull-application-groups.ts).       *)
(***************************************************************************)
Places(g) ==
    g.remove \cup UNION {Given({plan.final} \cup Removes(plan) \cup Moved(plan)) : plan \in ToSet(g.plans)}
Apart(g, h) == Places(g) \cap Places(h) = {} /\ Touched(g) \cap Touched(h) = {}
GroupsAreApart ==
    \A i, j \in DOMAIN pull.groups : i # j => Apart(pull.groups[i], pull.groups[j])

(***************************************************************************)
(* When a group fails, every row is as it was before it: what is known of  *)
(* the server and of the vault, and the mutations that wait.               *)
(***************************************************************************)
Sides(row) == <<row.remote, row.local, Pending(row)>>
FailureRestores ==
    [][ (pull.group # None /\ pull'.outcome \in {"failed", "raised"})
        => /\ DOMAIN rows' = DOMAIN pull.saved.rows
           /\ \A e \in DOMAIN rows' : Sides(rows'[e]) = Sides(pull.saved.rows[e]) ]_pullVars
=============================================================================
