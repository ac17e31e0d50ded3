------------------------------ MODULE SyncCursor ------------------------------
(***************************************************************************)
(* The pulled cursor: which changes of the vault a device may claim to     *)
(* have seen.  Every change of an entry takes the next number of the       *)
(* server's log; a device keeps for each entry the last change it applied  *)
(* and one cursor below which it asks for nothing again.                   *)
(*                                                                         *)
(* Two operations move the cursor.  A pull lists the entries changed after *)
(* it page by page, the next page being fetched while a window of entries  *)
(* is applied, may put entries off to the following window, and checkpoints *)
(* after each window.  A push commits pending mutations, whose numbers lie *)
(* among those of other devices, and checkpoints the contiguous ones.      *)
(*                                                                         *)
(* Data.  An entry is its number in the log; what a change holds, and how  *)
(* it is applied to the vault, is EntrySync's matter.  An interrupted      *)
(* operation stands for an error, a lost connection and a crash alike:     *)
(* only the store survives.                                                *)
(***************************************************************************)
EXTENDS Naturals, FiniteSets

CONSTANTS
    Entry,        \* the entries of the vault
    NoTarget,     \* a pull that has not been told its target yet
    PageSize,     \* most entries on a page
    ApplyWindow,  \* entries a pull collects before it applies them
    MaxHead,      \* bound on the server's log
    MaxBreaks     \* bound on interrupted operations

ASSUME SyncCursorAssumption ==
    /\ NoTarget \notin Nat
    /\ PageSize \in Nat \ {0} /\ ApplyWindow \in Nat \ {0}
    /\ MaxHead \in Nat /\ MaxBreaks \in Nat

VARIABLES
    head,      \* the server's cursor
    seq,       \* for each entry, its last change on the server (0: none)
    applied,   \* for each entry, the last change in the store
    dirty,     \* entries with a pending mutation
    lost,      \* pending mutations the server accepted unbeknown to the device
    cursor,    \* the store's last pulled cursor
    mode,      \* what the drain runs: "idle", "pull" or "push"
    wantPull, wantPush,
    \* a pull
    phase,     \* "collect" or "apply"
    target,    \* the log position this pull reads up to
    after,     \* the last position listed
    more,      \* the last page said there are more
    fetched,   \* a page has been fetched and not yet consumed
    page,      \* its entries
    window,    \* entries collected since the last checkpoint
    deferred,  \* entries of the window put off to the next
    todo,      \* entries of the window still to apply
    final,     \* no page follows this window
    reached,   \* the cursor this pull has reached
    \* a push
    answer,    \* accepted mutations, not yet applied to the store
    acked,     \* numbers of the accepted mutations
    stale,     \* a mutation was rejected: a pull must follow
    breaks     \* how much of MaxBreaks is used

log   == <<head, seq>>
store == <<applied, dirty, lost, cursor>>
want  == <<wantPull, wantPush>>
pull  == <<phase, target, after, more, fetched, page, window, deferred,
           todo, final, reached>>
push  == <<answer, acked, stale>>
vars  == <<log, store, mode, want, pull, push, breaks>>

Item == [entry : Entry, seq : Nat]

IsFirst(n, items) == /\ \E i \in items : i.seq = n
                     /\ \A i \in items : n <= i.seq
IsLast(n, items)  == /\ \E i \in items : i.seq = n
                     /\ \A i \in items : i.seq <= n
Larger(m, n) == IF m < n THEN n ELSE m

-----------------------------------------------------------------------------
(* Edits, here and elsewhere. *)

\* A local edit replaces the pending mutation, accepted or not.
Edit(e) ==
    /\ e \notin dirty \/ lost[e] # 0
    /\ head < MaxHead
    /\ dirty' = dirty \cup {e}
    /\ lost' = [lost EXCEPT ![e] = 0]
    /\ wantPush' = TRUE
    /\ UNCHANGED <<log, applied, cursor, mode, wantPull, pull, push, breaks>>

RemoteChange(e) ==
    /\ head < MaxHead
    /\ head' = head + 1
    /\ seq' = [seq EXCEPT ![e] = head + 1]
    /\ wantPull' = TRUE
    /\ UNCHANGED <<store, mode, wantPush, pull, push, breaks>>

-----------------------------------------------------------------------------
(* pullOnce. *)

PullStart ==
    /\ mode = "idle" /\ wantPull
    /\ mode' = "pull"
    /\ wantPull' = FALSE
    /\ phase' = "collect" /\ target' = NoTarget /\ after' = cursor /\ more' = TRUE
    /\ fetched' = FALSE /\ page' = {} /\ window' = {} /\ deferred' = {} /\ todo' = {}
    /\ final' = FALSE /\ reached' = cursor
    /\ UNCHANGED <<log, store, wantPush, push, breaks>>

\* Not the code: the target the first page names is not kept.
TargetForgotten == target

\* The first page fixes the target.
PageTarget == IF target = NoTarget THEN head ELSE target

\* listEntryStates: the entries changed after `after`, up to the target, in the
\* order of their changes.
FetchPage ==
    LET upTo   == IF target = NoTarget THEN head ELSE target
        listed == {e \in Entry : after < seq[e] /\ seq[e] <= upTo}
    IN
    /\ mode = "pull" /\ more /\ ~fetched
    /\ \E P \in SUBSET listed :
        /\ Cardinality(P) <= PageSize
        /\ P = {} => listed = {}
        /\ \A e \in P, f \in listed \ P : seq[e] < seq[f]
        /\ page' = {[entry |-> e, seq |-> seq[e]] : e \in P}
        /\ more' = (P # listed)
        /\ after' \in {seq[e] : e \in P} \cup {after}
        /\ P # {} => IsLast(after', page')
        /\ P = {} => after' = after
    /\ fetched' = TRUE
    /\ target' = PageTarget
    /\ UNCHANGED <<log, store, mode, want, phase, window, deferred, todo, final,
                   reached, push, breaks>>

\* Not the code: the last window puts entries off as well.
LastWindowDefers(D) == TRUE

\* Entries whose path is owned by an entry outside the window wait for the next
\* window; the last window waits for nothing.
MayDefer(D) == more \/ D = {}

ConsumePage ==
    /\ mode = "pull" /\ phase = "collect" /\ fetched
    /\ window' = window \cup page
    /\ fetched' = FALSE /\ page' = {}
    /\ \/ /\ Cardinality(window') < ApplyWindow /\ more
          /\ UNCHANGED <<phase, deferred, todo, final>>
       \/ /\ Cardinality(window') >= ApplyWindow \/ ~more
          /\ \E D \in SUBSET window' :
                /\ MayDefer(D)
                /\ deferred' = D
                /\ todo' = window' \ D
          /\ phase' = "apply"
          /\ final' = ~more
    /\ UNCHANGED <<log, store, mode, want, target, after, more, reached, push, breaks>>

\* An entry older than the one recorded is a rollback and is not applied.  The
\* row is written anew, which settles a pending mutation.
ApplyItem(i) ==
    /\ mode = "pull" /\ phase = "apply" /\ i \in todo
    /\ todo' = todo \ {i}
    /\ \/ /\ i.seq >= applied[i.entry]
          /\ applied' = [applied EXCEPT ![i.entry] = i.seq]
          /\ dirty' = dirty \ {i.entry}
          /\ lost' = [lost EXCEPT ![i.entry] = 0]
       \/ /\ i.seq < applied[i.entry]
          /\ UNCHANGED <<applied, dirty, lost>>
    /\ UNCHANGED <<log, cursor, mode, want, phase, target, after, more, fetched, page,
                   window, deferred, final, reached, push, breaks>>

\* Not the code: entries put off do not hold the checkpoint back.
CheckpointPastDeferred(c) ==
    \/ /\ final
       /\ c = Larger(reached, target)
    \/ /\ ~final
       /\ \E i \in window : IsLast(i.seq, window) /\ c = Larger(reached, i.seq)

\* getSafeCheckpointCursor
SafeCheckpoint(c) ==
    \/ /\ deferred # {}
       /\ \E i \in deferred : /\ IsFirst(i.seq, deferred)
                              /\ c + 1 = Larger(reached + 1, i.seq)
    \/ /\ deferred = {} /\ final
       /\ c = Larger(reached, target)
    \/ /\ deferred = {} /\ ~final
       /\ \E i \in window : IsLast(i.seq, window) /\ c = Larger(reached, i.seq)

\* checkpointAppliedWindow, and the end of pullOnce after the last window.
Checkpoint ==
    /\ mode = "pull" /\ phase = "apply" /\ todo = {}
    /\ \E c \in 0..head :
        /\ SafeCheckpoint(c)
        /\ reached' = c
        /\ cursor' = Larger(cursor, c)
    /\ window' = deferred /\ deferred' = {}
    /\ phase' = "collect"
    /\ mode' = IF final THEN "idle" ELSE "pull"
    /\ UNCHANGED <<log, applied, dirty, lost, want, target, after, more, fetched, page,
                   todo, final, push, breaks>>

\* The drain asks for the failed work again, a restart for both (syncNow).
PullBreaks ==
    /\ mode = "pull" /\ breaks < MaxBreaks
    /\ breaks' = breaks + 1
    /\ mode' = "idle"
    /\ wantPull' = TRUE /\ wantPush' \in {wantPush, TRUE}
    /\ UNCHANGED <<log, store, pull, push>>

Pull == \/ PullStart \/ FetchPage \/ ConsumePage \/ Checkpoint
        \/ \E i \in todo : ApplyItem(i)

-----------------------------------------------------------------------------
(* pushPendingMutations. *)

PushStart ==
    /\ mode = "idle" /\ wantPush /\ ~wantPull
    /\ mode' = "push"
    /\ wantPush' = FALSE
    /\ answer' = {} /\ acked' = {} /\ stale' = FALSE
    /\ UNCHANGED <<log, store, wantPull, pull, breaks>>

\* The server answers a mutation it has accepted before as it did then; a new
\* one it accepts when its base is the entry's last change.
Commit(e) ==
    /\ mode = "push" /\ ~stale
    /\ e \in dirty /\ \A i \in answer : i.entry # e
    /\ \/ /\ lost[e] # 0
          /\ answer' = answer \cup {[entry |-> e, seq |-> lost[e]]}
          /\ UNCHANGED <<log, lost, stale>>
       \/ /\ lost[e] = 0 /\ applied[e] = seq[e]
          /\ head' = head + 1
          /\ seq' = [seq EXCEPT ![e] = head + 1]
          /\ lost' = [lost EXCEPT ![e] = head + 1]
          /\ answer' = answer \cup {[entry |-> e, seq |-> head + 1]}
          /\ UNCHANGED stale
       \/ /\ lost[e] = 0 /\ applied[e] # seq[e]
          /\ stale' = TRUE
          /\ UNCHANGED <<log, lost, answer>>
    /\ UNCHANGED <<applied, dirty, cursor, mode, want, pull, acked, breaks>>

\* applyAcceptedPushBatch: one transaction for the answered batch.  A mutation
\* queued meanwhile stays pending.
Answered(e) == {i \in answer : i.entry = e}
Settled == {e \in Entry : \E i \in Answered(e) : lost[e] = i.seq}

ApplyAccepted ==
    /\ mode = "push" /\ answer # {}
    /\ applied' = [e \in Entry |-> IF Answered(e) = {} THEN applied[e]
                                   ELSE (CHOOSE i \in Answered(e) : TRUE).seq]
    /\ dirty' = dirty \ Settled
    /\ lost' = [e \in Entry |-> IF e \in Settled THEN 0 ELSE lost[e]]
    /\ acked' = acked \cup {i.seq : i \in answer}
    /\ answer' = {}
    /\ UNCHANGED <<log, cursor, mode, want, pull, stale, breaks>>

\* Not the code: the push checkpoints its last acceptance.
LastAccepted(c) == c \in acked \cup {cursor} /\ \A n \in acked : n <= c

\* getContiguousAcceptedCursor
Contiguous(c) ==
    /\ c \in acked \cup {cursor}
    /\ \A n \in 1..c : n > cursor => n \in acked
    /\ c >= cursor /\ c + 1 \notin acked

\* The cursor stops at the first number that is not ours; what lies beyond it
\* has to be pulled.
PushFinish ==
    /\ mode = "push" /\ answer = {}
    /\ stale \/ wantPull \/ dirty = {}
    /\ \E c \in 0..head :
        /\ Contiguous(c)
        /\ cursor' = c
        /\ wantPull' = (wantPull \/ stale \/ \E n \in acked : n > c)
    /\ wantPush' = (dirty # {})
    /\ mode' = "idle"
    /\ UNCHANGED <<log, applied, dirty, lost, pull, push, breaks>>

PushBreaks ==
    /\ mode = "push" /\ breaks < MaxBreaks
    /\ breaks' = breaks + 1
    /\ mode' = "idle"
    /\ wantPush' = TRUE /\ wantPull' \in {wantPull, TRUE}
    /\ UNCHANGED <<log, store, pull, push>>

Push == \/ PushStart \/ ApplyAccepted \/ PushFinish \/ \E e \in Entry : Commit(e)

-----------------------------------------------------------------------------
Init ==
    /\ head = 0 /\ seq = [e \in Entry |-> 0]
    /\ applied = [e \in Entry |-> 0] /\ dirty = {} /\ lost = [e \in Entry |-> 0]
    /\ cursor = 0
    /\ mode = "idle" /\ wantPull = FALSE /\ wantPush = FALSE
    /\ phase = "collect" /\ target = NoTarget /\ after = 0 /\ more = TRUE
    /\ fetched = FALSE /\ page = {} /\ window = {} /\ deferred = {} /\ todo = {}
    /\ final = FALSE /\ reached = 0
    /\ answer = {} /\ acked = {} /\ stale = FALSE
    /\ breaks = 0

Next ==
    \/ Pull \/ Push \/ PullBreaks \/ PushBreaks
    \/ \E e \in Entry : Edit(e) \/ RemoteChange(e)

Spec == Init /\ [][Next]_vars

\* The drain keeps working while work is requested; nobody has to edit.
FairSpec == Spec /\ WF_vars(Pull) /\ WF_vars(Push)

-----------------------------------------------------------------------------
(* Properties. *)

\* The shape of the state: a page comes with the target of its pull.
TypeOK ==
    /\ head \in Nat /\ seq \in [Entry -> Nat]
    /\ applied \in [Entry -> Nat] /\ dirty \subseteq Entry
    /\ lost \in [Entry -> Nat] /\ cursor \in Nat
    /\ mode \in {"idle", "pull", "push"}
    /\ wantPull \in BOOLEAN /\ wantPush \in BOOLEAN
    /\ phase \in {"collect", "apply"} /\ target \in Nat \cup {NoTarget}
    /\ phase = "apply" \/ fetched => target # NoTarget
    /\ after \in Nat /\ more \in BOOLEAN
    /\ fetched \in BOOLEAN /\ page \subseteq Item
    /\ window \subseteq Item /\ deferred \subseteq Item /\ todo \subseteq Item
    /\ final \in BOOLEAN /\ reached \in Nat
    /\ answer \subseteq Item /\ acked \subseteq Nat /\ stale \in BOOLEAN
    /\ breaks \in Nat

\* The cursor covers only changes the store holds: an entry whose last change
\* is at or below the cursor is never listed again, so it must be applied.
NothingSkipped == \A e \in Entry : seq[e] <= cursor => applied[e] = seq[e]

\* Once nobody edits any more the device holds every change, and the server
\* every edit of the device.  (The cursor itself may stay behind: a push that
\* breaks after its last batch leaves it to the next pull.)
CatchesUp == <>[](applied = seq /\ dirty = {})
=============================================================================
