--------------------------- MODULE ContentBudget ---------------------------
(***************************************************************************)
(* The bytes a device may hold in memory, and who holds them: the workers  *)
(* of a push, the groups of a pull, reads of the recorder and of the       *)
(* reconcile, and the cache of ciphertexts kept for a retry.               *)
(*                                                                         *)
(* A push prepares mutations in parallel and keeps the reservation of each *)
(* until the batch it is in has been committed; a pull prepares groups in  *)
(* parallel and applies them in the order of the plan.  One drain runs at  *)
(* a time, reads at any time.  The timer that lets a batch grow may fire   *)
(* as soon as something is ready, and a batch takes all that is ready.     *)
(***************************************************************************)
EXTENDS Integers, Sequences, FiniteSets, FiniteSetsExt, SequencesExt

CONSTANTS
    Item,        \* mutations with content, numbered in queue order
    Bare,        \* mutations without (deletes, paths that cannot be synced)
    Group,       \* groups of a pull, numbered in plan order
    Read,        \* reads of a file outside the drain
    SizeOf(_),   \* what each asks for
    GrownTo(_),  \* what the content of a group turns out to need
    Cached,      \* the items whose ciphertext is kept (text files)
    MaxBytes,    \* the budget
    CacheBytes,  \* the share of it the cache may take
    Workers,     \* preparations at a time
    MaxOwned,    \* mutations a push takes from the store at a time
    MaxDrains,   \* bound on drains
    MaxReads,    \* bound on reads
    MaxFails     \* bound on requeues, rejections and failures

Mutation == Item \cup Bare
Work == Mutation \cup Group
Holder == Item \cup Group \cup Read

ASSUME ContentBudgetAssumption ==
    /\ Work \cup Read \subseteq Nat \ {0} /\ IsFiniteSet(Work \cup Read)
    /\ Item \cap (Bare \cup Group \cup Read) = {} /\ Bare \cap (Group \cup Read) = {}
    /\ Group \cap Read = {} /\ Cached \subseteq Item
    /\ \A h \in Holder : SizeOf(h) \in Nat
    /\ \A g \in Group : GrownTo(g) \in Nat /\ GrownTo(g) >= SizeOf(g)
    /\ {MaxBytes, CacheBytes, MaxDrains, MaxReads, MaxFails} \subseteq Nat
    /\ Workers \in Nat \ {0} /\ MaxOwned \in Nat \ {0}

VARIABLES
    budget,   \* bytes and number of the active reservations, those waiting
    holds,    \* who has a reservation
    grown,    \* the groups that were charged beyond their estimate
    cache,    \* the cached ciphertexts, oldest first
    reclaim,  \* reclaimIdleContent is at work
    drain,    \* what runs, and how far its end has come
    stage,    \* where each mutation and each group is
    used      \* how much of each bound is used

budgetVars == <<budget, holds, grown, cache, reclaim, drain, stage, used>>

NoGroup == 0
NoDrain == [kind |-> "none", stop |-> FALSE, yield |-> FALSE, closing |-> FALSE,
            head |-> NoGroup]

BudgetInit ==
    /\ budget = [bytes |-> 0, active |-> 0, queue |-> <<>>]
    /\ holds = {} /\ grown = {} /\ cache = <<>> /\ reclaim = FALSE
    /\ drain = NoDrain
    /\ stage = [w \in Work |-> "queued"]
    /\ used = [drains |-> 0, reads |-> 0, fails |-> 0]

(* The entries of a Map, in order of insertion, but for those of S *)
Dropping(entries, S) ==
    LET Kept[n \in 0..Len(entries)] ==
          IF n = 0 THEN <<>>
          ELSE IF entries[n] \in S THEN Kept[n - 1] ELSE Append(Kept[n - 1], entries[n])
    IN Kept[Len(entries)]

Use(what, bound) == used[what] < bound /\ used' = [used EXCEPT ![what] = @ + 1]

At(s) == {w \in Work : stage[w] = s}
Put(S, s) == stage' = [w \in Work |-> IF w \in S THEN s ELSE stage[w]]
-----------------------------------------------------------------------------
(* The budget: BytesInFlightBudget. *)

Charge(h) == IF h \in grown THEN GrownTo(h) ELSE SizeOf(h)
Total(S) == MapThenSumSet(Charge, S)
Asked(S) == MapThenSumSet(SizeOf, S)

AnyRoomWillDo(bytes, active, size) ==  \* Not the code: the last one may exceed.
    bytes < MaxBytes

CanAcquire(bytes, active, size) ==
    IF size > MaxBytes THEN active = 0 ELSE bytes + size <= MaxBytes

(* How many of those waiting are admitted, in turn: none overtakes another. *)
Admitted(b) ==
    LET Ahead(n) == Asked({b.queue[k] : k \in 1..n})
    IN Max({n \in 0..Len(b.queue) :
              \A k \in 1..n : CanAcquire(b.bytes + Ahead(k - 1), b.active + k - 1,
                                         SizeOf(b.queue[k]))})

(* drain() over the budget b, when the others hold. *)
DrainBudget(b, holding) ==
    LET n   == Admitted(b)
        new == SubSeq(b.queue, 1, n)
    IN /\ budget' = [bytes  |-> b.bytes + Asked(ToSet(new)),
                     active |-> b.active + n,
                     queue  |-> SubSeq(b.queue, n + 1, Len(b.queue))]
       /\ holds' = holding \cup ToSet(new)

(* reserve: acquire, then reclaimIdleContent if somebody is left waiting. *)
NeverReclaims(h) ==  \* Not the code: the cache keeps what others wait for.
    /\ DrainBudget([budget EXCEPT !.queue = Append(@, h)], holds)
    /\ UNCHANGED reclaim

Reserve(h) ==
    /\ DrainBudget([budget EXCEPT !.queue = Append(@, h)], holds)
    /\ reclaim' = (reclaim \/ budget'.queue # <<>>)

(* release of the reservations of S, and of those of the ciphertexts C *)
ReleasedTwice(S, C) ==  \* Not the code: a second release counts again.
    [budget EXCEPT !.bytes = @ - 2 * Total(S) - Asked(C), !.active = @ - Cardinality(S)]

Without(S, C) ==
    [budget EXCEPT !.bytes = @ - Total(S) - Asked(C),
                   !.active = @ - Cardinality(S) - Cardinality(C)]

Release(S) == DrainBudget(Without(S, {}), holds \ S) /\ grown' = grown \ S

(* One turn of the loop of reclaimIdleContent: the oldest goes, or it ends. *)
Reclaim ==
    /\ reclaim
    /\ IF budget.queue # <<>> /\ cache # <<>>
       THEN /\ cache' = Tail(cache)
            /\ DrainBudget(Without({}, {Head(cache)}), holds)
            /\ UNCHANGED reclaim
       ELSE reclaim' = FALSE /\ UNCHANGED <<budget, holds, cache>>
    /\ UNCHANGED <<grown, drain, stage, used>>

(***************************************************************************)
(* PushBlobRetryCache.put: the entry of the item goes, then the oldest     *)
(* ones until the new one fits the cache; it is taken only if the budget   *)
(* has room for it at once and nobody waits (tryAcquire).                  *)
(***************************************************************************)
CachePut(i) ==
    LET others == Dropping(cache, {i})
        From(n) == SubSeq(others, n, Len(others))
        keep == IF SizeOf(i) > CacheBytes THEN others
                ELSE From(Min({n \in 1..Len(others) + 1 :
                                 \/ n > Len(others)
                                 \/ Asked(ToSet(From(n))) + SizeOf(i) <= CacheBytes}))
        gone == ToSet(cache) \ ToSet(keep)
        b == Without({}, gone)
        room == /\ SizeOf(i) <= CacheBytes
                /\ Admitted(b) = Len(b.queue)
                /\ CanAcquire(b.bytes + Asked(ToSet(b.queue)),
                              b.active + Len(b.queue), SizeOf(i))
    IN IF room
       THEN /\ cache' = Append(keep, i)
            /\ DrainBudget([b EXCEPT !.bytes = @ + SizeOf(i), !.active = @ + 1], holds)
       ELSE cache' = keep /\ DrainBudget(b, holds)
-----------------------------------------------------------------------------
(* Reads: withReservation. *)

ReadAsks(r) ==
    /\ r \notin holds /\ r \notin ToSet(budget.queue)
    /\ Use("reads", MaxReads)
    /\ Reserve(r)
    /\ UNCHANGED <<grown, cache, drain, stage>>

ReadEnds(r) ==
    /\ r \in holds
    /\ Release({r})
    /\ UNCHANGED <<cache, reclaim, drain, stage, used>>
-----------------------------------------------------------------------------
(* A push: preparePushBatches and the loop of the service that reads it. *)

Running(kind) == drain.kind = kind /\ ~drain.closing
Job == At("job")
Owned == Mutation \cap (At("waiting") \cup Job \cup At("ready") \cup At("batch"))
MayWork(w) == stage[w] = "job" /\ (w \in Bare \/ w \in holds)

PushStart ==
    /\ drain.kind = "none"
    /\ Use("drains", MaxDrains)
    /\ drain' = [NoDrain EXCEPT !.kind = "push"]
    /\ UNCHANGED <<budget, holds, grown, cache, reclaim, stage>>

(* A pull was requested: shouldYield is true from now on. *)
PushYields ==
    /\ drain.kind = "push" /\ ~drain.yield
    /\ drain' = [drain EXCEPT !.yield = TRUE]
    /\ UNCHANGED <<budget, holds, grown, cache, reclaim, stage, used>>

(* load: the first pending mutations that are not owned, as many as fit *)
PushLoad ==
    /\ Running("push") /\ ~drain.yield /\ ~drain.stop
    /\ At("batch") = {} /\ Cardinality(Owned) < MaxOwned
    /\ LET free == Mutation \cap At("queued")
           room == MaxOwned - Cardinality(Owned)
       IN /\ free # {}
          /\ Put({m \in free : Cardinality({k \in free : k < m}) < room}, "waiting")
    /\ UNCHANGED <<budget, holds, grown, cache, reclaim, drain, used>>

(* pump: the next one in turn gets a job, and asks for its bytes *)
PushPump ==
    /\ drain.kind = "push" /\ ~drain.yield /\ ~drain.stop
    /\ Cardinality(Job) < Workers
    /\ At("waiting") # {}
    /\ LET m == Min(At("waiting"))
       IN /\ Put({m}, "job")
          /\ IF m \in Item THEN Reserve(m) ELSE UNCHANGED <<budget, holds, reclaim>>
    /\ UNCHANGED <<grown, cache, drain, used>>

(* Once stopped, what a job prepared is disposed of at once. *)
PushPrepared(m) ==
    /\ drain.kind = "push" /\ m \in Mutation /\ MayWork(m)
    /\ IF drain.stop
       THEN Put({m}, "queued") /\ Release({m} \cap Item) /\ UNCHANGED cache
       ELSE /\ Put({m}, "ready")
            /\ UNCHANGED grown
            /\ IF m \in Cached THEN CachePut(m) ELSE UNCHANGED <<budget, holds, cache>>
    /\ UNCHANGED <<reclaim, drain, used>>

(* Skipped or requeued: the result holds no content, and still takes its  *)
(* turn in a batch, which leaves the mutation pending.                    *)
PushSkips(m) ==
    /\ drain.kind = "push" /\ m \in Item /\ MayWork(m)
    /\ Use("fails", MaxFails)
    /\ Put({m}, IF drain.stop THEN "queued" ELSE "ready")
    /\ Release({m})
    /\ UNCHANGED <<cache, reclaim, drain>>

PushJobFails(m) ==
    /\ drain.kind = "push" /\ m \in Mutation /\ MayWork(m)
    /\ Use("fails", MaxFails)
    /\ Put({m}, "queued")
    /\ Release({m} \cap Item)
    /\ drain' = [drain EXCEPT !.stop = TRUE]
    /\ UNCHANGED <<cache, reclaim>>

PushYieldsBatch ==
    /\ Running("push") /\ ~drain.stop
    /\ At("batch") = {} /\ At("ready") # {}
    /\ Put(At("ready"), "batch")
    /\ UNCHANGED <<budget, holds, grown, cache, reclaim, drain, used>>

(***************************************************************************)
(* The answer to a batch.  What the coordinator accepted loses its cached  *)
(* ciphertext at once, the rest keeps it; those in over have left the      *)
(* queue when the batch gives back its bytes.                              *)
(***************************************************************************)
BatchForgetsCache(accepted) ==  \* Not the code: their bytes stay charged.
    /\ DrainBudget(Without(At("batch") \cap holds, {}), holds \ At("batch"))
    /\ UNCHANGED grown

BatchReturns(accepted) ==
    /\ DrainBudget(Without(At("batch") \cap holds, ToSet(cache) \cap accepted),
                   holds \ At("batch"))
    /\ UNCHANGED grown

BatchEnds(accepted, over) ==
    /\ At("batch") # {}
    /\ stage' = [w \in Work |-> IF w \in over THEN "done"
                                ELSE IF w \in At("batch") THEN "queued"
                                ELSE stage[w]]
    /\ BatchReturns(accepted)
    /\ cache' = Dropping(cache, accepted)
    /\ UNCHANGED reclaim

Committable == At("batch") \cap (holds \cup Bare)  \* what is committed of the batch

PushCommitted == BatchEnds(Committable, Committable) /\ UNCHANGED <<drain, used>>

(* Some are conflicts, which are resolved on the device: the drain goes on. *)
PushConflicts ==
    /\ Use("fails", MaxFails)
    /\ \E accepted \in SUBSET Committable : BatchEnds(accepted, Committable)
    /\ UNCHANGED drain

(* A stale rejection, or a failure of the commit or of the store once the  *)
(* answer is there, ends the drain after this batch.                       *)
PushRefused ==
    /\ Use("fails", MaxFails)
    /\ \E accepted \in SUBSET Committable : BatchEnds(accepted, accepted) \/ BatchEnds(accepted, {})
    /\ drain' = [drain EXCEPT !.stop = TRUE]

(* The loop ends by a failure, a refusal, or when nothing is left to do.   *)
(* finally: what is ready is disposed of before the jobs are joined.       *)
PushCloses ==
    /\ Running("push") /\ At("batch") = {}
    /\ \/ drain.stop
       \/ /\ At("ready") = {} /\ Job = {}
          /\ drain.yield \/ Owned \cup (Mutation \cap At("queued")) = {}
    /\ drain' = [drain EXCEPT !.stop = TRUE, !.closing = TRUE]
    /\ Put(At("waiting") \cup At("ready"), "queued")
    /\ Release(At("ready") \cap holds)
    /\ UNCHANGED <<cache, reclaim, used>>

PushEnds ==
    /\ drain.kind = "push" /\ drain.closing /\ Job = {}
    /\ drain' = NoDrain
    /\ UNCHANGED <<budget, holds, grown, cache, reclaim, stage, used>>
-----------------------------------------------------------------------------
(* A pull: runPullPreparationPipeline. *)

PendingGroups == {g \in Group : stage[g] \in {"job", "prepared", "null"} /\ g # drain.head}

PullStart ==
    /\ drain.kind = "none" /\ Group # {}
    /\ Use("drains", MaxDrains)
    /\ drain' = [NoDrain EXCEPT !.kind = "pull"]
    /\ Put(Group, "queued")
    /\ UNCHANGED <<budget, holds, grown, cache, reclaim>>

(* The next group in plan order asks for its bytes. *)
PullFill ==
    /\ Running("pull") /\ ~drain.stop /\ drain.head = NoGroup
    /\ Group \cap At("queued") # {} /\ Cardinality(PendingGroups) < Workers
    /\ LET g == Min(Group \cap At("queued")) IN Put({g}, "job") /\ Reserve(g)
    /\ UNCHANGED <<grown, cache, drain, used>>

(* pending.shift(): the consumer waits for the group in turn *)
PullTakesHead ==
    /\ Running("pull") /\ drain.head = NoGroup /\ PendingGroups # {}
    /\ drain.stop \/ Group \cap At("queued") = {} \/ Cardinality(PendingGroups) = Workers
    /\ drain' = [drain EXCEPT !.head = Min(PendingGroups)]
    /\ UNCHANGED <<budget, holds, grown, cache, reclaim, stage, used>>

(* retain: local input is charged on top, without waiting *)
PullRetains(g) ==
    /\ drain.kind = "pull" /\ g \in Group /\ MayWork(g)
    /\ g \notin grown
    /\ grown' = grown \cup {g}
    /\ DrainBudget([budget EXCEPT !.bytes = @ + GrownTo(g) - SizeOf(g)], holds)
    /\ UNCHANGED <<cache, reclaim, drain, stage, used>>

(* A group admitted after the stop is cleared, and yields nothing.    *)
PullPrepared(g) ==
    /\ drain.kind = "pull" /\ g \in Group /\ MayWork(g)
    /\ \/ /\ Put({g}, "prepared") /\ UNCHANGED <<budget, holds, grown>>
       \/ /\ drain.stop /\ g \notin grown
          /\ Put({g}, "null") /\ Release({g})
    /\ UNCHANGED <<cache, reclaim, drain, used>>

PullJobFails(g) ==
    /\ drain.kind = "pull" /\ g \in Group /\ MayWork(g)
    /\ Use("fails", MaxFails)
    /\ Put({g}, "null") /\ Release({g})
    /\ drain' = [drain EXCEPT !.stop = TRUE]
    /\ UNCHANGED <<cache, reclaim>>

(* The group in turn is applied and cleared, or the pull comes to its end: *)
(* the group is missing, something failed before, or its apply fails.      *)
PullApplied ==
    /\ Running("pull") /\ ~drain.stop /\ drain.head # NoGroup
    /\ stage[drain.head] = "prepared"
    /\ Put({drain.head}, "done") /\ Release({drain.head})
    /\ drain' = [drain EXCEPT !.head = NoGroup]
    /\ UNCHANGED <<cache, reclaim, used>>

PullCloses ==
    /\ Running("pull") /\ drain.head # NoGroup
    /\ LET g == drain.head
       IN \/ stage[g] = "null" /\ Put({g}, "gone") /\ UNCHANGED <<budget, holds, grown, used>>
          \/ /\ stage[g] = "prepared"
             /\ (drain.stop /\ UNCHANGED used) \/ Use("fails", MaxFails)
             /\ Put({g}, "gone") /\ Release({g})
    /\ drain' = [drain EXCEPT !.stop = TRUE, !.closing = TRUE, !.head = NoGroup]
    /\ UNCHANGED <<cache, reclaim>>

(* finally: each result is released as it settles *)
PullSettles(g) ==
    /\ drain.kind = "pull" /\ drain.closing /\ g \in Group /\ stage[g] \in {"prepared", "null"}
    /\ Put({g}, "gone") /\ Release({g} \cap holds)
    /\ UNCHANGED <<cache, reclaim, drain, used>>

PullEnds ==
    /\ drain.kind = "pull" /\ drain.head = NoGroup /\ PendingGroups = {}
    /\ drain.closing \/ Group \cap At("queued") = {}
    /\ drain' = NoDrain
    /\ UNCHANGED <<budget, holds, grown, cache, reclaim, stage, used>>
-----------------------------------------------------------------------------
PushStep ==
    \/ PushLoad \/ PushPump \/ PushYieldsBatch \/ PushCommitted \/ PushCloses
    \/ PushEnds \/ \E m \in Mutation : PushPrepared(m)

PullStep ==
    \/ PullFill \/ PullTakesHead \/ PullApplied \/ PullCloses \/ PullEnds
    \/ \E g \in Group : PullPrepared(g) \/ PullSettles(g)

BudgetNext ==
    \/ Reclaim \/ PushStart \/ PushYields \/ PushStep \/ PushConflicts \/ PushRefused
    \/ PullStart \/ PullStep
    \/ \E r \in Read : ReadAsks(r) \/ ReadEnds(r)
    \/ \E m \in Mutation : PushSkips(m) \/ PushJobFails(m)
    \/ \E g \in Group : PullRetains(g) \/ PullJobFails(g)

(* Every started operation comes back: a store read, an upload, a commit,  *)
(* an apply (the network calls have time limits).                          *)
BudgetFairness ==
    /\ WF_budgetVars(Reclaim)
    /\ WF_budgetVars(PushStep)
    /\ WF_budgetVars(PullStep)
    /\ WF_budgetVars(\E r \in Read : ReadEnds(r))

BudgetSpec == BudgetInit /\ [][BudgetNext]_budgetVars /\ BudgetFairness
-----------------------------------------------------------------------------
Stage == {"queued", "waiting", "job", "ready", "batch", "prepared", "null", "done", "gone"}

BudgetTypeOK ==
    /\ budget \in [bytes : Nat, active : Nat, queue : Seq(Holder)]
    /\ holds \subseteq Holder /\ grown \subseteq Group
    /\ cache \in Seq(Cached) /\ reclaim \in BOOLEAN
    /\ drain \in [kind : {"none", "push", "pull"}, stop : BOOLEAN, yield : BOOLEAN,
                  closing : BOOLEAN, head : Group \cup {NoGroup}]
    /\ stage \in [Work -> Stage]

(***************************************************************************)
(* The accounts of the budget agree with who really holds bytes: nothing   *)
(* is released twice and nothing is lost, whatever fails and in whatever   *)
(* order jobs, batches and groups come to their end; and when no drain     *)
(* runs, reads and the cache hold all there is (ContentReservation).       *)
(***************************************************************************)
NoBytesLeak ==
    /\ budget.bytes = Total(holds) + Asked(ToSet(cache))
    /\ budget.active = Cardinality(holds) + Len(cache)
    /\ ToSet(budget.queue) \cap holds = {}
    /\ drain.kind = "none" => holds \subseteq Read

(***************************************************************************)
(* What was admitted fits the budget, or it is one reservation larger than *)
(* the budget, alone (class comment of BytesInFlightBudget).               *)
(***************************************************************************)
AdmittedFits ==
    Asked(holds) + Asked(ToSet(cache)) <= MaxBytes \/ budget.active = 1

(***************************************************************************)
(* Whoever waits for bytes gets them and gives them back, and a drain      *)
(* comes to its end: no order of jobs, batches, failures, reads and cached *)
(* ciphertexts leaves everybody waiting for the others.                    *)
(***************************************************************************)
Busy == drain.kind # "none" \/ holds # {} \/ budget.queue # <<>>
WorkComesToRest == Busy ~> ~Busy
=============================================================================
