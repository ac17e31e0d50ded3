---------------------------- MODULE Pools_proofs ----------------------------
(* That both pools, the hash workers and the transfers, start jobs in turn,  *)
(* never too many, and leave nobody waiting beside free room: the safety     *)
(* part of JobPool, for any number of jobs, slots and limits.                *)
EXTENDS HashPool, TransferScheduler, FiniteSetTheorems, TLAPS

-----------------------------------------------------------------------------
(* Finite sets of numbers, and the rank of a number in one. *)

LEMMA Least ==
    ASSUME NEW T \in SUBSET Nat, T # {}
    PROVE  \E x \in T : \A y \in T : x <= y
<1>1. PICK x \in T : \A y \in T : ~(<<y, x>> \in OpToRel(<, Nat))
  BY WFMin, NatLessThanWellFounded
<1>2. \A y \in T : ~(y < x)
  BY <1>1 DEF OpToRel
<1> QED
  BY <1>2

\* Of the elements of a set there is one for which a measure is least.
LEMMA LeastBy ==
    ASSUME NEW S, S # {}, NEW f \in [S -> Nat]
    PROVE  \E x \in S : \A y \in S : f[x] <= f[y]
<1> DEFINE U == {f[y] : y \in S}
<1>1. U \in SUBSET Nat /\ U # {}
  OBVIOUS
<1>2. PICK u \in U : \A v \in U : u <= v
  <2> HIDE DEF U
  <2> QED
    BY <1>1, Least
<1> QED
  BY <1>2

\* How many of S come before x.
Rank(S, x) == Cardinality({y \in S : y < x})

Numbers(S) == S \in SUBSET Nat /\ IsFiniteSet(S)

LEMMA RankType ==
    ASSUME NEW S, Numbers(S), NEW x
    PROVE  Rank(S, x) \in Nat
  BY FS_Subset, FS_CardinalityType DEF Rank, Numbers

\* The rank tells the elements apart, in their order.
LEMMA RankOrder ==
    ASSUME NEW S, Numbers(S), NEW x \in S, NEW y \in S, x < y
    PROVE  Rank(S, x) < Rank(S, y)
<1> DEFINE A == {z \in S : z < x}
           B == {z \in S : z < y}
<1>1. x \in Nat /\ y \in Nat /\ \A z \in S : z \in Nat
  BY DEF Numbers
<1>2. A \in SUBSET B /\ x \in B /\ x \notin A
  <2>1. \A z \in S : z < x => z < y
    BY <1>1
  <2>2. ~(x < x)
    BY <1>1
  <2> QED
    BY <2>1, <2>2
<1>3. IsFiniteSet(B)
  BY FS_Subset DEF Numbers
<1>4. Cardinality(A) <= Cardinality(B) /\ Cardinality(A) # Cardinality(B)
  BY <1>2, <1>3, FS_Subset
<1>5. Rank(S, x) = Cardinality(A) /\ Rank(S, y) = Cardinality(B)
  BY DEF Rank
<1> QED
  BY <1>4, <1>5, RankType

LEMMA RankInjective ==
    ASSUME NEW S, Numbers(S), NEW x \in S, NEW y \in S, Rank(S, x) = Rank(S, y)
    PROVE  x = y
<1>1. x \in Nat /\ y \in Nat /\ Rank(S, x) \in Nat /\ Rank(S, y) \in Nat
  BY RankType DEF Numbers
<1>2. CASE x < y
  BY <1>1, <1>2, RankOrder
<1>3. CASE y < x
  BY <1>1, <1>3, RankOrder
<1> QED
  BY <1>1, <1>2, <1>3

\* The ranks have no gaps: below an element of rank n + 1 there is one of rank n.
LEMMA RankDown ==
    ASSUME NEW S, Numbers(S), NEW x \in S, Rank(S, x) # 0
    PROVE  \E y \in S : Rank(S, y) = Rank(S, x) - 1
<1> DEFINE B == {z \in S : z < x}
<1>1. x \in Nat /\ \A z \in S : z \in Nat
  BY DEF Numbers
<1>2. IsFiniteSet(B) /\ Rank(S, x) = Cardinality(B) /\ B # {}
  BY FS_Subset, FS_EmptySet DEF Numbers, Rank
<1>3. PICK y \in B : \A z \in B : z <= y
  <2> DEFINE f == [z \in B |-> x - z]
  <2>1. f \in [B -> Nat]
    <3>1. \A z \in B : x - z \in Nat
      BY <1>1
    <3> QED
      BY <3>1
  <2>2. PICK y \in B : \A z \in B : f[y] <= f[z]
    <3> HIDE DEF f, B
    <3> QED
      BY <1>2, <2>1, LeastBy
  <2>3. ASSUME NEW z \in B PROVE z <= y
    <3>1. x - y <= x - z
      BY <2>2
    <3> QED
      BY <1>1, <3>1
  <2> QED
    BY <2>3
<1>4. {z \in S : z < y} = B \ {y}
  <2>1. \A z \in S : z < y <=> z < x /\ z # y
    <3> SUFFICES ASSUME NEW z \in S PROVE z < y <=> z < x /\ z # y
      OBVIOUS
    <3>1. z \in Nat /\ y \in Nat /\ y < x /\ (z < x => z <= y)
      BY <1>1, <1>3
    <3> QED
      BY <1>1, <3>1
  <2> QED
    BY <2>1
<1>5. Cardinality(B \ {y}) = Cardinality(B) - 1
  BY <1>2, FS_RemoveElement
<1>6. Rank(S, y) = Rank(S, x) - 1
  BY <1>2, <1>4, <1>5 DEF Rank
<1> QED
  BY <1>6

LEMMA RankAll ==
    ASSUME NEW S, Numbers(S), NEW x \in S, NEW n \in Nat, n <= Rank(S, x)
    PROVE  \E y \in S : Rank(S, y) = n
<1> DEFINE T == {y \in S : n <= Rank(S, y)}
           f == [y \in T |-> Rank(S, y)]
<1>1. f \in [T -> Nat] /\ T # {}
  BY RankType
<1>2. PICK y \in T : \A z \in T : f[y] <= f[z]
  <2> HIDE DEF f, T
  <2> QED
    BY <1>1, LeastBy
<1>3. \A z \in T : Rank(S, y) <= Rank(S, z)
  BY <1>2
<1>4. ASSUME Rank(S, y) # n PROVE FALSE
  <2>1. Rank(S, y) \in Nat /\ n <= Rank(S, y)
    BY RankType
  <2>2. Rank(S, y) # 0 /\ n <= Rank(S, y) - 1
    BY <1>4, <2>1
  <2>3. PICK z \in S : Rank(S, z) = Rank(S, y) - 1
    BY <2>2, RankDown
  <2>4. z \in T
    BY <2>2, <2>3
  <2> QED
    BY <1>3, <2>1, <2>3, <2>4
<1> QED
  BY <1>4

\* The elements of the first n ranks are n, or all there are.
LEMMA FirstRanks ==
    ASSUME NEW S, Numbers(S), NEW n \in Nat
    PROVE  LET F == {x \in S : Rank(S, x) < n}
           IN  /\ IsFiniteSet(F) /\ Cardinality(F) \in Nat /\ Cardinality(F) <= n
               /\ F = S \/ Cardinality(F) = n
<1> DEFINE F == {x \in S : Rank(S, x) < n}
           f == [x \in F |-> Rank(S, x) + 1]
<1>1. IsFiniteSet(F) /\ Cardinality(F) \in Nat
  BY FS_Subset, FS_CardinalityType DEF Numbers
<1>2. IsFiniteSet(1..n) /\ Cardinality(1..n) = n
  BY FS_Interval
<1>3. \A x \in F : Rank(S, x) \in Nat /\ Rank(S, x) + 1 \in 1..n
  BY RankType
<1>4. f \in Injection(F, 1..n)
  <2>1. f \in [F -> 1..n]
    BY <1>3
  <2>2. \A x, y \in F : f[x] = f[y] => x = y
    BY <1>3, RankInjective
  <2> HIDE DEF f, F
  <2> QED
    BY <2>1, <2>2 DEF Injection, IsInjective
<1>5. /\ Cardinality(F) <= n
      /\ f \in Surjection(F, 1..n) => Cardinality(F) = n
  <2> HIDE DEF f, F
  <2> QED
    BY <1>2, <1>4, FS_Injection
<1>6. ASSUME F # S PROVE Cardinality(F) = n
  <2>1. PICK x \in S : ~(Rank(S, x) < n)
    BY <1>6
  <2>2. Rank(S, x) \in Nat /\ n <= Rank(S, x)
    BY <2>1, RankType
  <2>3. ASSUME NEW i \in 1..n PROVE \E y \in F : f[y] = i
    <3>1. i - 1 \in Nat /\ i - 1 <= Rank(S, x) /\ i - 1 < n
      BY <2>2
    <3>2. PICK y \in S : Rank(S, y) = i - 1
      BY <3>1, RankAll
    <3>3. y \in F /\ f[y] = i
      BY <3>1, <3>2
    <3> QED
      BY <3>3
  <2>4. f \in Surjection(F, 1..n)
    <3>1. f \in [F -> 1..n]
      BY <1>3
    <3> HIDE DEF f, F
    <3> QED
      BY <2>3, <3>1 DEF Surjection
  <2> QED
    BY <1>5, <2>4
<1> HIDE DEF f
<1> QED
  BY <1>1, <1>5, <1>6

-----------------------------------------------------------------------------
(* The pump of the hash workers: the n-th idle slot and the n-th job. *)

TakingFrom(queue, idle) == {s \in idle : JobFor(s, queue, idle) # {}}
JobOf(s, queue, idle) == CHOOSE j \in JobFor(s, queue, idle) : TRUE
StartedFrom(queue, idle) == {JobOf(s, queue, idle) : s \in TakingFrom(queue, idle)}

\* Each slot that takes a job takes one of its own; jobs start in turn; and all slots
\* take one or all jobs start.
LEMMA PumpMatches ==
    ASSUME NEW queue, Numbers(queue), NEW idle, Numbers(idle)
    PROVE  /\ \A s \in TakingFrom(queue, idle) : JobOf(s, queue, idle) \in queue
           /\ \A s, t \in TakingFrom(queue, idle) : JobOf(s, queue, idle) = JobOf(t, queue, idle) => s = t
           /\ \A j \in queue, k \in StartedFrom(queue, idle) : j < k => j \in StartedFrom(queue, idle)
           /\ TakingFrom(queue, idle) = idle \/ StartedFrom(queue, idle) = queue
<1> DEFINE T == TakingFrom(queue, idle)
           job(s) == JobOf(s, queue, idle)
<1>1. \A s \in T : s \in idle /\ job(s) \in queue /\ Rank(queue, job(s)) = Rank(idle, s)
  BY DEF TakingFrom, JobOf, JobFor, Rank
<1>2. ASSUME NEW s \in idle, NEW j \in queue, Rank(queue, j) = Rank(idle, s)
      PROVE  s \in T /\ job(s) = j
  <2>1. s \in T
    BY <1>2 DEF TakingFrom, JobFor, Rank
  <2>2. job(s) \in queue /\ Rank(queue, job(s)) = Rank(queue, j)
    BY <1>1, <1>2, <2>1
  <2> QED
    BY <2>1, <2>2, RankInjective
<1>3. \A s, t \in T : job(s) = job(t) => s = t
  BY <1>1, RankInjective
<1>4. ASSUME NEW j \in queue, NEW s \in idle, Rank(queue, j) <= Rank(idle, s)
      PROVE  j \in StartedFrom(queue, idle)
  <2>1. Rank(queue, j) \in Nat
    BY RankType
  <2>2. PICK t \in idle : Rank(idle, t) = Rank(queue, j)
    BY <1>4, <2>1, RankAll
  <2>3. t \in T /\ job(t) = j
    BY <1>2, <2>2
  <2> QED
    BY <2>3 DEF StartedFrom
<1>5. ASSUME NEW j \in queue, NEW k \in StartedFrom(queue, idle), j < k PROVE j \in StartedFrom(queue, idle)
  <2>1. PICK s \in T : k = job(s)
    BY DEF StartedFrom
  <2>2. s \in idle /\ k \in queue /\ Rank(queue, k) = Rank(idle, s)
    BY <1>1, <2>1
  <2>3. Rank(queue, j) < Rank(queue, k) /\ Rank(queue, j) \in Nat /\ Rank(queue, k) \in Nat
    BY <1>5, <2>2, RankOrder, RankType
  <2> QED
    BY <1>4, <2>2, <2>3
<1>6. ASSUME T # idle, StartedFrom(queue, idle) # queue PROVE FALSE
  <2>1. PICK s \in idle : s \notin T
    BY <1>6 DEF TakingFrom
  <2>2. PICK j \in queue : j \notin StartedFrom(queue, idle)
    BY <1>1, <1>6 DEF StartedFrom
  <2>3. Rank(queue, j) \in Nat /\ Rank(idle, s) \in Nat
    BY RankType
  <2>4. Rank(idle, s) <= Rank(queue, j)
    BY <1>4, <2>2, <2>3
  <2>5. PICK k \in queue : Rank(queue, k) = Rank(idle, s)
    BY <2>3, <2>4, RankAll
  <2> QED
    BY <1>2, <2>1, <2>5
<1> QED
  BY <1>1, <1>3, <1>5, <1>6

-----------------------------------------------------------------------------
(* The inductive invariant of the hash workers. *)

JobState == {"new", "queued", "running", "ok", "failed"}
SlotState == [gen : Nat, job : HashJob \cup {NoJob}]
Letters == [slot : Slot, gen : Nat, id : HashJob]
Queue(h) == {j \in HashJob : h[j] = "queued"}

\* The slots hold the jobs that run, each of them one.
Held(h, sl) ==
    /\ \A s \in Slot : sl[s].job # NoJob => h[sl[s].job] = "running"
    /\ \A s, t \in Slot : sl[s].job # NoJob /\ sl[s].job = sl[t].job => s = t
    /\ \A j \in HashJob : h[j] = "running" => \E s \in Slot : sl[s].job = j

HashInv == HashTypeOK /\ Held(hash, slots) /\ OwnDigest /\ NoIdleWorker

\* What pump makes of the jobs h and the slots sl.
Pumped(h, sl) ==
    /\ hash' \in [HashJob -> JobState] /\ slots' \in [Slot -> SlotState]
    /\ Held(hash', slots')
    /\ \A j \in HashJob : hash'[j] = h[j] \/ (h[j] = "queued" /\ hash'[j] = "running")
    /\ \A j, k \in HashJob : j < k /\ h[k] # "running" /\ hash'[k] = "running" => hash'[j] # "queued"
    /\ Queue(hash') # {} => poolState = "open" /\ Idle(slots') = {}

LEMMA NumbersOfJobs ==
    /\ \A j \in HashJob : j \in Nat /\ j # NoJob
    /\ \A h : Numbers(Queue(h))
    /\ \A sl : Numbers(Idle(sl))
    /\ Numbers({})
<1>1. ASSUME NEW S \in SUBSET HashJob PROVE Numbers(S)
  BY HashPoolAssumption, FS_Subset DEF Numbers
<1>2. ASSUME NEW S \in SUBSET Slot PROVE Numbers(S)
  BY HashPoolAssumption, FS_Subset DEF Numbers
<1> QED
  BY <1>1, <1>2, HashPoolAssumption DEF Queue, Idle, NoJob

LEMMA PumpResult ==
    ASSUME NEW h \in [HashJob -> JobState], NEW sl \in [Slot -> SlotState], NEW wk,
           Held(h, sl), poolState # "open" => Queue(h) = {}, PumpSlots(h, sl, wk)
    PROVE  /\ Pumped(h, sl)
           /\ \A w \in working' : w \in wk \/ w \in Letters
<1> DEFINE queue == Queue(h)
           idle == IF poolState = "open" THEN Idle(sl) ELSE {}
           T == TakingFrom(queue, idle)
           job(s) == JobOf(s, queue, idle)
           S == StartedFrom(queue, idle)
<1>1. Numbers(queue) /\ Numbers(idle) /\ queue \subseteq HashJob /\ idle \subseteq Slot
  BY NumbersOfJobs DEF Queue, Idle
<1>2. /\ \A s \in T : job(s) \in queue /\ s \in idle
      /\ \A s, t \in T : job(s) = job(t) => s = t
      /\ \A j \in queue, k \in S : j < k => j \in S
      /\ T = idle \/ S = queue
  BY <1>1, PumpMatches DEF TakingFrom
<1>3. /\ hash' = [j \in HashJob |-> IF \E s \in T : j = job(s) THEN "running" ELSE h[j]]
      /\ slots' = [s \in Slot |-> IF s \in T THEN [sl[s] EXCEPT !.job = job(s)] ELSE sl[s]]
      /\ working' = wk \cup {[slot |-> s, gen |-> sl[s].gen, id |-> job(s)] : s \in T}
  BY DEF PumpSlots, TakingFrom, JobOf, Queue
<1>4. S = {job(s) : s \in T}
  BY DEF StartedFrom
<1> HIDE DEF queue, idle, T, job, S
<1>5. /\ \A j \in HashJob : hash'[j] = IF j \in S THEN "running" ELSE h[j]
      /\ S \subseteq queue
  BY <1>2, <1>3, <1>4
<1>6. \A j \in S : h[j] = "queued"
  BY <1>5 DEF queue, Queue
<1>7. \A s \in T : job(s) \in HashJob /\ s \in Slot /\ sl[s].job = NoJob
  BY <1>1, <1>2 DEF idle, Idle
<1>8. \A s \in Slot : /\ s \in T => slots'[s].job = job(s) /\ slots'[s].gen = sl[s].gen
                      /\ s \notin T => slots'[s] = sl[s]
  BY <1>3, <1>7 DEF SlotState
<1>9. hash' \in [HashJob -> JobState]
  BY <1>3 DEF JobState
<1>10. slots' \in [Slot -> SlotState]
  BY <1>3, <1>7 DEF SlotState
<1>11. Held(hash', slots')
  <2>1. ASSUME NEW s \in Slot, slots'[s].job # NoJob PROVE hash'[slots'[s].job] = "running"
    <3>1. CASE s \in T
      BY <1>2, <1>4, <1>5, <1>7, <1>8, <3>1
    <3>2. CASE s \notin T
      <4>1. sl[s].job \in HashJob /\ h[sl[s].job] = "running"
        BY <1>8, <2>1, <3>2 DEF Held, SlotState
      <4> QED
        BY <1>5, <1>8, <3>2, <4>1
    <3> QED
      BY <3>1, <3>2
  <2>2. ASSUME NEW s \in Slot, NEW t \in Slot, slots'[s].job # NoJob, slots'[s].job = slots'[t].job
        PROVE  s = t
    <3>1. CASE s \in T /\ t \in T
      BY <1>2, <1>8, <2>2, <3>1
    <3>2. CASE s \notin T /\ t \notin T
      BY <1>8, <2>2, <3>2 DEF Held
    <3>3. ASSUME NEW u \in T, NEW v \in Slot \ T, sl[v].job = job(u) PROVE FALSE
      <4>1. job(u) \in HashJob /\ h[job(u)] = "queued" /\ sl[v].job # NoJob
        BY <1>4, <1>6, <1>7, <3>3, NumbersOfJobs
      <4> QED
        BY <3>3, <4>1 DEF Held
    <3> QED
      BY <1>8, <2>2, <3>1, <3>2, <3>3
  <2>3. ASSUME NEW j \in HashJob, hash'[j] = "running" PROVE \E s \in Slot : slots'[s].job = j
    <3>1. CASE j \in S
      BY <1>4, <1>7, <1>8, <3>1
    <3>2. CASE j \notin S
      <4>1. PICK s \in Slot : sl[s].job = j
        BY <1>5, <2>3, <3>2 DEF Held
      <4>2. s \notin T
        BY <1>7, <4>1, NumbersOfJobs
      <4> QED
        BY <1>8, <4>1, <4>2
    <3> QED
      BY <3>1, <3>2
  <2> QED
    BY <2>1, <2>2, <2>3 DEF Held
<1>12. \A j \in HashJob : hash'[j] = h[j] \/ (h[j] = "queued" /\ hash'[j] = "running")
  BY <1>5, <1>6
<1>13. ASSUME NEW j \in HashJob, NEW k \in HashJob, j < k, h[k] # "running", hash'[k] = "running"
       PROVE  hash'[j] # "queued"
  <2>1. k \in S
    BY <1>5, <1>13
  <2>2. CASE j \in queue
    BY <1>2, <1>5, <1>13, <2>1, <2>2
  <2>3. CASE j \notin queue
    BY <1>5, <2>3 DEF queue, Queue
  <2> QED
    BY <2>2, <2>3
<1>14. ASSUME Queue(hash') # {} PROVE poolState = "open" /\ Idle(slots') = {}
  <2>1. PICK j \in queue : j \notin S
    BY <1>5, <1>14 DEF queue, Queue
  <2>2. poolState = "open" /\ T = Idle(sl)
    BY <1>2, <2>1 DEF idle, queue
  <2>3. \A s \in Slot : slots'[s].job # NoJob
    BY <1>7, <1>8, <2>2, NumbersOfJobs DEF Idle
  <2> QED
    BY <2>2, <2>3 DEF Idle
<1>15. ASSUME NEW w \in working' PROVE w \in wk \/ w \in Letters
  <2>1. ASSUME NEW s \in T PROVE [slot |-> s, gen |-> sl[s].gen, id |-> job(s)] \in Letters
    BY <1>7 DEF Letters, SlotState
  <2> QED
    BY <1>3, <2>1
<1> QED
  BY <1>9, <1>10, <1>11, <1>12, <1>13, <1>14, <1>15 DEF Pumped

-----------------------------------------------------------------------------
(* The steps of HashNext. *)

LEMMA HashLater ==
    /\ HashJobs!Later("new") = {"queued", "running", "failed"}
    /\ HashJobs!Later("queued") = {"running", "failed"}
    /\ HashJobs!Later("running") = {"ok", "failed"}
    /\ HashJobs!Later("ok") = {} /\ HashJobs!Later("failed") = {}
<1>1. HashJobs!Later("new") = {"queued", "running", "failed"}
  BY DEF HashJobs!Later
<1>2. HashJobs!Later("queued") = {"running", "failed"}
  BY DEF HashJobs!Later
<1>3. HashJobs!Later("running") = {"ok", "failed"}
  BY DEF HashJobs!Later
<1>4. HashJobs!Later("ok") = {} /\ HashJobs!Later("failed") = {}
  BY DEF HashJobs!Later
<1> QED
  BY <1>1, <1>2, <1>3, <1>4

\* The part of a step of JobPool that speaks of the jobs one by one.
JobsMove ==
    /\ \A j \in HashJob : hash'[j] = hash[j] \/ hash'[j] \in HashJobs!Later(hash[j])
    /\ \A j, k \in HashJob : j < k /\ hash[k] # "running" /\ hash'[k] = "running" => hash'[j] # "queued"

LEMMA PumpedMoves ==
    ASSUME hash \in [HashJob -> JobState], NEW h \in [HashJob -> JobState], NEW sl, Pumped(h, sl),
           \A j \in HashJob : h[j] = hash[j] \/ h[j] \in HashJobs!Later(hash[j]) \ {"running"}
    PROVE  /\ JobsMove
           /\ \A j \in HashJob : hash'[j] = "ok" => h[j] = "ok"
<1>1. \A j \in HashJob : hash'[j] = h[j] \/ (h[j] = "queued" /\ hash'[j] = "running")
  BY DEF Pumped
<1>2. ASSUME NEW j \in HashJob PROVE hash'[j] = hash[j] \/ hash'[j] \in HashJobs!Later(hash[j])
  <2>1. hash[j] \in {"new", "queued", "running", "ok", "failed"}
    BY DEF JobState
  <2> QED
    BY <1>1, <2>1, HashLater
<1>3. ASSUME NEW j \in HashJob, NEW k \in HashJob, j < k, hash[k] # "running", hash'[k] = "running"
      PROVE  hash'[j] # "queued"
  <2>1. h[k] # "running"
    BY <1>3
  <2> QED
    BY <1>3, <2>1 DEF Pumped
<1> QED
  BY <1>1, <1>2, <1>3 DEF JobsMove

\* The job of a slot comes to its result and the slot is free.
LEMMA Released ==
    ASSUME HashInv, NEW s \in Slot, NEW result \in {"ok", "failed"},
           NEW h, h = [j \in HashJob |-> IF j = slots[s].job THEN result ELSE hash[j]],
           NEW sl \in [Slot -> SlotState], sl[s].job = NoJob,
           \A t \in Slot \ {s} : sl[t].job = slots[t].job
    PROVE  /\ h \in [HashJob -> JobState] /\ Held(h, sl)
           /\ Queue(h) = Queue(hash)
           /\ \A j \in HashJob : \/ h[j] = hash[j]
                                 \/ j = slots[s].job /\ h[j] = result /\ hash[j] = "running"
           /\ \A j \in HashJob : h[j] = hash[j] \/ h[j] \in HashJobs!Later(hash[j]) \ {"running"}
<1>1. /\ hash \in [HashJob -> JobState] /\ slots \in [Slot -> SlotState] /\ Held(hash, slots)
  BY DEF HashInv, HashTypeOK, JobState, SlotState
<1>2. \A j \in HashJob : j = slots[s].job => hash[j] = "running"
  BY <1>1, NumbersOfJobs DEF Held
<1>3. h \in [HashJob -> JobState]
  BY <1>1 DEF JobState
<1>4. \A j \in HashJob : \/ h[j] = hash[j] /\ j # slots[s].job
                         \/ j = slots[s].job /\ h[j] = result /\ hash[j] = "running"
  BY <1>2
<1>5. Held(h, sl)
  <2>1. ASSUME NEW t \in Slot, sl[t].job # NoJob PROVE h[sl[t].job] = "running"
    <3>1. t # s /\ sl[t].job = slots[t].job
      BY <2>1
    <3>2. slots[t].job \in HashJob /\ slots[t].job # slots[s].job /\ hash[slots[t].job] = "running"
      BY <1>1, <2>1, <3>1 DEF Held, SlotState
    <3> QED
      BY <1>4, <3>1, <3>2
  <2>2. ASSUME NEW t \in Slot, NEW u \in Slot, sl[t].job # NoJob, sl[t].job = sl[u].job PROVE t = u
    <3>1. t # s /\ u # s
      BY <2>2
    <3> QED
      BY <1>1, <2>2, <3>1 DEF Held
  <2>3. ASSUME NEW j \in HashJob, h[j] = "running" PROVE \E t \in Slot : sl[t].job = j
    <3>1. hash[j] = "running" /\ j # slots[s].job
      BY <1>4, <2>3
    <3>2. PICK t \in Slot : slots[t].job = j
      BY <1>1, <3>1 DEF Held
    <3> QED
      BY <3>1, <3>2
  <2> QED
    BY <2>1, <2>2, <2>3 DEF Held
<1>6. Queue(h) = Queue(hash)
  BY <1>4 DEF Queue
<1>7. \A j \in HashJob : h[j] = hash[j] \/ h[j] \in HashJobs!Later(hash[j]) \ {"running"}
  BY <1>4, HashLater
<1> QED
  BY <1>3, <1>4, <1>5, <1>6, <1>7

\* What every step has to bring about, the types of the letters and the digests apart.
JobsKept == /\ JobsMove /\ Held(hash', slots') /\ NoIdleWorker'
            /\ hash' \in [HashJob -> JobState] /\ slots' \in [Slot -> SlotState]
            /\ \A w \in working' : w \in Letters
            /\ poolState' \in {"open", "broken", "disposed"}

LEMMA PumpedKeeps ==
    ASSUME HashInv, NEW h \in [HashJob -> JobState], NEW sl \in [Slot -> SlotState], Held(h, sl),
           poolState # "open" => Queue(h) = {},
           NEW wk \in SUBSET working, PumpSlots(h, sl, wk), UNCHANGED poolState,
           \A j \in HashJob : h[j] = hash[j] \/ h[j] \in HashJobs!Later(hash[j]) \ {"running"}
    PROVE  /\ JobsKept
           /\ \A j \in HashJob : hash'[j] = "ok" => h[j] = "ok"
<1>1. /\ hash \in [HashJob -> JobState] /\ poolState \in {"open", "broken", "disposed"}
      /\ \A w \in working : w \in Letters
  BY DEF HashInv, HashTypeOK, JobState, Letters
<1>2. Pumped(h, sl) /\ \A w \in working' : w \in wk \/ w \in Letters
  BY PumpResult
<1>3. JobsMove /\ \A j \in HashJob : hash'[j] = "ok" => h[j] = "ok"
  BY <1>1, <1>2, PumpedMoves
<1>4. NoIdleWorker'
  BY <1>2 DEF Pumped, NoIdleWorker, Queue, HashQueued
<1> QED
  BY <1>1, <1>2, <1>3, <1>4 DEF Pumped, JobsKept

\* A worker that is lost takes its job with it, and the queue when it cannot be replaced.
LEMMA WorkerLostKeeps ==
    ASSUME HashInv, NEW s \in Slot, WorkerLost(s)
    PROVE  /\ JobsKept
           /\ \A j \in HashJob : hash'[j] = "ok" => hash[j] = "ok"
<1> DEFINE h == [j \in HashJob |-> IF j = slots[s].job THEN "failed" ELSE hash[j]]
           free == [slots EXCEPT ![s].job = NoJob]
           new == [free EXCEPT ![s].gen = @ + 1]
<1>1. /\ hash \in [HashJob -> JobState] /\ slots \in [Slot -> SlotState] /\ NoIdleWorker
      /\ \A w \in working : w \in Letters
  BY DEF HashInv, HashTypeOK, JobState, SlotState, Letters
<1>2. /\ free \in [Slot -> SlotState] /\ new \in [Slot -> SlotState]
      /\ free[s].job = NoJob /\ new[s].job = NoJob
      /\ \A t \in Slot \ {s} : free[t].job = slots[t].job /\ new[t].job = slots[t].job
  <2>1. /\ free \in [Slot -> SlotState] /\ free[s].job = NoJob
        /\ \A t \in Slot \ {s} : free[t].job = slots[t].job
    BY <1>1 DEF SlotState
  <2> HIDE DEF free
  <2>2. free[s] \in SlotState /\ [free[s] EXCEPT !.gen = @ + 1] \in SlotState
        /\ [free[s] EXCEPT !.gen = @ + 1].job = NoJob
    BY <2>1 DEF SlotState
  <2>3. new = [free EXCEPT ![s] = [free[s] EXCEPT !.gen = @ + 1]]
    OBVIOUS
  <2> HIDE DEF new
  <2>4. new \in [Slot -> SlotState] /\ new[s].job = NoJob /\ \A t \in Slot \ {s} : new[t] = free[t]
    BY <2>1, <2>2, <2>3
  <2> QED
    BY <2>1, <2>4
<1>3. /\ h \in [HashJob -> JobState] /\ Held(h, free) /\ Held(h, new)
      /\ Queue(h) = Queue(hash)
      /\ \A j \in HashJob : h[j] = hash[j] \/ (h[j] = "failed" /\ hash[j] = "running")
      /\ \A j \in HashJob : h[j] = hash[j] \/ h[j] \in HashJobs!Later(hash[j]) \ {"running"}
  <2> HIDE DEF free, new, h
  <2>1. h = [j \in HashJob |-> IF j = slots[s].job THEN "failed" ELSE hash[j]]
    BY DEF h
  <2> QED
    BY <1>2, <2>1, Released
<1>4. StopWorker(s) \in SUBSET working
  BY DEF StopWorker
<1>5. CASE PumpSlots(h, new, StopWorker(s)) /\ UNCHANGED poolState
  <2> HIDE DEF free, new, h
  <2>1. poolState # "open" => Queue(h) = {}
    BY <1>1, <1>3 DEF NoIdleWorker, HashQueued, Queue
  <2>2. JobsKept /\ \A j \in HashJob : hash'[j] = "ok" => h[j] = "ok"
    BY <1>2, <1>3, <1>4, <1>5, <2>1, PumpedKeeps
  <2> QED
    BY <1>3, <2>2
<1>6. CASE /\ hash' = [j \in HashJob |-> IF h[j] = "queued" THEN "failed" ELSE h[j]]
           /\ slots' = free /\ working' = StopWorker(s) /\ poolState' = "broken"
  <2> HIDE DEF free, new, h
  <2>1. \A j \in HashJob : hash'[j] = h[j] \/ (h[j] = "queued" /\ hash'[j] = "failed")
    BY <1>6
  <2>2. \A j \in HashJob : hash'[j] # "queued"
    BY <1>6
  <2>3. hash' \in [HashJob -> JobState]
    BY <1>3, <1>6 DEF JobState
  <2>4. \A j \in HashJob : hash'[j] = hash[j] \/ hash'[j] \in HashJobs!Later(hash[j])
    BY <1>3, <2>1, HashLater
  <2>5. Held(hash', slots')
    <3>1. \A j \in HashJob : h[j] = "running" <=> hash'[j] = "running"
      BY <2>1
    <3>2. \A t \in Slot : free[t].job \in HashJob \cup {NoJob}
      BY <1>2 DEF SlotState
    <3> QED
      BY <1>3, <1>6, <3>1, <3>2 DEF Held
  <2>6. NoIdleWorker'
    BY <2>2 DEF NoIdleWorker, HashQueued
  <2>7. JobsMove
    BY <2>2, <2>4 DEF JobsMove
  <2>8. /\ slots' \in [Slot -> SlotState] /\ poolState' \in {"open", "broken", "disposed"}
        /\ \A w \in working' : w \in Letters
    BY <1>1, <1>2, <1>4, <1>6
  <2>9. JobsKept
    BY <2>3, <2>5, <2>6, <2>7, <2>8 DEF JobsKept
  <2> QED
    BY <1>3, <2>1, <2>9
<1> QED
  BY <1>5, <1>6 DEF WorkerLost

LEMMA UnchangedKeeps ==
    ASSUME HashInv, UNCHANGED <<hash, slots, poolState>>, working' \subseteq working
    PROVE  JobsKept
<1>1. /\ hash \in [HashJob -> JobState] /\ slots \in [Slot -> SlotState]
      /\ poolState \in {"open", "broken", "disposed"} /\ \A w \in working : w \in Letters
      /\ Held(hash, slots) /\ NoIdleWorker
  BY DEF HashInv, HashTypeOK, JobState, SlotState, Letters
<1>2. JobsMove
  BY DEF JobsMove
<1>3. NoIdleWorker'
  BY <1>1 DEF NoIdleWorker, HashQueued, Idle
<1> QED
  BY <1>1, <1>2, <1>3 DEF JobsKept

LEMMA ReceiveKeeps ==
    ASSUME HashInv, NEW m \in mail, Receive(m)
    PROVE  /\ JobsKept
           /\ digest' \in [HashJob -> HashJob \cup {NoJob}]
           /\ OwnDigest'
<1> DEFINE s == m.slot
           sl == [slots EXCEPT ![s].job = NoJob]
<1>1. /\ hash \in [HashJob -> JobState] /\ slots \in [Slot -> SlotState]
      /\ digest \in [HashJob -> HashJob \cup {NoJob}] /\ m \in Letters
      /\ OwnDigest /\ NoIdleWorker
  BY DEF HashInv, HashTypeOK, JobState, SlotState, Letters
<1>2. s \in Slot /\ m.id \in HashJob
  BY <1>1 DEF Letters
<1>3. CASE UNCHANGED <<hash, digest, slots, working, poolState>>
  BY <1>1, <1>3, UnchangedKeeps DEF OwnDigest
<1>4. CASE WorkerLost(s) /\ UNCHANGED digest
  BY <1>1, <1>2, <1>4, WorkerLostKeeps DEF OwnDigest
<1>5. ASSUME slots[s].job = m.id, UNCHANGED poolState, NEW result \in {"ok", "failed"},
             PumpSlots([hash EXCEPT ![slots[s].job] = result], sl, working)
      PROVE  /\ JobsKept
             /\ \A j \in HashJob : hash'[j] = "ok" => hash[j] = "ok" \/ (result = "ok" /\ j = m.id)
  <2> DEFINE h == [hash EXCEPT ![slots[s].job] = result]
  <2>1. h = [j \in HashJob |-> IF j = slots[s].job THEN result ELSE hash[j]]
    BY <1>1, <1>2, <1>5
  <2>2. sl \in [Slot -> SlotState] /\ sl[s].job = NoJob /\ \A t \in Slot \ {s} : sl[t].job = slots[t].job
    BY <1>1, <1>2 DEF SlotState
  <2> HIDE DEF h, sl
  <2>3. /\ h \in [HashJob -> JobState] /\ Held(h, sl) /\ Queue(h) = Queue(hash)
        /\ \A j \in HashJob : h[j] = hash[j] \/ (j = slots[s].job /\ h[j] = result)
        /\ \A j \in HashJob : h[j] = hash[j] \/ h[j] \in HashJobs!Later(hash[j]) \ {"running"}
    BY <1>2, <2>1, <2>2, Released
  <2>4. PumpSlots(h, sl, working) /\ (poolState # "open" => Queue(h) = {})
    BY <1>1, <1>5, <2>3 DEF h, sl, NoIdleWorker, HashQueued, Queue
  <2>5. working \in SUBSET working
    OBVIOUS
  <2>6. JobsKept /\ \A j \in HashJob : hash'[j] = "ok" => h[j] = "ok"
    BY <1>5, <2>2, <2>3, <2>4, <2>5, PumpedKeeps
  <2> QED
    BY <1>5, <2>3, <2>6
<1>6. CASE /\ slots[s].job = m.id /\ UNCHANGED poolState
           /\ PumpSlots([hash EXCEPT ![slots[s].job] = "ok"], sl, working)
           /\ digest' = [digest EXCEPT ![slots[s].job] = m.id]
  <2>1. JobsKept /\ \A j \in HashJob : hash'[j] = "ok" => hash[j] = "ok" \/ j = m.id
    BY <1>5, <1>6
  <2>2. digest' \in [HashJob -> HashJob \cup {NoJob}] /\ digest'[m.id] = m.id
        /\ \A j \in HashJob \ {m.id} : digest'[j] = digest[j]
    BY <1>1, <1>2, <1>6
  <2> QED
    BY <1>1, <2>1, <2>2 DEF OwnDigest
<1>7. CASE /\ slots[s].job = m.id /\ UNCHANGED poolState
           /\ PumpSlots([hash EXCEPT ![slots[s].job] = "failed"], sl, working) /\ UNCHANGED digest
  <2>1. JobsKept /\ \A j \in HashJob : hash'[j] = "ok" => hash[j] = "ok"
    BY <1>5, <1>7
  <2> QED
    BY <1>1, <1>7, <2>1 DEF OwnDigest
<1> QED
  BY <1>3, <1>4, <1>6, <1>7 DEF Receive

\* As many jobs run as there are slots, at most.
LEMMA RunningBound ==
    ASSUME NEW h, NEW sl, Held(h, sl)
    PROVE  Cardinality({j \in HashJob : h[j] = "running"}) <= Cardinality(Slot)
<1> DEFINE R == {j \in HashJob : h[j] = "running"}
           f == [s \in Slot |-> sl[s].job]
           T == {f[s] : s \in Slot}
<1>1. IsFiniteSet(Slot)
  BY HashPoolAssumption
<1>2. f \in Surjection(Slot, T)
  BY DEF Surjection
<1>3. R \in SUBSET T
  BY DEF Held
<1>4. IsFiniteSet(T) /\ Cardinality(T) <= Cardinality(Slot)
  <2> HIDE DEF f, T
  <2> QED
    BY <1>1, <1>2, FS_Surjection
<1>5. IsFiniteSet(R) /\ Cardinality(R) <= Cardinality(T)
  <2> HIDE DEF R, T
  <2> QED
    BY <1>3, <1>4, FS_Subset
<1>6. Cardinality(R) \in Nat /\ Cardinality(T) \in Nat /\ Cardinality(Slot) \in Nat
  <2> HIDE DEF R, T
  <2> QED
    BY <1>1, <1>4, <1>5, FS_CardinalityType
<1> QED
  BY <1>4, <1>5, <1>6

LEMMA EnqueueKeeps ==
    ASSUME HashInv, Enqueue
    PROVE  JobsKept /\ OwnDigest'
<1>1. /\ hash \in [HashJob -> JobState] /\ slots \in [Slot -> SlotState] /\ Held(hash, slots)
      /\ OwnDigest /\ NoIdleWorker /\ poolState \in {"open", "broken", "disposed"}
      /\ \A w \in working : w \in Letters
  BY DEF HashInv, HashTypeOK, JobState, SlotState, Letters
<1>2. PICK j \in HashJob :
         /\ hash[j] = "new"
         /\ IF poolState = "open"
            THEN PumpSlots([hash EXCEPT ![j] = "queued"], slots, working)
            ELSE hash' = [hash EXCEPT ![j] = "failed"] /\ UNCHANGED <<slots, working>>
  BY DEF Enqueue
<1>3. UNCHANGED <<digest, mail, poolState, fails>>
  BY DEF Enqueue
\* A job that is not known to the slots stays so.
<1>4. ASSUME NEW h, NEW to \in {"queued", "failed"}, h = [hash EXCEPT ![j] = to]
      PROVE  /\ h \in [HashJob -> JobState] /\ Held(h, slots)
             /\ \A k \in HashJob : h[k] = hash[k] \/ (k = j /\ h[k] = to /\ hash[k] = "new")
             /\ \A k \in HashJob : h[k] = hash[k] \/ h[k] \in HashJobs!Later(hash[k]) \ {"running"}
  <2>1. h \in [HashJob -> JobState]
    BY <1>1, <1>4 DEF JobState
  <2>2. \A k \in HashJob : \/ h[k] = hash[k] /\ k # j
                           \/ k = j /\ h[k] = to /\ hash[k] = "new"
    BY <1>1, <1>2, <1>4
  <2>3. \A k \in HashJob : h[k] = "running" <=> hash[k] = "running"
    BY <2>2
  <2>4. Held(h, slots)
    BY <1>1, <2>3 DEF Held, SlotState
  <2> QED
    BY <2>1, <2>2, <2>4, HashLater
<1>5. CASE poolState = "open"
  <2> DEFINE h == [hash EXCEPT ![j] = "queued"]
  <2>1. PumpSlots(h, slots, working) /\ working \in SUBSET working
    BY <1>2, <1>5
  <2>2. /\ h \in [HashJob -> JobState] /\ Held(h, slots)
        /\ \A k \in HashJob : h[k] = hash[k] \/ h[k] = "queued"
        /\ \A k \in HashJob : h[k] = hash[k] \/ h[k] \in HashJobs!Later(hash[k]) \ {"running"}
    BY <1>4
  <2> HIDE DEF h
  <2>3. JobsKept /\ \A k \in HashJob : hash'[k] = "ok" => h[k] = "ok"
    BY <1>1, <1>3, <1>5, <2>1, <2>2, PumpedKeeps
  <2> QED
    BY <1>1, <1>3, <2>2, <2>3 DEF OwnDigest
<1>6. CASE poolState # "open"
  <2>1. hash' = [hash EXCEPT ![j] = "failed"] /\ UNCHANGED <<slots, working>>
    BY <1>2, <1>6
  <2>2. /\ hash' \in [HashJob -> JobState] /\ Held(hash', slots)
        /\ \A k \in HashJob : hash'[k] = hash[k] \/ hash'[k] = "failed"
        /\ \A k \in HashJob : hash'[k] = hash[k] \/ hash'[k] \in HashJobs!Later(hash[k]) \ {"running"}
    BY <1>4, <2>1
  <2>3. JobsMove
    BY <2>2 DEF JobsMove
  <2>4. NoIdleWorker'
    BY <1>1, <1>6, <2>2 DEF NoIdleWorker, HashQueued
  <2>5. JobsKept
    BY <1>1, <1>3, <2>1, <2>2, <2>3, <2>4 DEF JobsKept
  <2> QED
    BY <1>1, <1>3, <2>2, <2>5 DEF OwnDigest
<1> QED
  BY <1>5, <1>6

LEMMA DisposeKeeps ==
    ASSUME HashInv, Dispose
    PROVE  JobsKept /\ OwnDigest'
<1>1. /\ hash \in [HashJob -> JobState] /\ slots \in [Slot -> SlotState] /\ OwnDigest
  BY DEF HashInv, HashTypeOK, JobState, SlotState
<1>2. /\ hash' = [j \in HashJob |-> IF hash[j] \in {"queued", "running"} THEN "failed" ELSE hash[j]]
      /\ slots' = [s \in Slot |-> [slots[s] EXCEPT !.job = NoJob]]
      /\ working' = {} /\ poolState' = "disposed" /\ UNCHANGED digest
  BY DEF Dispose
<1>3. \A j \in HashJob : /\ hash'[j] \notin {"queued", "running"}
                         /\ \/ hash'[j] = hash[j]
                            \/ hash[j] \in {"queued", "running"} /\ hash'[j] = "failed"
  BY <1>2
<1>4. hash' \in [HashJob -> JobState] /\ slots' \in [Slot -> SlotState]
  BY <1>1, <1>2 DEF JobState, SlotState
<1>5. \A s \in Slot : slots'[s].job = NoJob
  BY <1>1, <1>2 DEF SlotState
<1>6. Held(hash', slots')
  BY <1>3, <1>5 DEF Held
<1>7. JobsMove
  BY <1>3, HashLater DEF JobsMove
<1>8. NoIdleWorker'
  BY <1>3 DEF NoIdleWorker, HashQueued
<1>9. JobsKept
  BY <1>2, <1>4, <1>6, <1>7, <1>8 DEF JobsKept
<1> QED
  BY <1>1, <1>2, <1>3, <1>9 DEF OwnDigest

\* The letters under way are letters, and each digest is a job's or none.
LEMMA LettersNext ==
    ASSUME HashInv, HashNext, \A w \in working' : w \in Letters
    PROVE  mail' \subseteq Letters
  BY DEF HashInv, HashTypeOK, Letters, HashNext, Enqueue, WorkerAnswers, DeliverAnswer, WorkerFails, Dispose

LEMMA HashInvNext ==
    ASSUME HashInv, [HashNext]_hashVars
    PROVE  HashInv' /\ JobsMove
<1>1. /\ OwnDigest /\ digest \in [HashJob -> HashJob \cup {NoJob}]
      /\ working \subseteq Letters /\ mail \subseteq Letters
  BY DEF HashInv, HashTypeOK, Letters
<1>2. /\ JobsKept /\ OwnDigest' /\ digest' \in [HashJob -> HashJob \cup {NoJob}]
  <2>1. CASE Enqueue
    BY <1>1, <2>1, EnqueueKeeps DEF Enqueue
  <2>2. CASE WorkerAnswers
    BY <1>1, <2>2, UnchangedKeeps DEF WorkerAnswers, OwnDigest
  <2>3. CASE DeliverAnswer
    <3>1. PICK m \in mail : IF poolState = "disposed" \/ slots[m.slot].gen # m.gen
                            THEN UNCHANGED <<hash, digest, slots, working, poolState>>
                            ELSE Receive(m)
      BY <2>3 DEF DeliverAnswer
    <3>2. CASE Receive(m)
      BY <3>2, ReceiveKeeps
    <3>3. CASE UNCHANGED <<hash, digest, slots, working, poolState>>
      BY <1>1, <3>3, UnchangedKeeps DEF OwnDigest
    <3> QED
      BY <3>1, <3>2, <3>3
  <2>4. CASE WorkerFails
    <3>1. PICK s \in Slot : WorkerLost(s)
      BY <2>4 DEF WorkerFails
    <3>2. UNCHANGED digest
      BY <2>4 DEF WorkerFails
    <3> QED
      BY <1>1, <3>1, <3>2, WorkerLostKeeps DEF OwnDigest
  <2>5. CASE Dispose
    BY <1>1, <2>5, DisposeKeeps DEF Dispose
  <2>6. CASE UNCHANGED hashVars
    BY <1>1, <2>6, UnchangedKeeps DEF hashVars, OwnDigest
  <2> QED
    BY <2>1, <2>2, <2>3, <2>4, <2>5, <2>6 DEF HashNext
<1>3. working' \subseteq Letters /\ mail' \subseteq Letters
  <2>1. CASE HashNext
    BY <1>2, <2>1, LettersNext DEF JobsKept
  <2>2. CASE UNCHANGED hashVars
    BY <1>1, <2>2 DEF hashVars
  <2> QED
    BY <2>1, <2>2
<1>4. HashTypeOK'
  BY <1>2, <1>3 DEF HashTypeOK, JobsKept, JobState, SlotState, Letters
<1> QED
  BY <1>2, <1>4 DEF HashInv, JobsKept

LEMMA HashInvInit == HashInit => HashInv
<1> SUFFICES ASSUME HashInit PROVE HashInv
  OBVIOUS
<1>1. HashTypeOK
  BY DEF HashInit, HashTypeOK
<1>2. Held(hash, slots)
  BY DEF HashInit, Held
<1>3. OwnDigest /\ NoIdleWorker
  BY DEF HashInit, OwnDigest, NoIdleWorker, HashQueued
<1> QED
  BY <1>1, <1>2, <1>3 DEF HashInv

LEMMA HashInvariance == HashInit /\ [][HashNext]_hashVars => []HashInv
  BY HashInvInit, HashInvNext, PTL

(* The state of the pool is always one of those it can be in.                *)
THEOREM HashTypeCorrect == HashSpec => []HashTypeOK
<1>1. HashInv => HashTypeOK
  BY DEF HashInv
<1> QED
  BY <1>1, HashInvariance, PTL DEF HashSpec

(* A job is resolved with the digest of its own bytes, however late, often   *)
(* or out of turn the workers answer, and whatever becomes of them           *)
(* (handleWorkerMessage of sha256-worker-pool.ts).                           *)
THEOREM DigestsAreOwn == HashSpec => []OwnDigest
<1>1. HashInv => OwnDigest
  BY DEF HashInv
<1> QED
  BY <1>1, HashInvariance, PTL DEF HashSpec

(* No job waits beside an idle worker, or in a pool that is broken or        *)
(* disposed: every way a job ends is followed by pump, or by rejections.     *)
THEOREM NoWorkerIdles == HashSpec => []NoIdleWorker
<1>1. HashInv => NoIdleWorker
  BY DEF HashInv
<1> QED
  BY <1>1, HashInvariance, PTL DEF HashSpec

LEMMA HashCardinality == \A S : HashJobs!Cardinality(S) = Cardinality(S)
  BY Zenon DEF HashJobs!Cardinality, Cardinality

LEMMA HashStep ==
    ASSUME HashInv, HashInv', [HashNext]_hashVars
    PROVE  [/\ hash' \in [HashJob -> HashJobs!Settled \cup {"new", "queued", "running"}]
            /\ HashJobs!Step]_hash
<1>1. JobsMove
  BY HashInvNext
<1>2. hash' \in [HashJob -> HashJobs!Settled \cup {"new", "queued", "running"}]
  BY DEF HashInv, HashTypeOK, HashJobs!Settled
<1>3. Cardinality({j \in HashJob : hash'[j] = "running"}) <= Cardinality(Slot)
  BY RunningBound DEF HashInv
<1>4. HashJobs!Running(0)' = {j \in HashJob : hash'[j] = "running"}
  BY DEF HashJobs!Running
<1>5. HashJobs!Cardinality(HashJobs!Running(0))' <= Cardinality(Slot)
  BY <1>3, <1>4, HashCardinality
<1>6. HashJobs!Step
  BY <1>1, <1>5 DEF HashJobs!Step, JobsMove
<1> QED
  BY <1>2, <1>6

(* The pool of hash workers implements the safety part of JobPool: jobs      *)
(* start in the order they came, at most one per slot at a time, and each    *)
(* comes to one result and never to another.                                 *)
THEOREM HashPoolIsJobPool == HashSpec => HashJobs!PoolSafety
<1>1. HashInit => HashJobs!PoolInit
  BY DEF HashInit, HashJobs!PoolInit
<1>2. HashInv /\ HashInv' /\ [HashNext]_hashVars =>
         [/\ hash' \in [HashJob -> HashJobs!Settled \cup {"new", "queued", "running"}]
          /\ HashJobs!Step]_hash
  BY HashStep
<1> QED
  BY <1>1, <1>2, HashInvariance, PTL DEF HashSpec, HashJobs!PoolSafety

-----------------------------------------------------------------------------
(* The policy of a lane: a probe is one step above where it began. *)

Policy == [limit : 1..Maximum, before : 0..Maximum, steady : BOOLEAN, degraded : 0..1]
Sound(p) == p \in Policy /\ (p.before # NoProbe => p.limit = p.before + 1)

LEMMA PolicyParts ==
    ASSUME NEW p \in Policy, NEW n \in 1..Maximum, NEW b \in 0..Maximum, NEW s \in BOOLEAN, NEW d \in 0..1
    PROVE  /\ p = [limit |-> p.limit, before |-> p.before, steady |-> p.steady, degraded |-> p.degraded]
           /\ [limit |-> n, before |-> b, steady |-> s, degraded |-> d] \in Policy
           /\ p.limit \in 1..Maximum /\ p.before \in 0..Maximum /\ p.steady \in BOOLEAN /\ p.degraded \in 0..1
  BY DEF Policy

LEMMA SoundForgotten ==
    ASSUME NEW p \in Policy
    PROVE  Sound(Forgotten(p)) /\ Forgotten(p).limit = p.limit
<1> SUFFICES ASSUME NEW q, q = Forgotten(p)
             PROVE  Sound(q) /\ q.limit = p.limit
  OBVIOUS
<1>1. q = [limit |-> p.limit, before |-> NoProbe, steady |-> FALSE, degraded |-> 0]
  BY DEF Forgotten, Policy
<1>2. p.limit \in 1..Maximum /\ NoProbe \in 0..Maximum /\ 0 \in 0..1 /\ FALSE \in BOOLEAN
  BY TransferSchedulerAssumption DEF NoProbe, Policy
<1>3. q \in Policy
  BY <1>1, <1>2 DEF Policy
<1> QED
  BY <1>1, <1>3 DEF Sound

LEMMA SoundLimit ==
    ASSUME NEW p \in Policy, NEW n \in 1..Maximum
    PROVE  [p EXCEPT !.limit = n] \in Policy
  BY DEF Policy

LEMMA SoundMoves ==
    ASSUME NEW p, Sound(p)
    PROVE  /\ Sound(IdlePolicy(p))
           /\ \A q \in Congested(p) : Sound(q)
           /\ \A q \in Observed(p) : Sound(q)
<1>1. /\ p \in Policy /\ p.limit \in 1..Maximum /\ p.before \in 0..Maximum
      /\ p.degraded \in 0..1 /\ p.steady \in BOOLEAN
      /\ p.before # NoProbe => p.limit = p.before + 1
      /\ Maximum \in Nat /\ NoProbe = 0
  BY TransferSchedulerAssumption DEF Sound, Policy, NoProbe
<1>2. Sound(IdlePolicy(p))
  <2> DEFINE n == IF p.before # NoProbe THEN p.before ELSE p.limit
  <2>1. n \in 1..Maximum
    BY <1>1
  <2>2. IdlePolicy(p) = Forgotten([p EXCEPT !.limit = n])
    BY DEF IdlePolicy
  <2> QED
    BY <1>1, <2>1, <2>2, SoundLimit, SoundForgotten
<1>3. ASSUME NEW q \in Congested(p) PROVE Sound(q)
  <2> DEFINE n == IF p.limit = 1 THEN 1 ELSE p.limit \div 2
  <2>1. n \in 1..Maximum
    BY <1>1
  <2>2. q = p \/ q = Forgotten([p EXCEPT !.limit = n])
    BY DEF Congested
  <2>3. [p EXCEPT !.limit = n] \in Policy
    BY <1>1, <2>1, SoundLimit
  <2> QED
    BY <2>2, <2>3, SoundForgotten
<1>4. ASSUME NEW q \in Observed(p) PROVE Sound(q)
  <2> DEFINE steady == [p EXCEPT !.steady = TRUE, !.degraded = 0]
  <2>1. \/ q = p
        \/ /\ p.before # NoProbe
           /\ \E n \in {p.limit, p.before} : q = [p EXCEPT !.before = NoProbe, !.steady = FALSE, !.limit = n]
        \/ p.before = NoProbe /\ q = steady
        \/ /\ p.before = NoProbe /\ p.limit < Maximum
           /\ q = [steady EXCEPT !.before = p.limit, !.limit = @ + 1]
        \/ p.before = NoProbe /\ q = [p EXCEPT !.degraded = 1]
        \/ q \in Congested(p)
    BY DEF Observed
  <2>2. ASSUME p.before # NoProbe, NEW n \in {p.limit, p.before},
               q = [p EXCEPT !.before = NoProbe, !.steady = FALSE, !.limit = n]
        PROVE  Sound(q)
    <3>1. n \in 1..Maximum /\ NoProbe \in 0..Maximum /\ FALSE \in BOOLEAN
      BY <1>1, <2>2
    <3>2. q = [limit |-> n, before |-> NoProbe, steady |-> FALSE, degraded |-> p.degraded]
      BY <1>1, <2>2 DEF Policy
    <3>3. q \in Policy
      BY <1>1, <3>1, <3>2, PolicyParts
    <3> QED
      BY <3>2, <3>3 DEF Sound
  <2>3. CASE p.before = NoProbe /\ q = steady
    <3>1. q = [limit |-> p.limit, before |-> NoProbe, steady |-> TRUE, degraded |-> 0]
      BY <1>1, <2>3 DEF Policy
    <3>2. NoProbe \in 0..Maximum /\ 0 \in 0..1 /\ TRUE \in BOOLEAN
      BY <1>1
    <3>3. q \in Policy
      BY <1>1, <3>1, <3>2, PolicyParts
    <3> QED
      BY <3>1, <3>3 DEF Sound
  <2>4. CASE /\ p.before = NoProbe /\ p.limit < Maximum
             /\ q = [steady EXCEPT !.before = p.limit, !.limit = @ + 1]
    <3>1. q = [limit |-> p.limit + 1, before |-> p.limit, steady |-> TRUE, degraded |-> 0]
      BY <1>1, <2>4 DEF Policy
    <3>2. p.limit + 1 \in 1..Maximum /\ p.limit \in 0..Maximum /\ 0 \in 0..1 /\ TRUE \in BOOLEAN
      BY <1>1, <2>4
    <3>3. q \in Policy
      BY <1>1, <3>1, <3>2, PolicyParts
    <3> QED
      BY <3>1, <3>3 DEF Sound
  <2>5. CASE p.before = NoProbe /\ q = [p EXCEPT !.degraded = 1]
    <3>1. q = [limit |-> p.limit, before |-> NoProbe, steady |-> p.steady, degraded |-> 1]
      BY <1>1, <2>5 DEF Policy
    <3>2. NoProbe \in 0..Maximum /\ 1 \in 0..1
      BY <1>1
    <3>3. q \in Policy
      BY <1>1, <3>1, <3>2, PolicyParts
    <3> QED
      BY <3>1, <3>3 DEF Sound
  <2> QED
    BY <1>3, <2>1, <2>2, <2>3, <2>4, <2>5
<1> QED
  BY <1>2, <1>3, <1>4

-----------------------------------------------------------------------------
(* The pump of a lane, and the inductive invariant of the transfers. *)

OfLane(ts, l, state) == {t \in Transfer : LaneOf(t) = l /\ ts[t] = state}

\* The first of a lane are started, as many as there is room.
LEMMA StartFills ==
    ASSUME NEW queue, Numbers(queue), NEW running, IsFiniteSet(running), queue \cap running = {},
           NEW limit \in 1..Maximum, Cardinality(running) <= Maximum,
           NEW start, start = {t \in queue : Rank(queue, t) < limit - Cardinality(running)}
    PROVE  /\ IsFiniteSet(running \cup start)
           /\ Cardinality(running \cup start) \in Nat
           /\ Cardinality(running \cup start) <= Maximum
           /\ queue # start => Cardinality(running \cup start) >= limit
           /\ \A t \in queue, u \in start : t < u => t \in start
<1> DEFINE room == limit - Cardinality(running)
<1>1. /\ Cardinality(running) \in Nat /\ limit \in Nat /\ room \in Int
      /\ Maximum \in Nat /\ limit <= Maximum /\ room = limit - Cardinality(running)
  BY FS_CardinalityType, TransferSchedulerAssumption
<1>2. \A t \in queue : Rank(queue, t) \in Nat
  BY RankType
<1>3. ASSUME NEW t \in queue, NEW u \in start, t < u PROVE t \in start
  <2>1. Rank(queue, t) < Rank(queue, u) /\ Rank(queue, u) < room
    BY <1>3, RankOrder
  <2> HIDE DEF room
  <2>2. Rank(queue, t) < room
    BY <1>1, <1>2, <1>3, <2>1
  <2> QED
    BY <2>2 DEF room
<1>4. CASE room < 0
  <2>1. start = {}
    BY <1>1, <1>2, <1>4
  <2>2. running \cup start = running
    BY <2>1
  <2> QED
    BY <1>1, <1>3, <1>4, <2>2
<1>5. CASE room >= 0
  <2>1. room \in Nat
    BY <1>1, <1>5
  <2>2. start = {t \in queue : Rank(queue, t) < room}
    OBVIOUS
  <2> HIDE DEF room
  <2>3. /\ IsFiniteSet(start) /\ Cardinality(start) \in Nat /\ Cardinality(start) <= room
        /\ start = queue \/ Cardinality(start) = room
    BY <2>1, <2>2, FirstRanks
  <2>4. running \cap start = {}
    BY <2>2
  <2>5. /\ IsFiniteSet(running \cup start)
        /\ Cardinality(running \cup start) = Cardinality(running) + Cardinality(start)
    BY <1>1, <2>3, <2>4, FS_Union, FS_EmptySet
  <2>6. Cardinality(running \cup start) \in Nat /\ Cardinality(running \cup start) <= Maximum
    BY <1>1, <2>3, <2>5
  <2>7. queue # start => Cardinality(running \cup start) >= limit
    BY <1>1, <2>3, <2>5
  <2> QED
    BY <1>3, <2>5, <2>6, <2>7
<1> QED
  BY <1>1, <1>4, <1>5

LaneState == {"none", "busy", "paused"}
Parts == /\ transfer \in [Transfer -> JobState]
         /\ concurrency \in [Lane -> Policy] /\ \A l \in Lane : Sound(concurrency[l])
         /\ window \in [Lane -> LaneState] /\ paused \in [Lane -> BOOLEAN] /\ closed \in BOOLEAN

\* Of one lane: no more run than may, and nobody waits beside free room.
LaneFull(l) ==
    /\ Cardinality(In(l, "running")) <= Maximum
    /\ In(l, "queued") # {} => ~closed /\ Cardinality(In(l, "running")) >= concurrency[l].limit
    /\ window[l] = "busy" /\ ~closed => In(l, "queued") # {}

TransferInv == Parts /\ \A l \in Lane : LaneFull(l)

LEMMA NumbersOfTransfers == \A S \in SUBSET Transfer : Numbers(S)
  BY TransferSchedulerAssumption, FS_Subset DEF Numbers

\* What pump makes of the transfers ts, for lane l.
LanePumped(l, ts) ==
    /\ \A t \in Transfer : \/ transfer'[t] = ts[t]
                           \/ LaneOf(t) = l /\ ts[t] = "queued" /\ transfer'[t] = "running"
    /\ \A t, u \in Transfer :
          LaneOf(t) = LaneOf(u) /\ t < u /\ ts[u] # "running" /\ transfer'[u] = "running"
             => transfer'[t] # "queued"

LEMMA LanePump ==
    ASSUME Parts, UNCHANGED closed, NEW l \in Lane, NEW ts \in [Transfer -> JobState],
           NEW p, Sound(p), NEW w \in LaneState, NEW z \in BOOLEAN,
           Cardinality(OfLane(ts, l, "running")) <= Maximum,
           closed => OfLane(ts, l, "queued") = {},
           PumpLane(l, ts, p, w, z)
    PROVE  /\ Parts' /\ LanePumped(l, ts) /\ LaneFull(l)'
           /\ \A k \in Lane \ {l} : concurrency'[k] = concurrency[k] /\ window'[k] = window[k]
<1> DEFINE queue == OfLane(ts, l, "queued")
           running == OfLane(ts, l, "running")
           start(q) == IF closed THEN {}
                       ELSE {t \in queue : Rank(queue, t) < q.limit - Cardinality(running)}
           busy(q) == queue # start(q) /\ Cardinality(running \cup start(q)) >= q.limit
<1>1. \E q \in Observed(p) \cup {IdlePolicy(p), p}, v \in {"none", "paused"} :
         /\ transfer' = [t \in Transfer |-> IF t \in start(q) THEN "running" ELSE ts[t]]
         /\ concurrency' = [concurrency EXCEPT ![l] = q]
         /\ window' = [window EXCEPT ![l] = IF busy(q) THEN "busy" ELSE v]
         /\ paused' = [paused EXCEPT ![l] = ~busy(q)]
  BY DEF PumpLane, OfLane, Rank
<1>2. PICK q \in Observed(p) \cup {IdlePolicy(p), p}, v \in {"none", "paused"} :
         /\ transfer' = [t \in Transfer |-> IF t \in start(q) THEN "running" ELSE ts[t]]
         /\ concurrency' = [concurrency EXCEPT ![l] = q]
         /\ window' = [window EXCEPT ![l] = IF busy(q) THEN "busy" ELSE v]
         /\ paused' = [paused EXCEPT ![l] = ~busy(q)]
  BY <1>1
<1> DEFINE started == start(q)
<1>3. Sound(q) /\ q \in Policy /\ q.limit \in 1..Maximum
  BY SoundMoves DEF Sound, Policy
<1>4. /\ Numbers(queue) /\ IsFiniteSet(running) /\ queue \cap running = {}
      /\ queue \subseteq Transfer /\ running \subseteq Transfer
  BY NumbersOfTransfers DEF OfLane, Numbers
<1>5. /\ Cardinality(running \cup started) \in Nat
      /\ Cardinality(running \cup started) <= Maximum
      /\ queue # started => ~closed /\ Cardinality(running \cup started) >= q.limit
      /\ \A t \in queue, u \in started : t < u => t \in started
      /\ started \subseteq queue
  <2>1. CASE closed
    <3>1. started = {} /\ queue = {} /\ running \cup started = running
      BY <2>1
    <3> QED
      BY <1>4, <3>1, FS_CardinalityType
  <2>2. CASE ~closed
    <3>1. started = {t \in queue : Rank(queue, t) < q.limit - Cardinality(running)}
      BY <2>2
    <3> HIDE DEF started, queue, running
    <3>2. Cardinality(running) <= Maximum
      BY DEF running
    <3> QED
      BY <1>3, <1>4, <2>2, <3>1, <3>2, StartFills
  <2> QED
    BY <2>1, <2>2
<1>5a. /\ transfer' = [t \in Transfer |-> IF t \in started THEN "running" ELSE ts[t]]
       /\ \E b \in BOOLEAN : (b => queue # started)
                           /\ window' = [window EXCEPT ![l] = IF b THEN "busy" ELSE v]
  BY <1>2
<1> HIDE DEF started
<1>6. \A t \in Transfer : /\ t \in started => LaneOf(t) = l /\ ts[t] = "queued" /\ transfer'[t] = "running"
                          /\ t \notin started => transfer'[t] = ts[t]
  BY <1>5, <1>5a DEF OfLane
<1>7. LanePumped(l, ts)
  <2>1. ASSUME NEW t \in Transfer, NEW u \in Transfer, LaneOf(t) = LaneOf(u), t < u,
               ts[u] # "running", transfer'[u] = "running"
        PROVE  transfer'[t] # "queued"
    <3>1. u \in started /\ LaneOf(t) = l
      BY <1>6, <2>1
    <3>2. CASE t \in queue
      BY <1>5, <1>6, <2>1, <3>1, <3>2
    <3>3. CASE t \notin queue
      BY <1>5, <1>6, <3>1, <3>3 DEF OfLane
    <3> QED
      BY <3>2, <3>3
  <2> QED
    BY <1>6, <2>1 DEF LanePumped
<1>8. In(l, "queued")' = queue \ started /\ In(l, "running")' = running \cup started
  BY <1>5, <1>6 DEF In, OfLane
<1>9. /\ concurrency'[l] = q /\ \A k \in Lane \ {l} : concurrency'[k] = concurrency[k]
      /\ window'[l] = "busy" => queue # started
      /\ \A k \in Lane \ {l} : window'[k] = window[k]
  BY <1>2, <1>5a DEF Parts, LaneState
<1>10. LaneFull(l)'
  <2>1. Cardinality(In(l, "running")') <= Maximum
    BY <1>5, <1>8
  <2>2. In(l, "queued")' # {} => ~closed' /\ Cardinality(In(l, "running")') >= concurrency'[l].limit
    BY <1>5, <1>8, <1>9
  <2>3. window'[l] = "busy" => In(l, "queued")' # {}
    BY <1>5, <1>8, <1>9
  <2> QED
    BY <2>1, <2>2, <2>3 DEF LaneFull
<1>11. Parts'
  <2>1. transfer' \in [Transfer -> JobState]
    BY <1>2 DEF JobState
  <2>2. concurrency' \in [Lane -> Policy] /\ \A k \in Lane : Sound(concurrency'[k])
    BY <1>2, <1>3, <1>9 DEF Parts
  <2>3. window' \in [Lane -> LaneState]
    BY <1>2 DEF Parts, LaneState
  <2>4. paused' \in [Lane -> BOOLEAN] /\ closed' \in BOOLEAN
    BY <1>2 DEF Parts
  <2> QED
    BY <2>1, <2>2, <2>3, <2>4 DEF Parts
<1> QED
  BY <1>7, <1>9, <1>10, <1>11

-----------------------------------------------------------------------------
(* The steps of TransferNext. *)

LEMMA TransferLater ==
    /\ TransferJobs!Later("new") = {"queued", "running", "failed"}
    /\ TransferJobs!Later("queued") = {"running", "failed"}
    /\ TransferJobs!Later("running") = {"ok", "failed"}
<1>1. TransferJobs!Later("new") = {"queued", "running", "failed"}
  BY DEF TransferJobs!Later
<1>2. TransferJobs!Later("queued") = {"running", "failed"}
  BY DEF TransferJobs!Later
<1>3. TransferJobs!Later("running") = {"ok", "failed"}
  BY DEF TransferJobs!Later
<1> QED
  BY <1>1, <1>2, <1>3

TransfersMove ==
    /\ \A t \in Transfer : transfer'[t] = transfer[t] \/ transfer'[t] \in TransferJobs!Later(transfer[t])
    /\ \A t, u \in Transfer :
          LaneOf(t) = LaneOf(u) /\ t < u /\ transfer[u] # "running" /\ transfer'[u] = "running"
             => transfer'[t] # "queued"

\* One transfer enters the queue of an open scheduler, or leaves its place, and its
\* lane is pumped.
LEMMA MovedAndPumped ==
    ASSUME TransferInv, UNCHANGED closed, NEW t \in Transfer, NEW to \in {"queued", "ok", "failed"},
           \/ transfer[t] = "new" /\ to = "queued" /\ ~closed
           \/ transfer[t] = "running" /\ to # "queued",
           NEW p, Sound(p), NEW w \in LaneState,
           PumpLane(LaneOf(t), [transfer EXCEPT ![t] = to], p, w, paused[LaneOf(t)])
    PROVE  TransferInv' /\ TransfersMove
<1> DEFINE l == LaneOf(t)
           ts == [transfer EXCEPT ![t] = to]
<1>1. /\ Parts /\ l \in Lane /\ transfer \in [Transfer -> JobState] /\ paused[l] \in BOOLEAN
      /\ \A k \in Lane : LaneFull(k)
  BY TransferSchedulerAssumption DEF TransferInv, Parts
<1>2. /\ ts \in [Transfer -> JobState] /\ ts[t] = to
      /\ \A u \in Transfer \ {t} : ts[u] = transfer[u]
  BY <1>1 DEF JobState
<1> HIDE DEF ts
<1>3. Cardinality(OfLane(ts, l, "running")) <= Maximum
  <2>1. OfLane(ts, l, "running") \in SUBSET In(l, "running")
    BY <1>2 DEF OfLane, In
  <2>2. IsFiniteSet(In(l, "running"))
    BY NumbersOfTransfers DEF In, Numbers
  <2>3. /\ Cardinality(OfLane(ts, l, "running")) <= Cardinality(In(l, "running"))
        /\ IsFiniteSet(OfLane(ts, l, "running"))
    BY <2>1, <2>2, FS_Subset
  <2>4. Cardinality(In(l, "running")) <= Maximum
    BY <1>1 DEF LaneFull
  <2>5. /\ Cardinality(OfLane(ts, l, "running")) \in Nat /\ Cardinality(In(l, "running")) \in Nat
        /\ Maximum \in Nat
    BY <2>2, <2>3, FS_CardinalityType, TransferSchedulerAssumption
  <2> QED
    BY <2>3, <2>4, <2>5
<1>4. closed => OfLane(ts, l, "queued") = {}
  <2>1. closed => In(l, "queued") = {} /\ to # "queued"
    BY <1>1 DEF LaneFull
  <2> QED
    BY <1>2, <2>1 DEF OfLane, In
<1>5. /\ Parts' /\ LanePumped(l, ts) /\ LaneFull(l)'
      /\ \A k \in Lane \ {l} : concurrency'[k] = concurrency[k] /\ window'[k] = window[k]
  <2>1. PumpLane(l, ts, p, w, paused[l])
    BY DEF ts
  <2> HIDE DEF l
  <2> QED
    BY <1>1, <1>2, <1>3, <1>4, <2>1, LanePump
<1>6. \A u \in Transfer : /\ LaneOf(u) # l => transfer'[u] = transfer[u]
                          /\ \/ transfer'[u] = ts[u]
                             \/ ts[u] = "queued" /\ transfer'[u] = "running"
  BY <1>2, <1>5 DEF LanePumped
<1>7. ASSUME NEW k \in Lane \ {l} PROVE LaneFull(k)'
  <2>1. In(k, "queued")' = In(k, "queued") /\ In(k, "running")' = In(k, "running")
    BY <1>6 DEF In
  <2> QED
    BY <1>1, <1>5, <2>1 DEF LaneFull
<1>8. ASSUME NEW u \in Transfer PROVE transfer'[u] = transfer[u] \/ transfer'[u] \in TransferJobs!Later(transfer[u])
  <2>1. CASE u = t
    BY <1>2, <1>6, <2>1, TransferLater
  <2>2. CASE u # t
    BY <1>2, <1>6, <2>2, TransferLater
  <2> QED
    BY <2>1, <2>2
<1>9. ASSUME NEW u \in Transfer, transfer[u] # "running" PROVE ts[u] # "running"
  BY <1>2, <1>9
<1>10. TransfersMove
  BY <1>5, <1>8, <1>9 DEF TransfersMove, LanePumped
<1> QED
  BY <1>5, <1>7, <1>10 DEF TransferInv

LEMMA TransferInvNext ==
    ASSUME TransferInv, [TransferNext]_transferVars
    PROVE  TransferInv' /\ TransfersMove
<1>1. /\ Parts /\ \A k \in Lane : LaneFull(k)
      /\ \A t \in Transfer : /\ LaneOf(t) \in Lane /\ Sound(concurrency[LaneOf(t)])
                             /\ window[LaneOf(t)] \in LaneState
  BY TransferSchedulerAssumption DEF TransferInv, Parts
<1>2. CASE Run
  <2>1. PICK t \in Transfer :
           /\ transfer[t] = "new"
           /\ IF closed
              THEN /\ transfer' = [transfer EXCEPT ![t] = "failed"]
                   /\ UNCHANGED <<concurrency, window, paused>>
              ELSE PumpLane(LaneOf(t), [transfer EXCEPT ![t] = "queued"], concurrency[LaneOf(t)],
                            window[LaneOf(t)], paused[LaneOf(t)])
    BY <1>2 DEF Run
  <2>2. UNCHANGED closed
    BY <1>2 DEF Run
  <2>3. CASE closed
    <3>1. /\ transfer' = [transfer EXCEPT ![t] = "failed"]
          /\ UNCHANGED <<concurrency, window, paused, closed>>
      BY <2>1, <2>2, <2>3
    <3>2. \A u \in Transfer : \/ transfer'[u] = transfer[u]
                              \/ transfer[u] = "new" /\ transfer'[u] = "failed"
      BY <1>1, <2>1, <3>1 DEF Parts
    <3>3. Parts'
      BY <1>1, <3>1 DEF Parts, JobState
    <3>4. ASSUME NEW k \in Lane PROVE LaneFull(k)'
      <4>1. In(k, "queued")' = In(k, "queued") /\ In(k, "running")' = In(k, "running")
        BY <3>2 DEF In
      <4> QED
        BY <1>1, <3>1, <4>1 DEF LaneFull
    <3>5. TransfersMove
      BY <3>2, TransferLater DEF TransfersMove
    <3> QED
      BY <3>3, <3>4, <3>5 DEF TransferInv
  <2>4. CASE ~closed
    BY <1>1, <2>1, <2>2, <2>4, MovedAndPumped
  <2> QED
    BY <2>3, <2>4
<1>3. CASE TransferSucceeds
  <2>1. PICK t \in Transfer :
           /\ transfer[t] = "running"
           /\ PumpLane(LaneOf(t), [transfer EXCEPT ![t] = "ok"], concurrency[LaneOf(t)],
                       window[LaneOf(t)], paused[LaneOf(t)])
    BY <1>3 DEF TransferSucceeds, End
  <2>2. UNCHANGED closed
    BY <1>3 DEF TransferSucceeds
  <2> QED
    BY <1>1, <2>1, <2>2, MovedAndPumped
<1>4. CASE TransferFails
  <2>1. PICK t \in Transfer : \E p \in Congested(concurrency[LaneOf(t)]) \cup {IdlePolicy(concurrency[LaneOf(t)])} :
           /\ transfer[t] = "running"
           /\ PumpLane(LaneOf(t), [transfer EXCEPT ![t] = "failed"], p, "none", paused[LaneOf(t)])
    BY <1>4 DEF TransferFails, End
  <2>2. PICK p \in Congested(concurrency[LaneOf(t)]) \cup {IdlePolicy(concurrency[LaneOf(t)])} :
           /\ transfer[t] = "running"
           /\ PumpLane(LaneOf(t), [transfer EXCEPT ![t] = "failed"], p, "none", paused[LaneOf(t)])
    BY <2>1
  <2>3. Sound(p) /\ "none" \in LaneState /\ UNCHANGED closed
    BY <1>1, <1>4, SoundMoves DEF LaneState, TransferFails
  <2> QED
    BY <2>2, <2>3, MovedAndPumped
<1>5. CASE DisposeTransfers
  <2>1. /\ closed' = TRUE
        /\ transfer' = [t \in Transfer |-> IF transfer[t] = "queued" THEN "failed" ELSE transfer[t]]
        /\ UNCHANGED <<concurrency, window, paused>>
    BY <1>5 DEF DisposeTransfers
  <2>2. \A t \in Transfer : /\ transfer'[t] # "queued"
                            /\ \/ transfer'[t] = transfer[t]
                               \/ transfer[t] = "queued" /\ transfer'[t] = "failed"
    BY <2>1
  <2>3. Parts'
    BY <1>1, <2>1 DEF Parts, JobState
  <2>4. ASSUME NEW k \in Lane PROVE LaneFull(k)'
    <3>1. In(k, "queued")' = {} /\ In(k, "running")' = In(k, "running")
      BY <2>2 DEF In
    <3> QED
      BY <1>1, <2>1, <3>1 DEF LaneFull
  <2>5. TransfersMove
    BY <2>2, TransferLater DEF TransfersMove
  <2> QED
    BY <2>3, <2>4, <2>5 DEF TransferInv
<1>6. CASE UNCHANGED transferVars
  <2>1. UNCHANGED <<transfer, concurrency, window, paused, closed>>
    BY <1>6 DEF transferVars
  <2>2. TransferInv'
    BY <2>1 DEF TransferInv, Parts, LaneFull, In
  <2>3. TransfersMove
    BY <2>1 DEF TransfersMove
  <2> QED
    BY <2>2, <2>3
<1> QED
  BY <1>2, <1>3, <1>4, <1>5, <1>6 DEF TransferNext

LEMMA TransferInvInit == TransferInit => TransferInv
<1> SUFFICES ASSUME TransferInit PROVE TransferInv
  OBVIOUS
<1> DEFINE p == [limit |-> InitialLimit, before |-> NoProbe, steady |-> FALSE, degraded |-> 0]
<1>1. /\ transfer = [t \in Transfer |-> "new"] /\ concurrency = [l \in Lane |-> p]
      /\ window = [l \in Lane |-> "none"] /\ paused = [l \in Lane |-> FALSE] /\ closed = FALSE
  BY DEF TransferInit
<1>2. Sound(p) /\ p \in Policy
  BY TransferSchedulerAssumption DEF Sound, Policy, NoProbe
<1> HIDE DEF p
<1>3. /\ transfer \in [Transfer -> JobState] /\ window \in [Lane -> LaneState]
      /\ concurrency \in [Lane -> Policy] /\ \A l \in Lane : Sound(concurrency[l])
  BY <1>1, <1>2 DEF JobState, LaneState
<1>4. paused \in [Lane -> BOOLEAN] /\ closed \in BOOLEAN
  BY <1>1
<1>5. ASSUME NEW l \in Lane PROVE LaneFull(l)
  <2>1. In(l, "running") = {} /\ In(l, "queued") = {} /\ window[l] = "none"
    BY <1>1 DEF In
  <2> QED
    BY <2>1, FS_EmptySet, TransferSchedulerAssumption DEF LaneFull
<1> QED
  BY <1>3, <1>4, <1>5 DEF TransferInv, Parts

LEMMA TransferInvariance == TransferInit /\ [][TransferNext]_transferVars => []TransferInv
  BY TransferInvInit, TransferInvNext, PTL

(* The state of the scheduler is always one of those it can be in, and a     *)
(* probe is one step above the limit it began from, whatever errors and idle *)
(* times interrupt it (AdaptiveConcurrencyPolicy of transfer-scheduler.ts).  *)
THEOREM TransferTypeCorrect == TransferSpec => []TransferTypeOK
<1>1. TransferInv => TransferTypeOK
  BY DEF TransferInv, TransferTypeOK, Parts, Sound, Policy, JobState, LaneState
<1> QED
  BY <1>1, TransferInvariance, PTL DEF TransferSpec

(* No transfer waits beside free room in its lane, and none in a scheduler   *)
(* that is disposed: every way a transfer ends is followed by pump.          *)
THEOREM NoLaneIdles == TransferSpec => []NoIdleLane
<1>1. TransferInv => NoIdleLane
  BY DEF TransferInv, LaneFull, NoIdleLane
<1> QED
  BY <1>1, TransferInvariance, PTL DEF TransferSpec

LEMMA TransferCardinality == \A S : TransferJobs!Cardinality(S) = Cardinality(S)
  BY Zenon DEF TransferJobs!Cardinality, Cardinality

LEMMA TransferStep ==
    ASSUME TransferInv, TransferInv', [TransferNext]_transferVars
    PROVE  [/\ transfer' \in [Transfer -> TransferJobs!Settled \cup {"new", "queued", "running"}]
            /\ TransferJobs!Step]_transfer
<1>1. TransfersMove
  BY TransferInvNext
<1>2. transfer' \in [Transfer -> TransferJobs!Settled \cup {"new", "queued", "running"}]
  BY DEF TransferInv, Parts, JobState, TransferJobs!Settled
<1>3. ASSUME NEW t \in Transfer
      PROVE  TransferJobs!Cardinality(TransferJobs!Running(LaneOf(t)))' <= Maximum
  <2>1. TransferJobs!Running(LaneOf(t))' = In(LaneOf(t), "running")'
    BY DEF TransferJobs!Running, In
  <2>2. LaneOf(t) \in Lane
    BY TransferSchedulerAssumption
  <2>3. Cardinality(In(LaneOf(t), "running")') <= Maximum
    BY <2>2 DEF TransferInv, LaneFull
  <2> QED
    BY <2>1, <2>3, TransferCardinality
<1>4. TransferJobs!Step
  BY <1>1, <1>3 DEF TransferJobs!Step, TransfersMove
<1> QED
  BY <1>2, <1>4

(* The scheduler of transfers implements the safety part of JobPool: the     *)
(* transfers of a lane start in the order they were asked, at most Maximum   *)
(* at a time, and each comes to one result and never to another.             *)
THEOREM TransfersAreJobPool == TransferSpec => TransferJobs!PoolSafety
<1>1. TransferInit => TransferJobs!PoolInit
  BY DEF TransferInit, TransferJobs!PoolInit
<1>2. TransferInv /\ TransferInv' /\ [TransferNext]_transferVars =>
         [/\ transfer' \in [Transfer -> TransferJobs!Settled \cup {"new", "queued", "running"}]
          /\ TransferJobs!Step]_transfer
  BY TransferStep
<1> QED
  BY <1>1, <1>2, TransferInvariance, PTL DEF TransferSpec, TransferJobs!PoolSafety
=============================================================================
