------------------------------ MODULE HashPool ------------------------------
(***************************************************************************)
(* Sha256WorkerPool: a fixed number of slots, each with a worker thread    *)
(* that hashes one buffer at a time.  A worker that fails is replaced;     *)
(* when none can be created any more, the pool refuses everything.         *)
(*                                                                         *)
(* A worker is told apart by its generation.  Its messages travel: one may *)
(* arrive after the worker was replaced, or twice.  A digest stands for    *)
(* the job whose buffer it is of; a postMessage that throws is a worker    *)
(* that fails at once.                                                     *)
(***************************************************************************)
EXTENDS Naturals, FiniteSets, FiniteSetsExt

CONSTANTS
    HashJob,        \* jobs, numbered in the order in which they are given
    Slot,           \* slots, numbered
    MaxWorkerFails  \* bound on workers that fail or answer twice

ASSUME HashPoolAssumption ==
    /\ HashJob \subseteq Nat \ {0} /\ Slot \subseteq Nat /\ Slot # {}
    /\ IsFiniteSet(HashJob) /\ IsFiniteSet(Slot) /\ MaxWorkerFails \in Nat

VARIABLES
    hash,      \* where each job is
    digest,    \* the digest a job was resolved with
    slots,     \* the generation of each slot's worker and its job
    working,   \* [slot, gen, id]: what the workers hash
    mail,      \* [slot, gen, id]: their answers on the way
    poolState, \* "open", "broken" (workerCreationError), "disposed"
    fails

hashVars == <<hash, digest, slots, working, mail, poolState, fails>>

NoJob == 0

HashInit ==
    /\ hash = [j \in HashJob |-> "new"]
    /\ digest = [j \in HashJob |-> NoJob]
    /\ slots = [s \in Slot |-> [gen |-> 0, job |-> NoJob]]
    /\ working = {} /\ mail = {} /\ poolState = "open" /\ fails = 0

HashQueued == {j \in HashJob : hash[j] = "queued"}
Idle(sl) == {s \in Slot : sl[s].job = NoJob}
Fail == fails < MaxWorkerFails /\ fails' = fails + 1

(* The n-th idle slot takes the n-th of those queued. *)
NewestFor(s, queue, idle) ==  \* Not the code: the last one queued comes first.
    {j \in queue : Cardinality({k \in queue : k > j}) = Cardinality({t \in idle : t < s})}

JobFor(s, queue, idle) ==
    {j \in queue : Cardinality({k \in queue : k < j}) = Cardinality({t \in idle : t < s})}

(***************************************************************************)
(* pump: the idle slots take the first queued jobs, in order.  h and sl    *)
(* are the jobs and the slots as the caller has left them.                 *)
(***************************************************************************)
PumpSlots(h, sl, wk) ==
    LET queue  == {j \in HashJob : h[j] = "queued"}
        idle   == IF poolState = "open" THEN Idle(sl) ELSE {}
        taking == {s \in idle : JobFor(s, queue, idle) # {}}
        job(s) == CHOOSE j \in JobFor(s, queue, idle) : TRUE
    IN /\ hash' = [j \in HashJob |-> IF \E s \in taking : j = job(s) THEN "running" ELSE h[j]]
       /\ slots' = [s \in Slot |-> IF s \in taking THEN [sl[s] EXCEPT !.job = job(s)] ELSE sl[s]]
       /\ working' = wk \cup {[slot |-> s, gen |-> sl[s].gen, id |-> job(s)] : s \in taking}

(* hash, hashAndReturnBytes: enqueue *)
Enqueue ==
    /\ \E j \in HashJob :
          /\ hash[j] = "new" /\ \A k \in HashJob : k < j => hash[k] # "new"
          /\ IF poolState = "open"
             THEN PumpSlots([hash EXCEPT ![j] = "queued"], slots, working)
             ELSE hash' = [hash EXCEPT ![j] = "failed"] /\ UNCHANGED <<slots, working>>
    /\ UNCHANGED <<digest, mail, poolState, fails>>

WorkerAnswers ==
    /\ \E w \in working : working' = working \ {w} /\ mail' = mail \cup {w}
    /\ UNCHANGED <<hash, digest, slots, poolState, fails>>

(* terminate() ends what the worker hashes, not what it has sent. *)
StopWorker(s) == {w \in working : w.slot # s}

(***************************************************************************)
(* handleWorkerFailure: the job of the slot is rejected and the worker     *)
(* replaced.  When that fails everything that waits is rejected.           *)
(***************************************************************************)
LeavesQueue(s) ==  \* Not the code: those who wait are not told.
    LET h == [j \in HashJob |-> IF j = slots[s].job THEN "failed" ELSE hash[j]]
        sl == [slots EXCEPT ![s].job = NoJob]
    IN \/ /\ PumpSlots(h, [sl EXCEPT ![s].gen = @ + 1], StopWorker(s))
          /\ UNCHANGED poolState
       \/ hash' = h /\ slots' = sl /\ working' = StopWorker(s) /\ poolState' = "broken"

WorkerLost(s) ==
    LET h == [j \in HashJob |-> IF j = slots[s].job THEN "failed" ELSE hash[j]]
        sl == [slots EXCEPT ![s].job = NoJob]
    IN \/ /\ PumpSlots(h, [sl EXCEPT ![s].gen = @ + 1], StopWorker(s))
          /\ UNCHANGED poolState
       \/ /\ hash' = [j \in HashJob |-> IF h[j] = "queued" THEN "failed" ELSE h[j]]
          /\ slots' = sl /\ working' = StopWorker(s)
          /\ poolState' = "broken"

(* handleWorkerMessage, for an answer of the worker the slot still has: it *)
(* resolves the job, or says that the digest failed.                       *)
AcceptsAnyId(m) ==  \* Not the code: the id of an answer is not compared.
    /\ slots[m.slot].job # NoJob
    /\ digest' = [digest EXCEPT ![slots[m.slot].job] = m.id]
    /\ PumpSlots([hash EXCEPT ![slots[m.slot].job] = "ok"],
            [slots EXCEPT ![m.slot].job = NoJob], working)
    /\ UNCHANGED poolState

Receive(m) ==
    LET job == slots[m.slot].job
        sl  == [slots EXCEPT ![m.slot].job = NoJob]
    IN \/ job = NoJob /\ UNCHANGED <<hash, digest, slots, working, poolState>>
       \/ job \notin {NoJob, m.id} /\ WorkerLost(m.slot) /\ UNCHANGED digest
       \/ /\ job = m.id
          /\ \/ /\ PumpSlots([hash EXCEPT ![job] = "ok"], sl, working)
                /\ digest' = [digest EXCEPT ![job] = m.id]
             \/ PumpSlots([hash EXCEPT ![job] = "failed"], sl, working) /\ UNCHANGED digest
          /\ UNCHANGED poolState

DeliverAnswer ==
    /\ \E m \in mail :
          /\ \/ mail' = mail \ {m} /\ UNCHANGED fails
             \/ UNCHANGED mail /\ Fail
          /\ IF poolState = "disposed" \/ slots[m.slot].gen # m.gen
             THEN UNCHANGED <<hash, digest, slots, working, poolState>>
             ELSE Receive(m)

WorkerFails ==
    /\ poolState # "disposed" /\ Fail
    /\ \E s \in Slot : WorkerLost(s)
    /\ UNCHANGED <<digest, mail>>

Dispose ==
    /\ poolState # "disposed"
    /\ poolState' = "disposed"
    /\ hash' = [j \in HashJob |-> IF hash[j] \in {"queued", "running"} THEN "failed"
                                  ELSE hash[j]]
    /\ slots' = [s \in Slot |-> [slots[s] EXCEPT !.job = NoJob]]
    /\ working' = {}
    /\ UNCHANGED <<digest, mail, fails>>

HashNext == Enqueue \/ WorkerAnswers \/ DeliverAnswer \/ WorkerFails \/ Dispose

(* The workers run, and the event loop delivers what they send. *)
HashFairness == WF_hashVars(WorkerAnswers) /\ WF_hashVars(DeliverAnswer /\ UNCHANGED fails)

HashSpec == HashInit /\ [][HashNext]_hashVars /\ HashFairness
-----------------------------------------------------------------------------
HashTypeOK ==
    /\ hash \in [HashJob -> {"new", "queued", "running", "ok", "failed"}]
    /\ digest \in [HashJob -> HashJob \cup {NoJob}]
    /\ slots \in [Slot -> [gen : Nat, job : HashJob \cup {NoJob}]]
    /\ working \cup mail \subseteq [slot : Slot, gen : Nat, id : HashJob]
    /\ poolState \in {"open", "broken", "disposed"}

(***************************************************************************)
(* A content is known by the digest of its own bytes, never of another's:  *)
(* answers that come late, or twice, from a worker that was replaced or    *)
(* has another job by then.                                                *)
(***************************************************************************)
OwnDigest == \A j \in HashJob : hash[j] = "ok" => digest[j] = j

(***************************************************************************)
(* No job waits beside an idle slot, and none in a pool that will never    *)
(* take it (pump after every end of a job, the rejections of a broken and  *)
(* of a disposed pool).                                                    *)
(***************************************************************************)
NoIdleWorker == HashQueued # {} => poolState = "open" /\ Idle(slots) = {}

HashJobs == INSTANCE JobPool WITH Jobs <- HashJob, LaneOf <- LAMBDA j : 0,
                              Limit <- Cardinality(Slot), jobs <- hash

(* The pool keeps the promise of a job pool. *)
HashPoolKeepsPromise == HashJobs!PoolSpec
=============================================================================
