------------------------------ MODULE JobPool ------------------------------
(***************************************************************************)
(* What a pool promises to those who give it jobs, whoever does the work:  *)
(* jobs of a lane start in the order they came, at most Limit at a time;   *)
(* each comes to one result and never to another; every job gets one.      *)
(* The pool of hash workers and the scheduler of transfers implement it.   *)
(***************************************************************************)
EXTENDS Naturals, FiniteSets

CONSTANTS
    Jobs,       \* numbered in the order in which they are given
    LaneOf(_),  \* the lane of a job
    Limit       \* jobs of a lane that run at a time

VARIABLE jobs  \* where each job is

Running(l) == {j \in Jobs : LaneOf(j) = l /\ jobs[j] = "running"}
Settled == {"ok", "failed"}

PoolInit == jobs = [j \in Jobs |-> "new"]

(* A job goes forward, and may go all the way at once. *)
Later(s) ==
    CASE s = "new"     -> {"queued", "running", "failed"}
      [] s = "queued"  -> {"running", "failed"}
      [] s = "running" -> {"ok", "failed"}
      [] OTHER         -> {}

Step ==
    /\ \A j \in Jobs : jobs'[j] = jobs[j] \/ jobs'[j] \in Later(jobs[j])
    /\ \A j, k \in Jobs :
          LaneOf(j) = LaneOf(k) /\ j < k /\ jobs[k] # "running" /\ jobs'[k] = "running"
             => jobs'[j] # "queued"
    /\ \A j \in Jobs : Cardinality(Running(LaneOf(j)))' <= Limit

(* As jobs only go forward, this gives each of them its result. *)
Waiting == \E j \in Jobs : jobs[j] \in {"queued", "running"}

PoolSafety ==
    /\ PoolInit
    /\ [][jobs' \in [Jobs -> Settled \cup {"new", "queued", "running"}] /\ Step]_jobs

PoolSpec == PoolSafety /\ (Waiting ~> ~Waiting)
=============================================================================
