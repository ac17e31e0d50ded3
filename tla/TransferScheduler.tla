------------------------- MODULE TransferScheduler -------------------------
(***************************************************************************)
(* TransferScheduler and its AdaptiveConcurrencyPolicy: uploads and        *)
(* downloads wait in a lane each; how many of a lane run at a time is      *)
(* raised by one to see whether throughput grows, and halved when the      *)
(* server is congested.                                                    *)
(*                                                                         *)
(* Times and rates are choices: a window that is busy may have collected   *)
(* enough to be observed, a paused lane may have been paused for long, a   *)
(* measure may be better or worse than the last, a delay may be over.      *)
(***************************************************************************)
EXTENDS Naturals, FiniteSets, FiniteSetsExt

CONSTANTS
    Transfer,     \* transfers, numbered in the order in which they are asked
    Lane,         \* "upload", "download"
    LaneOf(_),    \* the lane of a transfer
    InitialLimit, \* 8 in the code
    Maximum       \* 12 in the code

ASSUME TransferSchedulerAssumption ==
    /\ Transfer \subseteq Nat \ {0} /\ IsFiniteSet(Transfer)
    /\ \A t \in Transfer : LaneOf(t) \in Lane
    /\ Maximum \in Nat \ {0} /\ InitialLimit \in 1..Maximum

VARIABLES
    transfer,    \* where each transfer is
    concurrency, \* per lane: limit, limit before the probe (0: none), steady, degraded
    window,      \* per lane: "none", "busy", "paused" (busySince undefined)
    paused,      \* per lane: pausedAt is set
    closed

transferVars == <<transfer, concurrency, window, paused, closed>>

NoProbe == 0

TransferInit ==
    /\ transfer = [t \in Transfer |-> "new"]
    /\ concurrency = [l \in Lane |-> [limit |-> InitialLimit, before |-> NoProbe,
                                 steady |-> FALSE, degraded |-> 0]]
    /\ window = [l \in Lane |-> "none"]
    /\ paused = [l \in Lane |-> FALSE]
    /\ closed = FALSE

In(l, s) == {t \in Transfer : LaneOf(t) = l /\ transfer[t] = s}
-----------------------------------------------------------------------------
(* AdaptiveConcurrencyPolicy. *)

Forgotten(p) == [p EXCEPT !.before = NoProbe, !.steady = FALSE, !.degraded = 0]

IdlePolicy(p) ==
    Forgotten([p EXCEPT !.limit = IF p.before # NoProbe THEN p.before ELSE @])

(* A second congestion within five seconds changes nothing. *)
ProbeSurvives(p) ==  \* Not the code: the unfinished probe is kept.
    {p, [p EXCEPT !.limit = IF @ = 1 THEN 1 ELSE @ \div 2, !.steady = FALSE]}

Congested(p) ==
    {p, Forgotten([p EXCEPT !.limit = IF @ = 1 THEN 1 ELSE @ \div 2])}

(***************************************************************************)
(* What an observation may lead to: nothing when no byte was moved; the    *)
(* end of a probe; a degraded window, the second of which is congestion;   *)
(* or a steady one, after which a new probe may start.                     *)
(***************************************************************************)
Observed(p) ==
    LET steady == [p EXCEPT !.steady = TRUE, !.degraded = 0]
    IN {p} \cup
       IF p.before # NoProbe
       THEN {[p EXCEPT !.before = NoProbe, !.steady = FALSE, !.limit = n] :
                n \in {p.limit, p.before}}
       ELSE {steady}
            \cup (IF p.limit < Maximum
                  THEN {[steady EXCEPT !.before = p.limit, !.limit = @ + 1]} ELSE {})
            \cup (IF ~p.steady THEN {}
                  ELSE IF p.degraded = 0 THEN {[p EXCEPT !.degraded = 1]}
                  ELSE Congested(p))
-----------------------------------------------------------------------------
(***************************************************************************)
(* pump of lane l, whose policy is p, window w and pause z, when the       *)
(* transfers are ts.                                                       *)
(***************************************************************************)
PumpLane(l, ts, p, w, z) ==
    \E expired \in {FALSE, z} :
    \E observed \in {FALSE, w = "busy" /\ ~expired} :
    \E q \in IF observed THEN Observed(p) ELSE IF expired THEN {IdlePolicy(p)} ELSE {p} :
       LET lane(s) == {t \in Transfer : LaneOf(t) = l /\ ts[t] = s}
           queue   == lane("queued")
           room    == q.limit - Cardinality(lane("running"))
           start   == IF closed THEN {}
                      ELSE {t \in queue : Cardinality({u \in queue : u < t}) < room}
           active  == Cardinality(lane("running") \cup start)
           busy    == queue # start /\ active >= q.limit
           w1      == IF observed \/ expired THEN "none" ELSE w
       IN /\ transfer' = [t \in Transfer |-> IF t \in start THEN "running" ELSE ts[t]]
          /\ concurrency' = [concurrency EXCEPT ![l] = q]
          /\ window' = [window EXCEPT ![l] = IF busy THEN "busy"
                                             ELSE IF w1 = "none" THEN "none" ELSE "paused"]
          /\ paused' = [paused EXCEPT ![l] = ~busy]

Run ==
    /\ \E t \in Transfer :
          /\ transfer[t] = "new"
          /\ \A u \in Transfer : LaneOf(u) = LaneOf(t) /\ u < t => transfer[u] # "new"
          /\ LET l == LaneOf(t)
             IN IF closed
                THEN /\ transfer' = [transfer EXCEPT ![t] = "failed"]
                     /\ UNCHANGED <<concurrency, window, paused>>
                ELSE PumpLane(l, [transfer EXCEPT ![t] = "queued"], concurrency[l], window[l], paused[l])
    /\ UNCHANGED closed

EndWithoutPump(t, result, p, w) ==  \* Not the code: nobody is started.
    /\ transfer' = [transfer EXCEPT ![t] = result]
    /\ concurrency' = [concurrency EXCEPT ![LaneOf(t)] = p]
    /\ window' = [window EXCEPT ![LaneOf(t)] = w]
    /\ UNCHANGED paused

(* A transfer has come to its result; the slot is free and the lane pumped. *)
End(t, result, p, w) ==
    PumpLane(LaneOf(t), [transfer EXCEPT ![t] = result], p, w, paused[LaneOf(t)])

TransferSucceeds ==
    /\ \E t \in Transfer : /\ transfer[t] = "running"
                           /\ End(t, "ok", concurrency[LaneOf(t)], window[LaneOf(t)])
    /\ UNCHANGED closed

(* Congestion halves the limit; another error ends the measurement. *)
TransferFails ==
    /\ \E t \in Transfer :
          /\ transfer[t] = "running"
          /\ \E p \in Congested(concurrency[LaneOf(t)]) \cup {IdlePolicy(concurrency[LaneOf(t)])} :
                End(t, "failed", p, "none")
    /\ UNCHANGED closed

(* dispose: those queued are rejected, those that run are waited for *)
DisposeTransfers ==
    /\ ~closed /\ closed' = TRUE
    /\ transfer' = [t \in Transfer |-> IF transfer[t] = "queued" THEN "failed" ELSE transfer[t]]
    /\ UNCHANGED <<concurrency, window, paused>>

TransferNext == Run \/ TransferSucceeds \/ TransferFails \/ DisposeTransfers

(* Each request has a time limit: a transfer that runs comes to a result. *)
TransferFairness == WF_transferVars(TransferSucceeds \/ TransferFails)

TransferSpec == TransferInit /\ [][TransferNext]_transferVars /\ TransferFairness
-----------------------------------------------------------------------------
(***************************************************************************)
(* Type, and a probe is one step above the limit it started from, whatever *)
(* errors and idle times interrupt it: its end gives back that limit,      *)
(* never one from before a reduction (observe, congested, idle).           *)
(***************************************************************************)
TransferTypeOK ==
    /\ transfer \in [Transfer -> {"new", "queued", "running", "ok", "failed"}]
    /\ concurrency \in [Lane -> [limit : 1..Maximum, before : 0..Maximum,
                            steady : BOOLEAN, degraded : 0..1]]
    /\ window \in [Lane -> {"none", "busy", "paused"}]
    /\ paused \in [Lane -> BOOLEAN] /\ closed \in BOOLEAN
    /\ \A l \in Lane : concurrency[l].before # NoProbe => concurrency[l].limit = concurrency[l].before + 1

(***************************************************************************)
(* A transfer waits only while its lane is full, and none waits in a       *)
(* closed scheduler; a lane that measures is one that is full.             *)
(***************************************************************************)
NoIdleLane ==
    \A l \in Lane :
       /\ In(l, "queued") # {} => ~closed /\ Cardinality(In(l, "running")) >= concurrency[l].limit
       /\ window[l] = "busy" /\ ~closed => In(l, "queued") # {}

TransferJobs == INSTANCE JobPool WITH Jobs <- Transfer, Limit <- Maximum, jobs <- transfer

(* The scheduler keeps the promise of a job pool. *)
TransfersKeepPromise == TransferJobs!PoolSpec
=============================================================================
