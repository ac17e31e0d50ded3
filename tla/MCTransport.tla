---------------------------- MODULE MCTransport ----------------------------
(***************************************************************************)
(* What carries contents and messages, for TLC: the byte budget, the hash  *)
(* workers, the transfer scheduler and the realtime session.  They share   *)
(* no state, so one run explores one of them at a time: part says which,   *)
(* and the others stay as they began.                                      *)
(***************************************************************************)
EXTENDS ContentBudget, HashPool, TransferScheduler, RealtimeSocket

VARIABLE part

vars == <<part, budgetVars, hashVars, transferVars, socketVars>>

Init ==
    /\ part \in {"budget", "hash", "transfer", "socket"}
    /\ BudgetInit /\ HashInit /\ TransferInit /\ SocketInit

Next ==
    \/ /\ part = "budget" /\ BudgetNext
       /\ UNCHANGED <<part, hashVars, transferVars, socketVars>>
    \/ /\ part = "hash" /\ HashNext
       /\ UNCHANGED <<part, budgetVars, transferVars, socketVars>>
    \/ /\ part = "transfer" /\ TransferNext
       /\ UNCHANGED <<part, budgetVars, hashVars, socketVars>>
    \/ /\ part = "socket" /\ SocketNext
       /\ UNCHANGED <<part, budgetVars, hashVars, transferVars>>

(* What is fair of a part asks nothing while the part has not begun. *)
Spec ==
    /\ Init /\ [][Next]_vars
    /\ BudgetFairness /\ HashFairness /\ TransferFairness /\ SocketFairness

-----------------------------------------------------------------------------
(* Sizes against a budget of 4: two items that do not fit together, and an
   item and a group that are larger than the whole. *)
ItemSize(h) == CASE h = 1 -> 3 [] h \in {2, 21, 31} -> 2 [] h \in {3, 22} -> 5
GroupNeeds(g) == ItemSize(g) + 1

LaneOfTransfer(t) == IF t = 5 THEN "download" ELSE "upload"

-----------------------------------------------------------------------------
(* The types of the four parts. *)
TypesOK == BudgetTypeOK /\ HashTypeOK /\ TransferTypeOK /\ SocketTypeOK

(***************************************************************************)
(* No job waits beside an idle worker, and no transfer beside free room in *)
(* its lane (pump of sha256-worker-pool.ts and of transfer-scheduler.ts).  *)
(***************************************************************************)
NoIdleSlot == NoIdleWorker /\ NoIdleLane

(***************************************************************************)
(* Both pools implement JobPool: jobs of a lane start in turn, at most so  *)
(* many at a time, and each comes to one result.                           *)
(***************************************************************************)
PoolsKeepPromise == HashPoolKeepsPromise /\ TransfersKeepPromise
=============================================================================
