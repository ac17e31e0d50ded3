------------------------ MODULE AutoSyncLoop_proofs ------------------------
(* That the loop loses no wake-up and that syncNow tells the truth, for      *)
(* every bound, whatever the length of the awaits.                           *)
EXTENDS AutoSyncLoop, TLAPS

-----------------------------------------------------------------------------
(* The inductive invariant. *)

\* The two halves of the type invariant: what a drain is, and the rest.
Shape == [pc : {"none", "connect", "pull", "push"}, todo : SUBSET Kind,
          on : {"open", "closed"}]
HoldsWork(d) == /\ d.pc # "none" => d.todo # {}
                /\ d.pc = "push" => d.todo = {"push"}
DrainType == drain \in Shape /\ HoldsWork(drain)
StateType ==
    /\ loop \in {"stopped", "running"} /\ socket \in {"none", "open"}
    /\ ahead \subseteq {"pull"}
    /\ connect \in {"none", "opening", "unblocking"}
    /\ timers \subseteq {"push", "syncRetry", "reconnect"}
    /\ work \subseteq Kind
    /\ session \/ timers # {} => active
    /\ need \subseteq Kind /\ fresh \subseteq Kind
    /\ due \subseteq Kind /\ begun \subseteq Kind
    /\ now \in {"idle", "waiting", "done", "failed"} /\ overrun \in BOOLEAN

\* A session is opened only when there is none.
OpeningMeansNone == connect = "opening" => ~session

\* What a waiting syncNow asked for is pending, or is held by a drain whose
\* operation began after the call; a stop releases the caller.
DueHeld ==
    /\ ~active => due = {}
    /\ now = "waiting" =>
        \A kind \in due : \/ kind \in work
                          \/ /\ drain.pc # "none" /\ kind \in drain.todo
                             /\ drain.pc = kind => kind \in begun

IInv == DrainType /\ StateType /\ OpeningMeansNone /\ NoLostWakeup /\ DueHeld

LEMMA TypeParts == DrainType /\ StateType => TypeOK
  BY DEF TypeOK, DrainType, Shape, HoldsWork, StateType

\* The drains the actions make: none, one that takes work, one that begins an
\* operation, one whose session is closed.
LEMMA DrainShapes ==
    /\ NoDrain \in Shape /\ HoldsWork(NoDrain)
    /\ \A w \in SUBSET Kind : w # {} => Taken(w) \in Shape /\ HoldsWork(Taken(w))
    /\ \A d \in Shape, kind \in Kind, w \in SUBSET Kind :
          w # {} /\ (kind = "push" => w = {"push"}) =>
              Doing(d, kind, w) \in Shape /\ HoldsWork(Doing(d, kind, w))
    /\ \A d \in Shape : HoldsWork(d) => Cut(d) \in Shape /\ HoldsWork(Cut(d))
    /\ \A d \in Shape : /\ d.todo \in SUBSET Kind
                        /\ HoldsWork(d) /\ d.pc # "none" => d.todo # {}
<1>1. NoDrain \in Shape /\ HoldsWork(NoDrain)
  BY DEF NoDrain, Shape, HoldsWork
<1>2. ASSUME NEW w \in SUBSET Kind, w # {} PROVE Taken(w) \in Shape /\ HoldsWork(Taken(w))
  BY <1>2 DEF Taken, Shape, HoldsWork
<1>3. ASSUME NEW d \in Shape, NEW kind \in Kind, NEW w \in SUBSET Kind,
             w # {}, kind = "push" => w = {"push"}
      PROVE  /\ Doing(d, kind, w) \in Shape
             /\ HoldsWork(Doing(d, kind, w))
  BY <1>3 DEF Doing, Kind, Shape, HoldsWork
<1>4. ASSUME NEW d \in Shape, HoldsWork(d) PROVE Cut(d) \in Shape /\ HoldsWork(Cut(d))
  BY <1>4 DEF Cut, Shape, HoldsWork
<1>5. ASSUME NEW d \in Shape
      PROVE  d.todo \in SUBSET Kind /\ (HoldsWork(d) /\ d.pc # "none" => d.todo # {})
  BY DEF Shape, HoldsWork
<1> QED
  BY <1>1, <1>2, <1>3, <1>4, <1>5

LEMMA KindSubsets ==
    /\ "push" \in Kind /\ "pull" \in Kind
    /\ \A v, w \in SUBSET Kind : v \cup w \in SUBSET Kind
    /\ {"push"} \in SUBSET Kind /\ {"pull"} \in SUBSET Kind
  BY DEF Kind

-----------------------------------------------------------------------------
(* The steps of Next. *)

\* Every step is one of these actions, or changes nothing.
Step == \/ DrainConnected \/ SyncNowReturns
        \/ PushTimer \/ RetryTimer \/ ReconnectTimer
        \/ OpenSucceeds \/ OpenFails \/ UnblockFails \/ OpenRefused
        \/ \E unblocked \in BOOLEAN : OpenFinishes(unblocked)
        \/ PullDone \/ \E more, pullAfter \in BOOLEAN : PushDone(more, pullAfter)
        \/ OperationFails \/ OperationRefused \/ SessionDrops
        \/ Start \/ Stop \/ SyncNow \/ ReconnectNow
        \/ NotifyLocalChange \/ RemoteChange \/ PolicyUpdated
        \/ UNCHANGED vars

LEMMA StepOfNext == ASSUME [Next]_vars PROVE Step
  BY DEF Next, Step, Timer, Answer, Setback, Outside

(* A drain keeps its shape. *)
LEMMA DrainTypeNext == ASSUME DrainType, StateType, Step PROVE DrainType'
<1> USE DEF DrainType, StateType
<1>1. CASE DrainConnected
  <2>1. drain.todo \in SUBSET Kind /\ drain.todo # {}
    BY <1>1, DrainShapes DEF DrainConnected
  <2>2. \/ drain' = NoDrain
        \/ drain' = Doing(drain, "pull", drain.todo)
        \/ drain.todo = {"push"} /\ drain' = Doing(drain, "push", drain.todo)
    BY <1>1, <2>1 DEF DrainConnected, Begins, Kind
  <2> QED
    BY <2>1, <2>2, DrainShapes, KindSubsets
<1>2. CASE SyncNowReturns
  BY <1>2, DrainShapes, KindSubsets DEF SyncNowReturns, Drained, net, queue, told
<1>3. CASE PushTimer
  BY <1>3, DrainShapes, KindSubsets DEF PushTimer, Drain, Ensure, told, call
<1>4. CASE RetryTimer
  BY <1>4, DrainShapes, KindSubsets DEF RetryTimer, Drain, Ensure, told, call
<1>5. CASE ReconnectTimer
  BY <1>5, DrainShapes, KindSubsets DEF ReconnectTimer, Ensure, Overruns, queue, told, call
<1>6. CASE OpenSucceeds
  BY <1>6, DrainShapes, KindSubsets DEF OpenSucceeds, queue, told, call
<1>7. CASE OpenFails
  BY <1>7, DrainShapes, KindSubsets DEF OpenFails, ScheduleReconnect, queue, told, call
<1>8. CASE OpenRefused
  BY <1>8, DrainShapes, KindSubsets DEF OpenRefused, Stopped, Overruns
<1>9. ASSUME NEW unblocked \in BOOLEAN, OpenFinishes(unblocked) PROVE DrainType'
  BY <1>9, DrainShapes, KindSubsets DEF OpenFinishes, HelloWork, Needs, told, call
<1>10. CASE PullDone
  <2>1. \/ drain' = NoDrain
        \/ (work # {} /\ drain' = Taken(work))
        \/ drain' = Doing(drain, "push", {"push"})
    BY <1>10 DEF PullDone, Begins, Iterated
  <2>2. {"push"} # {}
    OBVIOUS
  <2> QED
    BY <2>1, <2>2, DrainShapes, KindSubsets
<1>11. ASSUME NEW more \in BOOLEAN, NEW pullAfter \in BOOLEAN, PushDone(more, pullAfter)
      PROVE  DrainType'
  <2> DEFINE w == IF more THEN work \cup {"push"} ELSE work
  <2>1. \/ drain' = NoDrain
        \/ (w # {} /\ drain' = Taken(w))
        \/ drain' = Doing(drain, "pull", {"pull"})
    BY <1>11 DEF PushDone, Begins, Iterated
  <2>2. {"pull"} # {} /\ w \in SUBSET Kind
    BY KindSubsets
  <2> HIDE DEF w
  <2> QED
    BY <2>1, <2>2, DrainShapes, KindSubsets
<1>12. CASE OperationFails
  BY <1>12, DrainShapes, KindSubsets DEF OperationFails, ScheduleRetry, net, told, call
<1>13. CASE OperationRefused
  BY <1>13, DrainShapes, KindSubsets DEF OperationRefused, Stopped, Overruns
<1>14. CASE SessionDrops
  BY <1>14, DrainShapes, KindSubsets DEF SessionDrops, ScheduleReconnect, told, call
<1>15. CASE Start
  BY <1>15, DrainShapes, KindSubsets DEF Start, Ensure, queue, told, call
<1>16. CASE Stop
  BY <1>16, DrainShapes, KindSubsets DEF Stop, Stopped, Overruns
<1>17. CASE SyncNow
  BY <1>17, DrainShapes, KindSubsets DEF SyncNow, Drain, Ensure, told
<1>18. CASE ReconnectNow
  BY <1>18, DrainShapes, KindSubsets DEF ReconnectNow, Overruns, told, call
<1>19. CASE NotifyLocalChange
  BY <1>19, DrainShapes, KindSubsets DEF NotifyLocalChange, Needs, net, queue, call
<1>20. CASE RemoteChange
  BY <1>20, DrainShapes, KindSubsets DEF RemoteChange, Needs, Drain, Ensure, queue, call
<1>21. CASE PolicyUpdated
  BY <1>21, DrainShapes, KindSubsets DEF PolicyUpdated, Needs, Drain, Ensure, call
<1>23. CASE UnblockFails
  BY <1>23, DrainShapes, KindSubsets DEF UnblockFails, ScheduleReconnect, told, call
<1>22. CASE UNCHANGED vars
  BY <1>22, DrainShapes, KindSubsets DEF vars, net, queue, told, call
<1> QED
  BY <1>1, <1>2, <1>3, <1>4, <1>5, <1>6, <1>7, <1>8, <1>9, <1>10, <1>11, <1>12, <1>13,
     <1>14, <1>15, <1>16, <1>17, <1>18, <1>19, <1>20, <1>21, <1>22, <1>23 DEF Step

(* The rest of the state keeps its shape. *)
LEMMA StateTypeNext == ASSUME DrainType, StateType, OpeningMeansNone, Step PROVE StateType'
<1> USE DEF DrainType, Shape, HoldsWork, StateType, OpeningMeansNone, Kind, active, session
<1>1. CASE DrainConnected
  BY <1>1 DEF DrainConnected, Begins, Doing, NoDrain, ScheduleRetry, net
<1>2. CASE SyncNowReturns
  BY <1>2 DEF SyncNowReturns, Drained, net, queue, told
<1>3. CASE PushTimer
  BY <1>3 DEF PushTimer, Drain, Ensure, Taken, told, call
<1>4. CASE RetryTimer
  BY <1>4 DEF RetryTimer, Drain, Ensure, Taken, told, call
<1>5. CASE ReconnectTimer
  BY <1>5 DEF ReconnectTimer, Ensure, Overruns, queue, told, call
<1>6. CASE OpenSucceeds
  BY <1>6 DEF OpenSucceeds, queue, told, call
<1>7. CASE OpenFails
  BY <1>7 DEF OpenFails, ScheduleReconnect, queue, told, call
<1>8. CASE OpenRefused
  BY <1>8 DEF OpenRefused, Stopped, Overruns, Cut
<1>9. ASSUME NEW unblocked \in BOOLEAN, OpenFinishes(unblocked) PROVE StateType'
  BY <1>9 DEF OpenFinishes, HelloWork, Needs, Taken, told, call
<1>10. CASE PullDone
  BY <1>10 DEF PullDone, Achieves, Begins, Doing, Iterated, Ensure, Taken, NoDrain
<1>11. ASSUME NEW more \in BOOLEAN, NEW pullAfter \in BOOLEAN, PushDone(more, pullAfter)
      PROVE  StateType'
  BY <1>11 DEF PushDone, Achieves, Begins, Doing, Iterated, Ensure, Taken, NoDrain
<1>12. CASE OperationFails
  BY <1>12 DEF OperationFails, NoDrain, ScheduleRetry, net, told, call
<1>13. CASE OperationRefused
  BY <1>13 DEF OperationRefused, Stopped, Overruns, NoDrain
<1>14. CASE SessionDrops
  BY <1>14 DEF SessionDrops, Cut, ScheduleReconnect, told, call
<1>15. CASE Start
  BY <1>15 DEF Start, Ensure, queue, told, call
<1>16. CASE Stop
  BY <1>16 DEF Stop, Stopped, Overruns, Cut
<1>17. CASE SyncNow
  BY <1>17 DEF SyncNow, Drain, Ensure, Taken, told
<1>18. CASE ReconnectNow
  BY <1>18 DEF ReconnectNow, Overruns, Cut, told, call
<1>19. CASE NotifyLocalChange
  BY <1>19 DEF NotifyLocalChange, Needs, net, queue, call
<1>20. CASE RemoteChange
  BY <1>20 DEF RemoteChange, Needs, Drain, Ensure, Taken, queue, call
<1>21. CASE PolicyUpdated
  BY <1>21 DEF PolicyUpdated, Needs, Drain, Ensure, Taken, call
<1>23. CASE UnblockFails
  BY <1>23 DEF UnblockFails, Cut, ScheduleReconnect, told, call
<1>22. CASE UNCHANGED vars
  BY <1>22 DEF vars, net, queue, told, call
<1> QED
  BY <1>1, <1>2, <1>3, <1>4, <1>5, <1>6, <1>7, <1>8, <1>9, <1>10, <1>11, <1>12, <1>13,
     <1>14, <1>15, <1>16, <1>17, <1>18, <1>19, <1>20, <1>21, <1>22, <1>23 DEF Step

\* What keeps the loop awake.
Awake == OpeningMeansNone /\ NoLostWakeup

(* No step loses a wake-up. *)
LEMMA AwakeNext == ASSUME DrainType, StateType, Awake, Step PROVE Awake'
<1> USE DEF DrainType, Shape, HoldsWork, StateType, Awake, OpeningMeansNone, NoLostWakeup, active, session
<1>1. CASE DrainConnected
  BY <1>1 DEF DrainConnected, Begins, Doing, NoDrain, ScheduleRetry, net
<1>2. CASE SyncNowReturns
  BY <1>2 DEF SyncNowReturns, Drained, net, queue, told
<1>3. CASE PushTimer
  BY <1>3 DEF PushTimer, Drain, Ensure, Taken, told, call
<1>4. CASE RetryTimer
  BY <1>4 DEF RetryTimer, Drain, Ensure, Taken, told, call
<1>5. CASE ReconnectTimer
  BY <1>5 DEF ReconnectTimer, Ensure, Overruns, queue, told, call
<1>6. CASE OpenSucceeds
  BY <1>6 DEF OpenSucceeds, queue, told, call
<1>7. CASE OpenFails
  BY <1>7 DEF OpenFails, ScheduleReconnect, queue, told, call
<1>8. CASE OpenRefused
  BY <1>8 DEF OpenRefused, Stopped, Overruns, Cut
<1>9. ASSUME NEW unblocked \in BOOLEAN, OpenFinishes(unblocked) PROVE Awake'
  BY <1>9 DEF OpenFinishes, HelloWork, Needs, Taken, told, call
<1>10. CASE PullDone
  BY <1>10 DEF PullDone, Achieves, Begins, Doing, Iterated, Ensure, Taken, NoDrain
<1>11. ASSUME NEW more \in BOOLEAN, NEW pullAfter \in BOOLEAN, PushDone(more, pullAfter)
      PROVE  Awake'
  BY <1>11 DEF PushDone, Achieves, Begins, Doing, Iterated, Ensure, Taken, NoDrain
<1>12. CASE OperationFails
  BY <1>12 DEF OperationFails, NoDrain, ScheduleRetry, net, told, call
<1>13. CASE OperationRefused
  BY <1>13 DEF OperationRefused, Stopped, Overruns, NoDrain
<1>14. CASE SessionDrops
  BY <1>14 DEF SessionDrops, Cut, ScheduleReconnect, told, call
<1>15. CASE Start
  BY <1>15 DEF Start, Ensure, queue, told, call
<1>16. CASE Stop
  BY <1>16 DEF Stop, Stopped, Overruns, Cut
<1>17. CASE SyncNow
  BY <1>17 DEF SyncNow, Drain, Ensure, Taken, told
<1>18. CASE ReconnectNow
  BY <1>18 DEF ReconnectNow, Overruns, Cut, told, call
<1>19. CASE NotifyLocalChange
  BY <1>19 DEF NotifyLocalChange, Needs, net, queue, call
<1>20. CASE RemoteChange
  BY <1>20 DEF RemoteChange, Needs, Drain, Ensure, Taken, queue, call
<1>21. CASE PolicyUpdated
  BY <1>21 DEF PolicyUpdated, Needs, Drain, Ensure, Taken, call
<1>23. CASE UnblockFails
  BY <1>23 DEF UnblockFails, Cut, ScheduleReconnect, told, call
<1>22. CASE UNCHANGED vars
  BY <1>22 DEF vars, net, queue, told, call
<1> QED
  BY <1>1, <1>2, <1>3, <1>4, <1>5, <1>6, <1>7, <1>8, <1>9, <1>10, <1>11, <1>12, <1>13,
     <1>14, <1>15, <1>16, <1>17, <1>18, <1>19, <1>20, <1>21, <1>22, <1>23 DEF Step

(* No step drops what syncNow waits for. *)
LEMMA DueHeldNext == ASSUME DrainType, StateType, NoLostWakeup, DueHeld, Step PROVE DueHeld'
<1> USE DEF DrainType, Shape, HoldsWork, StateType, DueHeld, Kind, active
<1>1. CASE DrainConnected
  BY <1>1 DEF DrainConnected, Begins, Doing, NoDrain, ScheduleRetry, net
<1>2. CASE SyncNowReturns
  BY <1>2 DEF SyncNowReturns, Drained, net, queue, told
<1>3. CASE PushTimer
  BY <1>3 DEF PushTimer, Drain, Ensure, Taken, told, call
<1>4. CASE RetryTimer
  BY <1>4 DEF RetryTimer, Drain, Ensure, Taken, told, call
<1>5. CASE ReconnectTimer
  BY <1>5 DEF ReconnectTimer, Ensure, Overruns, queue, told, call
<1>6. CASE OpenSucceeds
  BY <1>6 DEF OpenSucceeds, queue, told, call
<1>7. CASE OpenFails
  BY <1>7 DEF OpenFails, ScheduleReconnect, queue, told, call
<1>8. CASE OpenRefused
  BY <1>8 DEF OpenRefused, Stopped, Overruns, Cut
<1>9. ASSUME NEW unblocked \in BOOLEAN, OpenFinishes(unblocked) PROVE DueHeld'
  BY <1>9 DEF OpenFinishes, HelloWork, Needs, Taken, told, call
<1>10. CASE PullDone
  <2>1. loop' = loop /\ now' = now
    BY <1>10 DEF PullDone
  <2>2. due' \subseteq due /\ ("pull" \in due' => "pull" \notin begun)
    BY <1>10 DEF PullDone, Achieves
  <2>3. now = "waiting" /\ "pull" \in due' => "pull" \in work
    BY <1>10, <2>2 DEF PullDone
  <2>4. CASE "push" \in drain.todo
    <3>1. /\ work' = work /\ begun' = begun \cup {"push"}
          /\ drain'.pc = "push" /\ drain'.todo = {"push"}
      BY <1>10, <2>4 DEF PullDone, Begins, Doing
    <3> QED
      BY <2>1, <2>2, <2>3, <3>1
  <2>5. CASE "push" \notin drain.todo
    <3>1. CASE active /\ work # {}
      <4> drain' = Taken(work)
        BY <1>10, <2>5, <3>1 DEF PullDone, Iterated
      <4>1. drain'.pc = "connect" /\ drain'.todo = work
        BY DEF Taken
      <4> QED
        BY <1>10, <2>1, <2>2, <2>3, <2>5, <4>1 DEF PullDone
    <3>2. CASE ~active \/ work = {}
      <4>1. work' = work
        BY <1>10, <2>5, <3>2 DEF PullDone, Iterated
      <4> QED
        BY <1>10, <2>1, <2>2, <2>3, <2>5, <4>1 DEF PullDone
    <3> QED
      BY <3>1, <3>2
  <2> QED
    BY <2>4, <2>5
<1>11. ASSUME NEW more \in BOOLEAN, NEW pullAfter \in BOOLEAN, PushDone(more, pullAfter)
      PROVE  DueHeld'
  <2> DEFINE w == IF more THEN work \cup {"push"} ELSE work
  <2>1. loop' = loop /\ now' = now
    BY <1>11 DEF PushDone
  <2>2. due' \subseteq due /\ (~more /\ "push" \in due' => "push" \notin begun)
    BY <1>11 DEF PushDone, Achieves
  <2>3. now = "waiting" /\ "push" \in due' => "push" \in w
    BY <1>11, <2>2 DEF PushDone
  <2>4. CASE pullAfter
    <3>1. /\ work' = w /\ begun' = begun \cup {"pull"}
          /\ drain'.pc = "pull" /\ drain'.todo = {"pull"}
      BY <1>11, <2>4 DEF PushDone, Begins, Doing
    <3> QED
      BY <2>1, <2>2, <2>3, <3>1
  <2>5. CASE ~pullAfter
    <3>1. now = "waiting" /\ "pull" \in due' => "pull" \in w
      BY <1>11, <2>2, <2>5 DEF PushDone
    <3>2. CASE active /\ w # {}
      <4> drain' = Taken(w)
        BY <1>11, <2>5, <3>2 DEF PushDone, Iterated
      <4>1. drain'.pc = "connect" /\ drain'.todo = w
        BY DEF Taken
      <4> QED
        BY <2>1, <2>2, <2>3, <3>1, <4>1
    <3>3. CASE ~active \/ w = {}
      <4>1. work' = w
        BY <1>11, <2>5, <3>3 DEF PushDone, Iterated
      <4> QED
        BY <2>1, <2>2, <2>3, <3>1, <4>1
    <3> QED
      BY <3>2, <3>3
  <2> QED
    BY <2>4, <2>5
<1>12. CASE OperationFails
  BY <1>12 DEF OperationFails, NoDrain, ScheduleRetry, net, told, call
<1>13. CASE OperationRefused
  BY <1>13 DEF OperationRefused, Stopped, Overruns, NoDrain
<1>14. CASE SessionDrops
  BY <1>14 DEF SessionDrops, Cut, ScheduleReconnect, told, call
<1>15. CASE Start
  BY <1>15 DEF Start, Ensure, queue, told, call
<1>16. CASE Stop
  BY <1>16 DEF Stop, Stopped, Overruns, Cut
<1>17. CASE SyncNow
  BY <1>17 DEF SyncNow, Drain, Ensure, Taken, told
<1>18. CASE ReconnectNow
  BY <1>18 DEF ReconnectNow, Overruns, Cut, told, call
<1>19. CASE NotifyLocalChange
  BY <1>19 DEF NotifyLocalChange, Needs, net, queue, call
<1>20. CASE RemoteChange
  BY <1>20 DEF RemoteChange, Needs, Drain, Ensure, Taken, queue, call
<1>21. CASE PolicyUpdated
  BY <1>21 DEF PolicyUpdated, Needs, Drain, Ensure, Taken, call
<1>23. CASE UnblockFails
  BY <1>23 DEF UnblockFails, Cut, ScheduleReconnect, told, call
<1>22. CASE UNCHANGED vars
  BY <1>22 DEF vars, net, queue, told, call
<1> QED
  BY <1>1, <1>2, <1>3, <1>4, <1>5, <1>6, <1>7, <1>8, <1>9, <1>10, <1>11, <1>12, <1>13,
     <1>14, <1>15, <1>16, <1>17, <1>18, <1>19, <1>20, <1>21, <1>22, <1>23 DEF Step

LEMMA InitInv == Init => IInv
  BY DrainShapes DEF Init, IInv, DrainType, StateType, OpeningMeansNone, NoLostWakeup, DueHeld, NoDrain,
         Kind, active, session

LEMMA NextInv == IInv /\ [Next]_vars => IInv'
<1> SUFFICES ASSUME IInv, [Next]_vars PROVE IInv'
  OBVIOUS
<1>1. Step
  BY StepOfNext
<1>2. DrainType' /\ StateType'
  BY <1>1, DrainTypeNext, StateTypeNext DEF IInv
<1>3. OpeningMeansNone' /\ NoLostWakeup'
  BY <1>1, AwakeNext DEF IInv, Awake
<1>4. DueHeld'
  BY <1>1, DueHeldNext DEF IInv
<1> QED
  BY <1>2, <1>3, <1>4 DEF IInv

LEMMA Invariance == Spec => []IInv
<1>1. QED
  BY InitInv, NextInv, PTL DEF Spec

-----------------------------------------------------------------------------
(* The theorems. *)

\* The state of SyncAutoLoop keeps its shape: a stopped loop holds neither a
\* session nor a timer (stop), and a drain has taken work (takePendingWork).
THEOREM TypeCorrect == Spec => []TypeOK
<1>1. IInv => TypeOK
  BY TypeParts DEF IInv
<1> QED
  BY <1>1, Invariance, PTL

\* Pending work that no drain holds has a timer or a connect that starts one
\* (drain, scheduleSyncRetry, scheduleReconnect).
THEOREM LosesNoWakeup == Spec => []NoLostWakeup
<1>1. IInv => NoLostWakeup
  BY DEF IInv
<1> QED
  BY <1>1, Invariance, PTL

\* syncNow answers true only when what it asked for is done.
THEOREM AnswersTruly == Spec => SyncNowHonest
<1>1. ASSUME IInv, [Next]_vars, now = "waiting" /\ now' = "done" PROVE due = {}
  <2>1. Step
    BY <1>1, StepOfNext
  <2>2. SyncNowReturns
    BY <1>1, <2>1 DEF Step, DrainConnected, PushTimer, RetryTimer, ReconnectTimer, OpenSucceeds,
       OpenFails, UnblockFails, OpenRefused, OpenFinishes, PullDone, PushDone, OperationFails,
       OperationRefused, SessionDrops, Start, Stop, SyncNow, ReconnectNow,
       NotifyLocalChange, RemoteChange, PolicyUpdated, vars, Stopped, call
  <2> QED
    BY <1>1, <2>2 DEF SyncNowReturns, Drained, IInv, DueHeld
<1>2. IInv /\ [Next]_vars => [now = "waiting" /\ now' = "done" => due = {}]_vars
  BY <1>1
<1> QED
  BY <1>2, Invariance, PTL DEF Spec, SyncNowHonest
=============================================================================
