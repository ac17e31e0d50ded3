---------------------------- MODULE AutoSyncLoop ----------------------------
(***************************************************************************)
(* The scheduler of the sync engine (SyncAutoLoop): what has been asked of *)
(* it, the drain that takes the work and runs pulls and pushes one after   *)
(* the other, the realtime session it opens for them, and the timers that  *)
(* bring it back after a failure.                                          *)
(*                                                                         *)
(* Granularity.  A step is one task of the event loop: a timer, a message, *)
(* a call, or the answer of an operation in flight.  What follows in       *)
(* microtasks (a drain resumed by the session it waited for, syncNow       *)
(* resumed by the end of the drain) runs before the next task.             *)
(*                                                                         *)
(* Data.  A requested pull is a flag (its target cursor is never read),    *)
(* delays are not modelled: a timer that is set may fire.  The host is the *)
(* command line: it never defers work (shouldDeferSyncWork is false) and   *)
(* uses neither presence nor the version history.                          *)
(***************************************************************************)
EXTENDS Naturals

CONSTANTS
    MaxNeeds,    \* bound on local and remote changes
    MaxFails,    \* bound on failed operations and dropped sessions
    MaxPartial,  \* bound on pushes that leave something to do
    MaxCalls     \* bound on calls of stop, syncNow and reconnectNow

ASSUME AutoSyncLoopAssumption ==
    /\ MaxNeeds \in Nat /\ MaxFails \in Nat
    /\ MaxPartial \in Nat /\ MaxCalls \in Nat

VARIABLES
    loop,     \* "stopped" or "running" (isActive)
    socket,   \* the realtime session: "none" or "open"
    connect,  \* openRealtimeSession in flight
    ahead,    \* {"pull"} if the server's cursor was ahead of the store's when
              \* the session being opened was
    timers,   \* the timers that are set
    work,     \* PendingSyncWorkQueue
    drain,    \* the drain, and the work it has taken and not done
    now,      \* a call of syncNow: "idle", "waiting", "done" or "failed"
    spent,    \* how much of each bound is used
    \* history
    need,     \* what there is to push, to pull
    fresh,    \* needs that arose after the last such operation began
    due,      \* what the last syncNow asked for that was not done since
    begun,    \* operations that began since
    overrun   \* during the last await of a connect its session was gone and the loop
              \* was stopped or told to reconnect; no session has been opened since

net   == <<socket, connect, ahead, overrun>>
queue == <<work, drain>>
told  == <<need, fresh>>
call  == <<now, due, begun>>
vars  == <<loop, net, timers, queue, told, call, spent>>

active == loop = "running"
session == socket = "open"

Kind == {"push", "pull"}
NoDrain == [pc |-> "none", todo |-> {}, on |-> "open"]

Spend(what, limit) ==
    /\ spent[what] < limit
    /\ spent' = [spent EXCEPT ![what] = @ + 1]

-----------------------------------------------------------------------------
(* Taking work. *)

\* ensureRealtimeSession opens a session only when there is none and none is
\* being opened.
Ensure == connect' = IF ~session /\ connect = "none" THEN "opening" ELSE connect

Taken(w) == [pc |-> "connect", todo |-> w, on |-> "open"]

\* drain() with w pending: it joins the drain that runs, or starts one.
Drain(w) ==
    \/ /\ active /\ drain.pc = "none" /\ w # {}
       /\ drain' = Taken(w) /\ work' = {}
       /\ Ensure
    \/ /\ ~active \/ drain.pc # "none" \/ w = {}
       /\ work' = w
       /\ UNCHANGED <<drain, connect>>

\* Not the code: after a failure no timer brings the drain back.
RetryForgotten == UNCHANGED timers

ScheduleRetry == timers' = timers \cup (IF active THEN {"syncRetry"} ELSE {})

\* Not the code: a loop stopped during a connect schedules the next one.
ReconnectRegardless == timers' = timers \cup {"reconnect"}

ScheduleReconnect == timers' = timers \cup (IF active THEN {"reconnect"} ELSE {})

\* The session an operation uses is closed under it.
Cut(d) == [d EXCEPT !.on = IF d.pc \in {"pull", "push"} THEN "closed" ELSE @]

\* What comes during the last await of a connect joins that connect, which ends
\* without looking whether its session is still there.
Overruns == overrun' = (overrun \/ (connect = "unblocking" /\ socket' = "none"))

\* stop(): an operation in flight keeps running on a closed session.  What was
\* to be pushed is asked for again by the caller that starts the loop anew.
Stopped ==
    /\ loop' = "stopped" /\ timers' = {} /\ socket' = "none"
    /\ work' = {}
    /\ need' = need \ {"push"} /\ due' = {}
    /\ Overruns
    /\ UNCHANGED <<ahead, fresh, now, begun>>

Needs(kind) ==
    /\ Spend("needs", MaxNeeds)
    /\ need' = need \cup {kind} /\ fresh' = fresh \cup {kind}

-----------------------------------------------------------------------------
(* Calls, timers and messages. *)

Start ==
    /\ ~active
    /\ loop' = "running"
    /\ Ensure
    /\ UNCHANGED <<socket, ahead, overrun, timers, queue, told, call, spent>>

Stop ==
    /\ active
    /\ Spend("calls", MaxCalls)
    /\ Stopped
    /\ drain' = Cut(drain)
    /\ UNCHANGED connect

NotifyLocalChange ==
    /\ active
    /\ Needs("push")
    /\ timers' = timers \cup {"push"}
    /\ UNCHANGED <<loop, net, queue, call>>

PushTimer ==
    /\ "push" \in timers
    /\ timers' = timers \ {"push"}
    /\ Drain(work \cup {"push"})
    /\ UNCHANGED <<loop, socket, ahead, overrun, told, call, spent>>

SyncNow ==
    /\ active /\ now # "waiting"
    /\ Spend("calls", MaxCalls)
    /\ timers' = timers \ {"push"}
    /\ Drain(Kind)
    /\ now' = "waiting" /\ due' = Kind /\ begun' = {}
    /\ UNCHANGED <<loop, socket, ahead, overrun, told>>

\* Not the code: the answer does not look at the work that is left.
AnyDrainWillDo == active

Drained == /\ active /\ work = {}
           /\ timers \cap {"syncRetry", "reconnect"} = {}

SyncNowReturns ==
    /\ now = "waiting" /\ drain.pc = "none"
    /\ now' = IF Drained THEN "done" ELSE "failed"
    /\ UNCHANGED <<loop, net, timers, queue, told, due, begun, spent>>

\* The server's cursor advances; a session is told (onCursorAdvanced).
RemoteChange ==
    /\ Needs("pull")
    /\ \/ /\ session
          /\ Drain(work \cup {"pull"})
       \/ /\ ~session
          /\ UNCHANGED <<connect, queue>>
    /\ UNCHANGED <<loop, socket, ahead, overrun, timers, call>>

\* handlePolicyUpdated, when a raised limit unblocks a mutation.
PolicyUpdated ==
    /\ session
    /\ Needs("push")
    /\ Drain(work \cup {"push"})
    /\ UNCHANGED <<loop, socket, ahead, overrun, timers, call>>

RetryTimer ==
    /\ "syncRetry" \in timers
    /\ timers' = timers \ {"syncRetry"}
    /\ Drain(work)
    /\ UNCHANGED <<loop, socket, ahead, overrun, told, call, spent>>

ReconnectTimer ==
    /\ "reconnect" \in timers
    /\ timers' = timers \ {"reconnect"}
    /\ Ensure
    /\ UNCHANGED <<loop, socket, ahead, queue, told, call, spent>>
    /\ Overruns

\* markRealtimeDisconnected: the socket closes, or the host wants a new one.
SessionDrops ==
    /\ session
    /\ Spend("fails", MaxFails)
    /\ socket' = "none"
    /\ drain' = Cut(drain)
    /\ ScheduleReconnect
    /\ UNCHANGED <<loop, connect, ahead, overrun, work, told, call>>

ReconnectNow ==
    /\ active
    /\ Spend("calls", MaxCalls)
    /\ timers' = timers \ {"reconnect"}
    /\ socket' = "none" /\ Overruns
    /\ drain' = Cut(drain)
    /\ connect' = IF connect = "none" THEN "opening" ELSE connect
    /\ UNCHANGED <<loop, ahead, work, told, call>>

-----------------------------------------------------------------------------
(* openRealtimeSession. *)

\* hello_ack: a loop stopped meanwhile closes the session at once.
OpenSucceeds ==
    /\ connect = "opening"
    /\ socket' = IF active THEN "open" ELSE "none"
    /\ connect' = IF active THEN "unblocking" ELSE "none"
    /\ ahead' = need \cap {"pull"}
    /\ overrun' = (overrun /\ ~active)
    /\ UNCHANGED <<loop, timers, queue, told, call, spent>>

OpenFails ==
    /\ connect = "opening"
    /\ Spend("fails", MaxFails)
    /\ connect' = "none"
    /\ ScheduleReconnect
    /\ UNCHANGED <<loop, socket, ahead, overrun, queue, told, call>>

\* Not the code: a session that opens behind the server asks for no pull.
HelloUnread(unblocked) == IF unblocked THEN {"push"} ELSE {}

HelloWork(unblocked) == (IF unblocked THEN {"push"} ELSE {}) \cup ahead

\* Nothing is checked after unblockFileSizeBlockedMutations: the loop is set
\* live even if it has been stopped or has lost the session.
OpenFinishes(unblocked) ==
    LET w == work \cup HelloWork(unblocked) IN
    /\ connect = "unblocking"
    /\ connect' = "none"
    /\ \/ unblocked /\ Needs("push")
       \/ ~unblocked /\ UNCHANGED <<told, spent>>
    /\ loop' = "running"
    /\ IF w # {} /\ drain.pc = "none"
       THEN drain' = Taken(w) /\ work' = {}
       ELSE drain' = drain /\ work' = w
    /\ UNCHANGED <<socket, ahead, overrun, timers, call>>

\* unblockFileSizeBlockedMutations throws: the session is closed, if it stands.
UnblockFails ==
    /\ connect = "unblocking"
    /\ Spend("fails", MaxFails)
    /\ connect' = "none" /\ socket' = "none"
    /\ drain' = Cut(drain)
    /\ ScheduleReconnect
    /\ UNCHANGED <<loop, ahead, overrun, work, told, call>>

\* The server refuses the device for good: its cursor is ahead of the server's,
\* or the vault is gone.
OpenRefused ==
    /\ connect = "opening" /\ active
    /\ Spend("fails", MaxFails)
    /\ connect' = "none"
    /\ Stopped
    /\ drain' = Cut(drain)

-----------------------------------------------------------------------------
(* The drain. *)

Doing(d, kind, todo) == [d EXCEPT !.pc = kind, !.todo = todo]

\* The drain's next operation begins: a pull, then a push.
Begins(kind, todo) ==
    /\ drain' = Doing(drain, kind, todo)
    /\ fresh' = fresh \ {kind}
    /\ begun' = begun \cup {kind}

\* An operation that succeeds meets the needs it found when it began.
Achieves(kind) ==
    /\ need' = IF kind \in fresh THEN need ELSE need \ {kind}
    /\ due' = IF kind \in begun THEN due \ {kind} ELSE due

\* The session the drain waited for is there, or could not be opened.
DrainConnected ==
    /\ drain.pc = "connect" /\ connect = "none"
    /\ \/ /\ session
          /\ Begins(IF "pull" \in drain.todo THEN "pull" ELSE "push", drain.todo)
          /\ UNCHANGED <<timers, work>>
       \/ /\ ~session
          /\ drain' = NoDrain
          /\ work' = work \cup drain.todo
          /\ IF "reconnect" \in timers THEN UNCHANGED timers ELSE ScheduleRetry
          /\ UNCHANGED <<fresh, begun>>
    /\ UNCHANGED <<loop, net, need, now, due, spent>>

\* The end of an iteration with w pending: the next one, or the end of the drain.
Iterated(w) ==
    /\ timers' = timers \ {"syncRetry"}
    /\ \/ /\ active /\ w # {}
          /\ drain' = Taken(w) /\ work' = {}
          /\ Ensure
       \/ /\ ~active \/ w = {}
          /\ drain' = NoDrain /\ work' = w
          /\ UNCHANGED connect
    /\ UNCHANGED <<fresh, begun>>

PullDone ==
    /\ drain.pc = "pull"
    /\ Achieves("pull")
    /\ \/ /\ "push" \in drain.todo
          /\ Begins("push", {"push"})
          /\ UNCHANGED <<connect, timers, work>>
       \/ /\ "push" \notin drain.todo
          /\ Iterated(work)
    /\ UNCHANGED <<loop, socket, ahead, overrun, now, spent>>

\* A push yields to a requested pull, may leave something to do (hasMore) and
\* may ask for a pull of its own (shouldPullAfterPush).
PushDone(more, pullAfter) ==
    LET w == IF more THEN work \cup {"push"} ELSE work IN
    /\ drain.pc = "push"
    /\ \/ more /\ ~pullAfter /\ ("pull" \in work \/ ~active) /\ UNCHANGED spent
       \/ ~more /\ ~pullAfter /\ UNCHANGED spent
       \/ (more \/ pullAfter) /\ Spend("partial", MaxPartial)
    /\ IF more THEN UNCHANGED <<need, due>> ELSE Achieves("push")
    /\ \/ /\ pullAfter
          /\ Begins("pull", {"pull"})
          /\ work' = w
          /\ UNCHANGED <<connect, timers>>
       \/ /\ ~pullAfter
          /\ Iterated(w)
    /\ UNCHANGED <<loop, socket, ahead, overrun, now>>

\* A pull or push throws; on a session that was closed under it it may always.
OperationFails ==
    /\ drain.pc \in {"pull", "push"}
    /\ \/ drain.on = "closed" /\ UNCHANGED spent
       \/ drain.on = "open" /\ Spend("fails", MaxFails)
    /\ drain' = NoDrain
    /\ work' = work \cup drain.todo
    /\ ScheduleRetry
    /\ UNCHANGED <<loop, net, told, call>>

\* The storage quota is exceeded, or the server refuses the device for good.
OperationRefused ==
    /\ drain.pc \in {"pull", "push"} /\ active
    /\ Spend("fails", MaxFails)
    /\ Stopped
    /\ drain' = NoDrain
    /\ UNCHANGED connect

-----------------------------------------------------------------------------
Microtask == \/ drain.pc = "connect" /\ connect = "none"
             \/ now = "waiting" /\ drain.pc = "none"

Timer == PushTimer \/ RetryTimer \/ ReconnectTimer
Answer == \/ OpenSucceeds \/ OpenFinishes(FALSE)
          \/ PullDone \/ PushDone(FALSE, FALSE)
Setback == \/ OpenFails \/ UnblockFails \/ OpenRefused \/ SessionDrops
           \/ OperationFails \/ OperationRefused
           \/ \E more, pullAfter \in BOOLEAN :
                 (more \/ pullAfter) /\ PushDone(more, pullAfter)
Outside == \/ Start \/ Stop \/ SyncNow \/ ReconnectNow
           \/ NotifyLocalChange \/ RemoteChange \/ PolicyUpdated
           \/ OpenFinishes(TRUE)

Init ==
    /\ loop = "stopped"
    /\ socket = "none" /\ connect = "none" /\ ahead = {}
    /\ timers = {} /\ work = {} /\ drain = NoDrain
    /\ now = "idle" /\ due = {} /\ begun = {}
    /\ need \in SUBSET {"pull"} /\ fresh = {}
    /\ overrun = FALSE
    /\ spent = [needs |-> 0, fails |-> 0, partial |-> 0, calls |-> 0]

Next == \/ DrainConnected \/ SyncNowReturns
        \/ ~Microtask /\ (Timer \/ Answer \/ Setback \/ Outside)

Spec == Init /\ [][Next]_vars

(***************************************************************************)
(* Microtasks run, set timers fire, and an operation in flight ends: with  *)
(* failures bounded, it succeeds in the end.                               *)
(***************************************************************************)
Fairness ==
    /\ WF_vars(DrainConnected \/ SyncNowReturns)
    /\ WF_vars(~Microtask /\ PushTimer) /\ WF_vars(~Microtask /\ RetryTimer)
    /\ WF_vars(~Microtask /\ ReconnectTimer)
    /\ WF_vars(~Microtask /\ (OpenSucceeds \/ OpenFinishes(FALSE)))
    /\ WF_vars(~Microtask /\ (PullDone \/ PushDone(FALSE, FALSE)))

FairSpec == Spec /\ Fairness
-----------------------------------------------------------------------------
(* Properties. *)

\* The shape of the state; a session is held only by a loop that runs, and a
\* drain has always taken something.
TypeOK ==
    /\ loop \in {"stopped", "running"} /\ socket \in {"none", "open"}
    /\ ahead \subseteq {"pull"}
    /\ connect \in {"none", "opening", "unblocking"}
    /\ timers \subseteq {"push", "syncRetry", "reconnect"}
    /\ work \subseteq Kind
    /\ drain \in [pc : {"none", "connect", "pull", "push"}, todo : SUBSET Kind,
                  on : {"open", "closed"}]
    /\ drain.pc # "none" => drain.todo # {}
    /\ session \/ timers # {} => active
    /\ need \subseteq Kind /\ fresh \subseteq Kind
    /\ due \subseteq Kind /\ begun \subseteq Kind
    /\ now \in {"idle", "waiting", "done", "failed"} /\ overrun \in BOOLEAN

\* No wake-up is lost: work that is pending while no drain runs has a timer or
\* a connection in the making that will start one.  A reconnect timer does so
\* only while there is no session.
NoLostWakeup ==
    active /\ work # {} /\ drain.pc = "none"
        => \/ "syncRetry" \in timers \/ connect # "none"
           \/ "reconnect" \in timers /\ ~session

\* syncNow answers true only after a pull and a push that began after the call
\* succeeded (`synch sync` reports success and exits 0 on that answer).
SyncNowHonest == [][now = "waiting" /\ now' = "done" => due = {}]_vars

\* What there is to pull or to push is pulled or pushed, unless the loop stops.
\* Only a stop or a reconnect during the last await of a connect whose session
\* is gone may leave the loop live with neither a session nor a timer.
NeedsAreMet == \A kind \in Kind : kind \in need ~> (kind \notin need \/ ~active \/ overrun)

\* syncNow answers false only when something it was asked for is not done
\* ("Sync did not complete; changes are still pending").
FailureMeansUnfinished ==
    [][now = "waiting" /\ now' = "failed" /\ active => due # {} \/ work # {}]_vars
=============================================================================
