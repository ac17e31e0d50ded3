--------------------------- MODULE RealtimeSocket ---------------------------
(***************************************************************************)
(* One realtime session over a web socket: openSession of the client, the  *)
(* socket session that matches answers with requests, the heartbeat, the   *)
(* policy the API session keeps, and every way a session ends.             *)
(*                                                                         *)
(* Messages of the server arrive in order and may be lost with the         *)
(* connection.  Those of one chunk may be handled in one turn, before the  *)
(* code that awaits the first of them goes on.                             *)
(*                                                                         *)
(* A request stands for any of the API: what it carries does               *)
(* not matter here, only whether its answer is the expected one.           *)
(***************************************************************************)
EXTENDS Naturals, Sequences, FiniteSets

CONSTANTS
    MaxRequests,  \* bound on requests, the hello among them
    MaxPolicies,  \* bound on changes of the policy
    MaxOdd        \* bound on odd messages: repeated answers, session errors

ASSUME RealtimeSocketAssumption ==
    /\ MaxRequests \in Nat \ {0} /\ MaxPolicies \in Nat /\ MaxOdd \in Nat

VARIABLES
    phase,      \* "none", "connecting", "hello", "ready", "over"
    request,    \* [kind, result] of each request made, in order of ids
    atServer,   \* requests the server has yet to answer
    inbox,      \* what the server sent, in order
    link,       \* the connection stands
    greeting,   \* the policy in the hello_ack
    resumes,    \* the hello is settled and openSession is about to go on
    overtaken,  \* the types of the messages handled while it was, a policy only if it
                \* is the last one (a history variable)
    policy,     \* state.policy and the limit in state.storageStatus
    serverPolicy,
    heartbeat,  \* the interval timer runs
    beatFailed, \* a heartbeat was rejected and sendHeartbeat is about to see it
    endedBy,    \* who ended the session: "nobody", "us", "them"
    goodbyes,   \* calls of onClose
    odd

socketVars == <<phase, request, atServer, inbox, link, greeting, resumes, overtaken, policy,
                serverPolicy, heartbeat, beatFailed, endedBy, goodbyes, odd>>

Opened == phase \notin {"none", "connecting"}
Hello == 1
Ids == DOMAIN request
Pending == {r \in Ids : request[r].result = "pending"}

SocketInit ==
    /\ phase = "none" /\ request = <<>>
    /\ atServer = {} /\ inbox = <<>> /\ link = TRUE
    /\ greeting = 0 /\ resumes = FALSE /\ overtaken = {} /\ policy = [now |-> 0, limit |-> 0] /\ serverPolicy = 1
    /\ heartbeat = FALSE /\ beatFailed = FALSE
    /\ endedBy = "nobody" /\ goodbyes = 0 /\ odd = 0

Odd == odd < MaxOdd /\ odd' = odd + 1
Settle(S, result) ==
    [r \in Ids |-> IF r \in S THEN [request[r] EXCEPT !.result = result] ELSE request[r]]
ABeat(S) == \E r \in S : request[r].kind = "heartbeat"
-----------------------------------------------------------------------------
(* The ends of a session. *)

(* rejectPending, stopHeartbeat and closed, common to all of them *)
Over(who) ==
    /\ phase' = "over" /\ endedBy' = who
    /\ heartbeat' = FALSE
    /\ request' = Settle(Pending, "error")
    /\ beatFailed' = FALSE

ForgetsPending ==  \* Not the code: those who wait are not told.
    /\ phase' = "over" /\ endedBy' = "them" /\ goodbyes' = goodbyes + 1
    /\ heartbeat' = FALSE /\ beatFailed' = FALSE /\ UNCHANGED request

(* failConnection, and handleClose: onClose is called *)
FailConnection == Over("them") /\ goodbyes' = goodbyes + 1

(* close(): the listeners are gone, nobody is called *)
CloseTransport == Over("us") /\ UNCHANGED goodbyes
-----------------------------------------------------------------------------
(* openSession *)

Send(kind) ==
    /\ request' = Append(request, [kind |-> kind, result |-> "pending"])
    /\ atServer' = atServer \cup {Len(request) + 1}

SocketConnects ==
    /\ phase = "none" /\ phase' = "connecting"
    /\ UNCHANGED <<request, atServer, inbox, link, greeting, resumes, overtaken, policy, serverPolicy, heartbeat,
                   beatFailed, endedBy, goodbyes, odd>>

SocketOpens ==
    /\ phase = "connecting" /\ link
    /\ phase' = "hello" /\ Send("hello")
    /\ UNCHANGED <<inbox, link, greeting, resumes, overtaken, policy, serverPolicy, heartbeat, beatFailed,
                   endedBy, goodbyes, odd>>

(* waitForOpen rejects: an error, or a close that names its reason *)
OpenFails ==
    /\ phase = "connecting"
    /\ phase' = "over" /\ endedBy' = "us" /\ link' = FALSE
    /\ UNCHANGED <<request, atServer, inbox, greeting, resumes, overtaken, policy, serverPolicy, heartbeat,
                   beatFailed, goodbyes, odd>>

(* The rest of openSession, once the answer to the hello has been seen. *)
HelloContinues ==
    /\ resumes /\ resumes' = FALSE
    /\ IF request[Hello].result = "own"
       THEN /\ policy' = [now |-> greeting, limit |-> greeting]
            /\ heartbeat' = TRUE
            /\ phase' = IF phase = "over" THEN "over" ELSE "ready"
            /\ UNCHANGED <<request, endedBy, goodbyes, beatFailed>>
       ELSE /\ IF phase = "over" THEN UNCHANGED <<phase, request, heartbeat, endedBy, goodbyes, beatFailed>>
                                 ELSE CloseTransport
            /\ UNCHANGED policy
    /\ UNCHANGED <<atServer, inbox, link, greeting, overtaken, serverPolicy, odd>>
-----------------------------------------------------------------------------
(* Requests. *)

Ready == phase = "ready"
MayRequest == Len(request) < MaxRequests

Call ==
    /\ Ready /\ MayRequest
    /\ Send("call")
    /\ UNCHANGED <<phase, inbox, link, greeting, resumes, overtaken, policy, serverPolicy, heartbeat, beatFailed,
                   endedBy, goodbyes, odd>>

Beat ==
    /\ heartbeat /\ Ready /\ MayRequest
    /\ Send("heartbeat")
    /\ UNCHANGED <<phase, inbox, link, greeting, resumes, overtaken, policy, serverPolicy, heartbeat, beatFailed,
                   endedBy, goodbyes, odd>>

(* A send that throws, or the time limit of a request, ends the session. *)
HelloWaits ==  \* Not the code: the time limit begins with the session.
    /\ Pending # {} /\ Ready
    /\ FailConnection
    /\ UNCHANGED <<atServer, inbox, link, greeting, resumes, overtaken, policy, serverPolicy, odd>>

TimesOut ==
    /\ Pending # {} /\ phase # "over"
    /\ FailConnection
    /\ UNCHANGED <<atServer, inbox, link, greeting, resumes, overtaken, policy, serverPolicy, odd>>

(* sendHeartbeat sees that its request failed *)
BeatFails ==
    /\ beatFailed /\ phase # "over"
    /\ FailConnection
    /\ UNCHANGED <<atServer, inbox, link, greeting, resumes, overtaken, policy, serverPolicy, odd>>

(* The owner of the session closes it. *)
CloseSession ==
    /\ Ready
    /\ CloseTransport
    /\ UNCHANGED <<atServer, inbox, link, greeting, resumes, overtaken, policy, serverPolicy, odd>>
-----------------------------------------------------------------------------
(* The server and the network. *)

Post(m) == inbox' = Append(inbox, m)
Answer(r, good) == [type |-> "answer", id |-> r, good |-> good, policy |-> serverPolicy]
Push(type) == [type |-> type, id |-> 0, good |-> TRUE, policy |-> serverPolicy]
Unheard == UNCHANGED <<phase, request, greeting, resumes, policy, heartbeat, beatFailed, endedBy, goodbyes>>
Elsewhere == Unheard /\ UNCHANGED overtaken

ServerAnswers ==
    /\ link
    /\ \E r \in atServer, good \in BOOLEAN :
          Post(Answer(r, good)) /\ atServer' = atServer \ {r}
    /\ Elsewhere /\ UNCHANGED <<link, serverPolicy, odd>>

ServerChangesPolicy ==
    /\ link /\ Opened
    /\ serverPolicy < MaxPolicies
    /\ serverPolicy' = serverPolicy + 1
    /\ inbox' = Append(inbox, [Push("policy") EXCEPT !.policy = serverPolicy + 1])
    /\ Elsewhere /\ UNCHANGED <<atServer, link, odd>>

(* An answer to what was answered before, and a session_error. *)
ServerIsOdd ==
    /\ link /\ Odd
    /\ \/ \E r \in Ids \ atServer : Post(Answer(r, TRUE))
       \/ Opened /\ Post(Push("sessionError"))
    /\ Elsewhere /\ UNCHANGED <<atServer, link, serverPolicy>>

(* The connection ends; messages that had not arrived may be lost. *)
LinkBreaks ==
    /\ link /\ Opened /\ link' = FALSE
    /\ \E n \in 0..Len(inbox) : inbox' = Append(SubSeq(inbox, 1, n), Push("close"))
    /\ Elsewhere /\ UNCHANGED <<atServer, serverPolicy, odd>>
-----------------------------------------------------------------------------
(* handleMessage, handleError and handleClose *)

LateAnswersCount(m) ==  \* Not the code: what is no longer pending is settled again.
    /\ request' = Settle({m.id}, IF m.good THEN "own" ELSE "error")
    /\ UNCHANGED <<phase, greeting, resumes, policy, heartbeat, beatFailed, endedBy, goodbyes>>

HandleAnswer(m) ==
    IF m.id \in Pending
    THEN /\ request' = Settle({m.id}, IF m.good THEN "own" ELSE "error")
         /\ beatFailed' = (beatFailed \/ (~m.good /\ ABeat({m.id})))
         /\ resumes' = (resumes \/ m.id = Hello)
         /\ greeting' = IF m.id = Hello THEN m.policy ELSE greeting
         /\ UNCHANGED <<phase, policy, heartbeat, endedBy, goodbyes>>
    ELSE Unheard

LimitStays(m) ==  \* Not the code: the limit of the storage status stays.
    policy' = [policy EXCEPT !.now = m.policy]
    /\ UNCHANGED <<phase, request, greeting, resumes, heartbeat, beatFailed, endedBy, goodbyes>>

HandlePolicy(m) ==
    /\ policy' = [now |-> m.policy, limit |-> m.policy]
    /\ UNCHANGED <<phase, request, greeting, resumes, heartbeat, beatFailed, endedBy, goodbyes>>

(* session_error: everything pending is rejected, the connection stands *)
HandleSessionError ==
    /\ request' = Settle(Pending, "error")
    /\ beatFailed' = (beatFailed \/ ABeat(Pending))
    /\ resumes' = (resumes \/ Hello \in Pending)
    /\ UNCHANGED <<phase, greeting, policy, heartbeat, endedBy, goodbyes>>

DeliverMessage ==
    /\ inbox # <<>> /\ Opened
    /\ inbox' = Tail(inbox)
    /\ LET m == Head(inbox)
       IN IF phase = "over" THEN Unheard
          ELSE CASE m.type = "answer"       -> HandleAnswer(m)
                 [] m.type = "policy"       -> HandlePolicy(m)
                 [] m.type = "sessionError" -> HandleSessionError
                 [] m.type = "close"        -> FailConnection
                                               /\ UNCHANGED <<greeting, policy, resumes>>
    /\ overtaken' = IF resumes THEN overtaken \cup {Head(inbox).type}
                    ELSE overtaken \ ({Head(inbox).type} \cap {"policy"})
    /\ UNCHANGED <<atServer, link, serverPolicy, odd>>

Ours == SocketOpens \/ OpenFails \/ HelloContinues \/ BeatFails \/ TimesOut \/ DeliverMessage

SocketNext ==
    \/ SocketConnects \/ Ours \/ Call \/ Beat \/ CloseSession
    \/ ServerAnswers \/ ServerChangesPolicy \/ ServerIsOdd \/ LinkBreaks

(***************************************************************************)
(* The event loop runs what is due, and a request's timer fires when no    *)
(* answer has come.  Nothing limits the time a socket takes to open: that  *)
(* it opens or fails is left to the platform.                              *)
(***************************************************************************)
SocketFairness ==
    /\ WF_socketVars(SocketOpens \/ OpenFails) /\ WF_socketVars(HelloContinues)
    /\ WF_socketVars(BeatFails) /\ WF_socketVars(DeliverMessage)
    /\ WF_socketVars(TimesOut)

SocketSpec == SocketInit /\ [][SocketNext]_socketVars /\ SocketFairness
-----------------------------------------------------------------------------
Message == [type : {"answer", "policy", "sessionError", "close"}, id : Nat,
            good : BOOLEAN, policy : Nat]

SocketTypeOK ==
    /\ phase \in {"none", "connecting", "hello", "ready", "over"}
    /\ request \in Seq([kind : {"hello", "heartbeat", "call"},
                        result : {"pending", "own", "error"}])
    /\ atServer \subseteq Ids /\ inbox \in Seq(Message) /\ link \in BOOLEAN
    /\ policy \in [now : Nat, limit : Nat] /\ {greeting, serverPolicy, goodbyes, odd} \subseteq Nat
    /\ overtaken \subseteq {"answer", "policy", "sessionError", "close"}
    /\ resumes \in BOOLEAN /\ heartbeat \in BOOLEAN /\ beatFailed \in BOOLEAN
    /\ endedBy \in {"nobody", "us", "them"}

(***************************************************************************)
(* A session that is over has told everybody: no request waits, no timer   *)
(* goes on, and onClose was called once if and only if the end was not     *)
(* asked for; a session that is not over has not said goodbye.  Only a     *)
(* close handled in the turn of the hello finds openSession starting the   *)
(* heartbeat afterwards.                                                   *)
(***************************************************************************)
EndIsClean ==
    /\ phase = "over" => /\ Pending = {} /\ endedBy # "nobody"
                         /\ heartbeat => "close" \in overtaken
    /\ goodbyes = IF endedBy = "them" THEN 1 ELSE 0

(***************************************************************************)
(* The policy a session works with is the last one it was told, and the    *)
(* storage limit it shows is that policy's (applySessionStorageLimit).     *)
(* Only when the last one was handled in the turn of the hello, before     *)
(* openSession took over the hello's, is it the hello's that stays.        *)
(***************************************************************************)
PolicyIsLatest ==
    Ready => /\ policy.limit = policy.now
             /\ \/ policy.now = serverPolicy
                \/ ~link
                \/ \E k \in DOMAIN inbox : inbox[k].type = "policy"
                \/ "policy" \in overtaken /\ policy.now = greeting

(***************************************************************************)
(* A request gets its own answer or an error, and what it got stays: late  *)
(* and repeated answers change nothing.                                    *)
(***************************************************************************)
AnswersStay ==
    [][\A r \in Ids : request[r].result # "pending" => request'[r] = request[r]]_socketVars

(* Every request is settled in the end, and so is openSession. *)
RequestsSettle == Pending # {} \/ phase \in {"connecting", "hello"} ~>
                  Pending = {} /\ phase \in {"ready", "over"}
=============================================================================
