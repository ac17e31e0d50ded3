----------------------- MODULE RealtimeSocket_proofs -----------------------
(* That a session ends for everybody at once, that answers stay what they    *)
(* are, and that the policy is the latest one, for any number of requests,   *)
(* policies and odd messages.                                                *)
EXTENDS RealtimeSocket, TLAPS, SequenceTheorems

-----------------------------------------------------------------------------
(* What the helpers do. *)

Request == [kind : {"hello", "heartbeat", "call"}, result : {"pending", "own", "error"}]
Result == {"pending", "own", "error"}

\* Settling keeps the ids and the kinds, and the results of all others.
LEMMA Settled ==
    ASSUME request \in Seq(Request), NEW S, NEW result \in Result
    PROVE  /\ Settle(S, result) \in Seq(Request)
           /\ DOMAIN Settle(S, result) = Ids
           /\ Len(Settle(S, result)) = Len(request)
           /\ \A r \in Ids : Settle(S, result)[r].kind = request[r].kind
           /\ \A r \in Ids \ S : Settle(S, result)[r] = request[r]
           /\ \A r \in Ids \cap S : Settle(S, result)[r].result = result
<1> DEFINE s == Settle(S, result)
<1>1. Ids = 1..Len(request) /\ Len(request) \in Nat
  BY DEF Ids
<1>2. \A r \in Ids : request[r] \in Request
  BY DEF Ids
<1>3. /\ DOMAIN s = Ids
      /\ \A r \in Ids : s[r] = IF r \in S THEN [request[r] EXCEPT !.result = result] ELSE request[r]
  BY DEF Settle
<1>4. \A r \in Ids : s[r] \in Request /\ s[r].kind = request[r].kind
                     /\ (r \in S => s[r].result = result)
  BY <1>2, <1>3 DEF Request, Result
<1>5. s = [r \in 1..Len(request) |-> s[r]]
  BY <1>1, <1>3 DEF Settle
<1>6. s \in Seq(Request)
  <2>1. \A r \in 1..Len(request) : s[r] \in Request
    BY <1>1, <1>4
  <2> HIDE DEF s
  <2> QED
    BY <1>1, <1>5, <2>1
<1>7. Len(s) = Len(request)
  <2> HIDE DEF s
  <2> QED
    BY <1>1, <1>3, <1>6
<1> QED
  BY <1>3, <1>4, <1>6, <1>7

\* A request sent is the last one and waits; the others are what they were.
LEMMA Sent ==
    ASSUME request \in Seq(Request), NEW kind \in {"hello", "heartbeat", "call"}, Send(kind)
    PROVE  /\ request' \in Seq(Request)
           /\ Len(request') = Len(request) + 1
           /\ Ids' = Ids \cup {Len(request) + 1}
           /\ \A r \in Ids : request'[r] = request[r]
           /\ request'[Len(request) + 1] = [kind |-> kind, result |-> "pending"]
<1> DEFINE new == [kind |-> kind, result |-> "pending"]
<1>1. new \in Request /\ request' = Append(request, new)
  BY DEF Send, Request
<1> HIDE DEF new
<1>2. /\ Append(request, new) \in Seq(Request)
      /\ Len(Append(request, new)) = Len(request) + 1
      /\ \A i \in 1..Len(request) : Append(request, new)[i] = request[i]
      /\ Append(request, new)[Len(request) + 1] = new
  BY <1>1, AppendProperties
<1>3. Ids = 1..Len(request) /\ Ids' = 1..Len(request') /\ Len(request) \in Nat
  BY <1>1, <1>2 DEF Ids
<1> QED
  BY <1>1, <1>2, <1>3 DEF new

\* A message posted comes after those that were there.
LEMMA Posted ==
    ASSUME NEW box \in Seq(Message), NEW m \in Message
    PROVE  /\ Append(box, m) \in Seq(Message)
           /\ DOMAIN Append(box, m) = DOMAIN box \cup {Len(box) + 1}
           /\ Len(box) \in Nat /\ DOMAIN box = 1..Len(box)
           /\ \A k \in DOMAIN box : Append(box, m)[k] = box[k]
           /\ Append(box, m)[Len(box) + 1] = m
<1>1. DOMAIN box = 1..Len(box) /\ Len(box) \in Nat
  OBVIOUS
<1>2. /\ Append(box, m) \in Seq(Message)
      /\ Len(Append(box, m)) = Len(box) + 1
      /\ \A i \in 1..Len(box) : Append(box, m)[i] = box[i]
      /\ Append(box, m)[Len(box) + 1] = m
  BY AppendProperties
<1>3. DOMAIN Append(box, m) = 1..(Len(box) + 1)
  BY <1>2
<1> QED
  BY <1>1, <1>2, <1>3

\* The message at the head is gone, the others move up.
LEMMA HeadTaken ==
    ASSUME NEW box \in Seq(Message), box # <<>>
    PROVE  /\ Head(box) \in Message /\ Head(box) = box[1] /\ 1 \in DOMAIN box
           /\ Tail(box) \in Seq(Message)
           /\ DOMAIN box = 1..Len(box) /\ Len(box) \in Nat
           /\ DOMAIN Tail(box) = 1..(Len(box) - 1)
           /\ \A k \in DOMAIN Tail(box) : Tail(box)[k] = box[k + 1]
<1>1. Len(box) \in Nat \ {0} /\ DOMAIN box = 1..Len(box)
  BY EmptySeq
<1>2. /\ Head(box) \in Message
      /\ Tail(box) \in Seq(Message)
      /\ Len(Tail(box)) = Len(box) - 1
      /\ \A k \in 1..(Len(box) - 1) : Tail(box)[k] = box[k + 1]
  BY <1>1, HeadTailProperties
<1>3. DOMAIN Tail(box) = 1..(Len(box) - 1)
  BY <1>1, <1>2
<1> QED
  BY <1>1, <1>2, <1>3

-----------------------------------------------------------------------------
(* The steps of SocketNext. *)

\* What a step that delivers a message does with it.
Heard(m) ==
    \/ phase = "over" /\ Unheard
    \/ phase # "over" /\ m.type = "answer" /\ HandleAnswer(m)
    \/ phase # "over" /\ m.type = "policy" /\ HandlePolicy(m)
    \/ phase # "over" /\ m.type = "sessionError" /\ HandleSessionError
    \/ phase # "over" /\ m.type = "close" /\ FailConnection /\ UNCHANGED <<greeting, policy, resumes>>

LEMMA DeliveredOrLost ==
    ASSUME inbox \in Seq(Message), DeliverMessage
    PROVE  /\ inbox # <<>> /\ Opened
           /\ inbox' = Tail(inbox) /\ Heard(Head(inbox))
           /\ overtaken' = IF resumes THEN overtaken \cup {Head(inbox).type}
                           ELSE overtaken \ ({Head(inbox).type} \cap {"policy"})
           /\ UNCHANGED <<atServer, link, serverPolicy, odd>>
<1>1. inbox # <<>> /\ Head(inbox) \in Message
  BY HeadTaken DEF DeliverMessage
<1>2. Head(inbox).type \in {"answer", "policy", "sessionError", "close"}
  BY <1>1 DEF Message
<1> QED
  BY <1>1, <1>2 DEF DeliverMessage, Heard

\* The steps at the two ends of the session's life, with the requests between.
SocketStep ==
    \/ SocketConnects \/ SocketOpens \/ OpenFails \/ HelloContinues
    \/ Call \/ Beat \/ TimesOut \/ BeatFails \/ CloseSession
    \/ ServerAnswers \/ ServerChangesPolicy \/ ServerIsOdd \/ LinkBreaks
    \/ DeliverMessage
    \/ UNCHANGED socketVars

LEMMA SocketStepOfNext == ASSUME [SocketNext]_socketVars PROVE SocketStep
  BY DEF SocketNext, Ours, SocketStep

\* What the requests are after a step: as they were, one more, or some of those
\* that waited are settled.
Requests ==
    \/ request' = request
    \/ \E kind \in {"hello", "heartbeat", "call"} : Send(kind)
    \/ \E result \in {"own", "error"}, S \in SUBSET Pending : request' = Settle(S, result)

LEMMA RequestsNext == ASSUME SocketTypeOK, SocketStep PROVE Requests
<1>1. CASE SocketOpens \/ Call \/ Beat
  BY <1>1 DEF SocketOpens, Call, Beat, Requests
<1>2. CASE HelloContinues
  BY <1>2 DEF HelloContinues, CloseTransport, Over, Requests
<1>3. CASE TimesOut \/ BeatFails \/ CloseSession
  BY <1>3 DEF TimesOut, BeatFails, CloseSession, FailConnection, CloseTransport, Over, Requests
<1>4. CASE DeliverMessage
  <2> DEFINE m == Head(inbox)
  <2>1. Heard(m)
    BY <1>4, DeliveredOrLost DEF SocketTypeOK
  <2>2. CASE phase = "over" /\ Unheard
    BY <2>2 DEF Unheard, Elsewhere, Requests
  <2>3. CASE HandleAnswer(m)
    BY <2>3 DEF HandleAnswer, Unheard, Elsewhere, Requests
  <2>4. CASE HandlePolicy(m)
    BY <2>4 DEF HandlePolicy, Requests
  <2>5. CASE HandleSessionError
    BY <2>5 DEF HandleSessionError, Requests
  <2>6. CASE FailConnection
    BY <2>6 DEF FailConnection, Over, Requests
  <2> QED
    BY <2>1, <2>2, <2>3, <2>4, <2>5, <2>6 DEF Heard
<1>5. CASE SocketConnects \/ OpenFails
  BY <1>5 DEF SocketConnects, OpenFails, Requests
<1>6. CASE ServerAnswers \/ ServerChangesPolicy \/ ServerIsOdd \/ LinkBreaks
  BY <1>6 DEF ServerAnswers, ServerChangesPolicy, ServerIsOdd, LinkBreaks, Elsewhere, Unheard, Requests
<1>7. CASE UNCHANGED socketVars
  BY <1>7 DEF socketVars, Requests
<1> QED
  BY <1>1, <1>2, <1>3, <1>4, <1>5, <1>6, <1>7 DEF SocketStep

\* Of each request that is not new: its kind stays, and so does its result
\* unless it waited.
LEMMA RequestsKept ==
    ASSUME request \in Seq(Request), Requests
    PROVE  /\ request' \in Seq(Request) /\ Ids \subseteq Ids'
           /\ \A r \in Ids : /\ request'[r].kind = request[r].kind
                             /\ request[r].result # "pending" => request'[r] = request[r]
<1>1. CASE request' = request
  BY <1>1 DEF Ids
<1>2. ASSUME NEW kind \in {"hello", "heartbeat", "call"}, Send(kind)
      PROVE  /\ request' \in Seq(Request) /\ Ids \subseteq Ids'
             /\ \A r \in Ids : /\ request'[r].kind = request[r].kind
                               /\ request[r].result # "pending" => request'[r] = request[r]
  BY <1>2, Sent
<1>3. ASSUME NEW result \in {"own", "error"}, NEW S \in SUBSET Pending, request' = Settle(S, result)
      PROVE  /\ request' \in Seq(Request) /\ Ids \subseteq Ids'
             /\ \A r \in Ids : /\ request'[r].kind = request[r].kind
                               /\ request[r].result # "pending" => request'[r] = request[r]
  <2>1. result \in Result
    BY DEF Result
  <2>2. \A r \in S : r \in Ids /\ request[r].result = "pending"
    BY DEF Pending
  <2>3. /\ Settle(S, result) \in Seq(Request)
        /\ DOMAIN Settle(S, result) = Ids
        /\ \A r \in Ids : Settle(S, result)[r].kind = request[r].kind
        /\ \A r \in Ids \ S : Settle(S, result)[r] = request[r]
    BY <2>1, Settled
  <2>4. Ids' = Ids
    BY <1>3, <2>3 DEF Ids
  <2> QED
    BY <1>3, <2>2, <2>3, <2>4
<1> QED
  BY <1>1, <1>2, <1>3 DEF Requests

\* The ids the server has yet to answer are those of requests.
LEMMA AtServerNext ==
    ASSUME SocketTypeOK, SocketStep
    PROVE  atServer' \subseteq Ids'
<1>1. request \in Seq(Request) /\ atServer \subseteq Ids
  BY DEF SocketTypeOK, Request
<1>2. Ids \subseteq Ids'
  BY <1>1, RequestsNext, RequestsKept
<1>3. CASE SocketOpens \/ Call \/ Beat
  <2>1. PICK kind \in {"hello", "heartbeat", "call"} : Send(kind)
    BY <1>3 DEF SocketOpens, Call, Beat
  <2>2. Ids' = Ids \cup {Len(request) + 1} /\ atServer' = atServer \cup {Len(request) + 1}
    BY <1>1, <2>1, Sent DEF Send
  <2> QED
    BY <1>1, <2>2
<1>4. CASE ServerAnswers
  BY <1>1, <1>2, <1>4 DEF ServerAnswers
<1>5. CASE ~(SocketOpens \/ Call \/ Beat \/ ServerAnswers)
  <2>1. UNCHANGED atServer
    BY <1>5 DEF SocketStep, SocketConnects, OpenFails, HelloContinues, TimesOut, BeatFails, CloseSession,
                ServerChangesPolicy, ServerIsOdd, LinkBreaks, DeliverMessage, socketVars
  <2> QED
    BY <1>1, <1>2, <2>1
<1> QED
  BY <1>3, <1>4, <1>5

\* What the server sends is a message, and what it sent stays one.
LEMMA InboxNext ==
    ASSUME SocketTypeOK, SocketStep
    PROVE  inbox' \in Seq(Message) /\ serverPolicy' \in Nat /\ odd' \in Nat
<1>1. /\ inbox \in Seq(Message) /\ serverPolicy \in Nat /\ odd \in Nat
      /\ Ids = 1..Len(request) /\ Len(request) \in Nat /\ atServer \subseteq Ids
  BY DEF SocketTypeOK, Ids
<1>2. \A r \in Ids, good \in BOOLEAN : Answer(r, good) \in Message
  BY <1>1 DEF Answer, Message
<1>3. /\ Push("sessionError") \in Message /\ Push("close") \in Message
      /\ [Push("policy") EXCEPT !.policy = serverPolicy + 1] \in Message
  <2>1. /\ Push("sessionError") \in Message /\ Push("close") \in Message
        /\ Push("policy") \in Message
    BY <1>1 DEF Push, Message
  <2>2. \A m \in Message, n \in Nat : [m EXCEPT !.policy = n] \in Message
    BY DEF Message
  <2> QED
    BY <1>1, <2>1, <2>2
<1>4. CASE ServerAnswers
  BY <1>1, <1>2, <1>4, Posted DEF ServerAnswers, Post
<1>5. CASE ServerChangesPolicy
  BY <1>1, <1>3, <1>5, Posted DEF ServerChangesPolicy
<1>6. CASE ServerIsOdd
  <2>1. odd' \in Nat /\ UNCHANGED serverPolicy
    BY <1>1, <1>6 DEF ServerIsOdd, Odd
  <2>2. \E m \in Message : inbox' = Append(inbox, m)
    BY <1>2, <1>3, <1>6 DEF ServerIsOdd, Post
  <2> QED
    BY <1>1, <2>1, <2>2, Posted
<1>7. CASE LinkBreaks
  <2>1. PICK n \in 0..Len(inbox) : inbox' = Append(SubSeq(inbox, 1, n), Push("close"))
    BY <1>7 DEF LinkBreaks
  <2>2. SubSeq(inbox, 1, n) \in Seq(Message)
    BY <1>1, SubSeqProperties
  <2>3. UNCHANGED <<serverPolicy, odd>>
    BY <1>7 DEF LinkBreaks
  <2> QED
    BY <1>1, <1>3, <2>1, <2>2, <2>3, Posted
<1>8. CASE DeliverMessage
  BY <1>1, <1>8, DeliveredOrLost, HeadTaken
<1>9. CASE ~(ServerAnswers \/ ServerChangesPolicy \/ ServerIsOdd \/ LinkBreaks \/ DeliverMessage)
  BY <1>1, <1>9 DEF SocketStep, SocketConnects, SocketOpens, OpenFails, HelloContinues, Call, Beat, TimesOut,
                    BeatFails, CloseSession, socketVars
<1> QED
  BY <1>4, <1>5, <1>6, <1>7, <1>8, <1>9

\* However a session ends, no timer goes on and nobody is told of a beat.
LEMMA Ending ==
    /\ FailConnection => /\ phase' = "over" /\ endedBy' = "them" /\ goodbyes' = goodbyes + 1
                         /\ ~heartbeat' /\ heartbeat' \in BOOLEAN
                         /\ ~beatFailed' /\ beatFailed' \in BOOLEAN
    /\ CloseTransport => /\ phase' = "over" /\ endedBy' = "us" /\ goodbyes' = goodbyes
                         /\ ~heartbeat' /\ heartbeat' \in BOOLEAN
                         /\ ~beatFailed' /\ beatFailed' \in BOOLEAN
  BY Zenon DEF FailConnection, CloseTransport, Over

LEMMA SocketTypeNext == ASSUME SocketTypeOK, SocketStep PROVE SocketTypeOK'
<1>1. request' \in Seq([kind : {"hello", "heartbeat", "call"}, result : {"pending", "own", "error"}])
  BY RequestsNext, RequestsKept DEF SocketTypeOK, Request
<1>2. /\ phase' \in {"none", "connecting", "hello", "ready", "over"} /\ link' \in BOOLEAN
      /\ policy' \in [now : Nat, limit : Nat] /\ greeting' \in Nat /\ goodbyes' \in Nat
      /\ resumes' \in BOOLEAN /\ heartbeat' \in BOOLEAN /\ beatFailed' \in BOOLEAN
      /\ endedBy' \in {"nobody", "us", "them"}
  <2> DEFINE Rest ==
        /\ phase \in {"none", "connecting", "hello", "ready", "over"} /\ link \in BOOLEAN
        /\ policy \in [now : Nat, limit : Nat] /\ greeting \in Nat /\ goodbyes \in Nat
        /\ resumes \in BOOLEAN /\ heartbeat \in BOOLEAN /\ beatFailed \in BOOLEAN
        /\ endedBy \in {"nobody", "us", "them"}
  <2>0. Rest /\ inbox \in Seq(Message)
    BY DEF SocketTypeOK
  <2>1. CASE SocketConnects \/ SocketOpens \/ OpenFails \/ Call \/ Beat
    BY <2>0, <2>1 DEF SocketConnects, SocketOpens, OpenFails, Call, Beat
  <2>2. CASE HelloContinues
    <3>1. /\ resumes' \in BOOLEAN /\ UNCHANGED <<link, greeting>>
        /\ \/ policy' = policy \/ policy' = [now |-> greeting, limit |-> greeting]
    BY <2>2 DEF HelloContinues
  <3>2. \/ CloseTransport
        \/ /\ heartbeat' \in BOOLEAN /\ UNCHANGED <<endedBy, goodbyes, beatFailed>>
           /\ phase' \in {"over", "ready"}
    BY <2>0, <2>2, Zenon DEF HelloContinues
  <3> QED
    BY <2>0, <3>1, <3>2, Ending
  <2>3. CASE TimesOut \/ BeatFails \/ CloseSession
    BY <2>0, <2>3, Ending DEF TimesOut, BeatFails, CloseSession
  <2>4. CASE ServerAnswers \/ ServerChangesPolicy \/ ServerIsOdd \/ LinkBreaks
    BY <2>0, <2>4 DEF ServerAnswers, ServerChangesPolicy, ServerIsOdd, LinkBreaks, Elsewhere, Unheard
  <2>5. CASE DeliverMessage
    <3> DEFINE m == Head(inbox)
    <3>1. Heard(m) /\ UNCHANGED link /\ m \in Message
      BY <2>0, <2>5, DeliveredOrLost, HeadTaken
    <3>2. m.policy \in Nat
      BY <3>1 DEF Message
    <3>3. CASE Unheard
      BY <2>0, <3>1, <3>3 DEF Unheard, Elsewhere
    <3>4. CASE HandleAnswer(m)
      BY <2>0, <3>1, <3>2, <3>4 DEF HandleAnswer, Unheard, Elsewhere
    <3>5. CASE HandlePolicy(m)
      BY <2>0, <3>1, <3>2, <3>5 DEF HandlePolicy
    <3>6. CASE HandleSessionError
      BY <2>0, <3>1, <3>6 DEF HandleSessionError
    <3>7. CASE FailConnection /\ UNCHANGED <<greeting, policy, resumes>>
      BY <2>0, <3>1, <3>7, Ending
    <3> QED
      BY <2>0, <3>1, <3>3, <3>4, <3>5, <3>6, <3>7 DEF Heard
  <2>6. CASE UNCHANGED socketVars
    BY <2>0, <2>6 DEF socketVars
  <2> QED
    BY <2>1, <2>2, <2>3, <2>4, <2>5, <2>6 DEF SocketStep
<1>3. overtaken' \subseteq {"answer", "policy", "sessionError", "close"}
  <2>1. overtaken \subseteq {"answer", "policy", "sessionError", "close"} /\ inbox \in Seq(Message)
    BY DEF SocketTypeOK
  <2>2. CASE DeliverMessage
    <3>1. Head(inbox).type \in {"answer", "policy", "sessionError", "close"}
      BY <2>1, <2>2, DeliveredOrLost, HeadTaken DEF Message
    <3> QED
      BY <2>1, <2>2, <3>1, DeliveredOrLost
  <2>3. CASE overtaken' = overtaken
    BY <2>1, <2>3
  <2> QED
    BY <2>2, <2>3 DEF SocketStep, SocketConnects, SocketOpens, OpenFails, HelloContinues, Call, Beat,
       TimesOut, BeatFails, CloseSession, ServerAnswers, ServerChangesPolicy, ServerIsOdd, LinkBreaks,
       Elsewhere, socketVars
<1> QED
  BY <1>1, <1>2, <1>3, AtServerNext, InboxNext DEF SocketTypeOK

LEMMA SocketTypeInit == SocketInit => SocketTypeOK
<1> SUFFICES ASSUME SocketInit PROVE SocketTypeOK
  OBVIOUS
<1>1. request = <<>> /\ inbox = <<>> /\ atServer = {}
  BY DEF SocketInit
<1>2. /\ request \in Seq([kind : {"hello", "heartbeat", "call"}, result : {"pending", "own", "error"}])
      /\ inbox \in Seq(Message) /\ atServer \subseteq Ids
  BY <1>1, EmptySeq
<1>3. /\ resumes \in BOOLEAN /\ heartbeat \in BOOLEAN /\ beatFailed \in BOOLEAN /\ link \in BOOLEAN
      /\ overtaken = {}
  BY Zenon DEF SocketInit
<1>4. /\ phase = "none" /\ endedBy = "nobody" /\ greeting \in Nat /\ serverPolicy \in Nat
      /\ goodbyes \in Nat /\ odd \in Nat /\ policy \in [now : Nat, limit : Nat]
  BY DEF SocketInit
<1> QED
  BY <1>2, <1>3, <1>4 DEF SocketTypeOK

\* The state of a session is always one of those it can be in.
THEOREM SocketTypeCorrect == SocketSpec => []SocketTypeOK
<1>1. SocketTypeOK /\ [SocketNext]_socketVars => SocketTypeOK'
  BY SocketStepOfNext, SocketTypeNext
<1> QED
  BY <1>1, SocketTypeInit, PTL DEF SocketSpec

(* What a request got stays, whatever is late, repeated or lost, and even    *)
(* when a message is handled before the code that awaits the one before it   *)
(* goes on (handleMessage, rejectPending of socket-session.ts).              *)
THEOREM AnswersStaySettled == SocketSpec => AnswersStay
<1>1. SocketTypeOK /\ [SocketNext]_socketVars =>
          [\A r \in Ids : request[r].result # "pending" => request'[r] = request[r]]_socketVars
  <2> SUFFICES ASSUME SocketTypeOK, [SocketNext]_socketVars
               PROVE  \A r \in Ids : request[r].result # "pending" => request'[r] = request[r]
    OBVIOUS
  <2>1. request \in Seq(Request)
    BY DEF SocketTypeOK, Request
  <2> QED
    BY <2>1, SocketStepOfNext, RequestsNext, RequestsKept
<1> QED
  BY <1>1, SocketTypeCorrect, PTL DEF SocketSpec, AnswersStay

-----------------------------------------------------------------------------
(* The inductive invariant. *)

\* Until the hello is answered nothing else is asked, and no beat can fail.
HelloFirst ==
    /\ phase \in {"none", "connecting"} => request = <<>> /\ ~resumes /\ ~heartbeat /\ ~beatFailed
    /\ phase = "hello" => Len(request) = 1 /\ request[Hello].kind = "hello" /\ ~beatFailed

\* openSession is due to go on only with a settled hello, and once: a session that is
\* ready has its hello behind it, and one that is to be ready is still at the hello,
\* unless it was closed in that turn.
HelloSettled ==
    /\ phase = "ready" \/ resumes => Hello \in Ids /\ request[Hello].result # "pending"
    /\ phase = "ready" => ~resumes
    /\ resumes => phase \in {"hello", "over"}
    /\ resumes /\ phase = "over" /\ request[Hello].result = "own" => "close" \in overtaken

\* A session is over exactly when somebody ended it.
EndSeen == phase = "over" <=> endedBy # "nobody"

\* While the connection stands, the last thing said of the policy is true.
LastTold ==
    link => \A k \in DOMAIN inbox :
                \/ inbox[k].policy = serverPolicy
                \/ \E j \in DOMAIN inbox : j > k /\ inbox[j].type = "policy"

PolicyComes == \E k \in DOMAIN inbox : inbox[k].type = "policy"

\* The greeting openSession is about to adopt is the policy, or a newer one follows,
\* or was handled since.
GreetingHolds ==
    link /\ resumes /\ phase # "over" /\ request[Hello].result = "own" =>
        greeting = serverPolicy \/ PolicyComes \/ "policy" \in overtaken

\* The hello's policy stayed, for the last one was handled in its turn.
Kept == "policy" \in overtaken /\ policy.now = greeting

EndInv == HelloFirst /\ HelloSettled /\ EndSeen /\ EndIsClean
PolicyInv == LastTold /\ GreetingHolds /\ PolicyIsLatest
SocketInv == SocketTypeOK /\ EndInv /\ PolicyInv

\* Who is told of the end is everybody who waits.
LEMMA NobodyWaits ==
    ASSUME request \in Seq(Request), request' = Settle(Pending, "error")
    PROVE  Pending' = {} /\ Ids' = Ids /\ Len(request') = Len(request)
<1>1. "error" \in Result
  BY DEF Result
<1>2. /\ DOMAIN request' = Ids /\ Len(request') = Len(request)
      /\ \A r \in Ids \ Pending : request'[r] = request[r]
      /\ \A r \in Ids \cap Pending : request'[r].result = "error"
  BY <1>1, Settled
<1>3. \A r \in Ids' : request'[r].result # "pending"
  BY <1>2 DEF Ids, Pending
<1> QED
  BY <1>2, <1>3 DEF Ids, Pending

LEMMA EndedRequests ==
    ASSUME FailConnection \/ CloseTransport
    PROVE  request' = Settle(Pending, "error")
  BY DEF FailConnection, CloseTransport, Over

LEMMA HelloNext ==
    ASSUME SocketTypeOK, HelloFirst, HelloSettled, SocketStep
    PROVE  HelloFirst' /\ HelloSettled'
<1>1. /\ request \in Seq(Request) /\ Len(request) \in Nat /\ Ids = 1..Len(request)
      /\ inbox \in Seq(Message)
      /\ phase \in {"none", "connecting", "hello", "ready", "over"}
  BY DEF SocketTypeOK, Request, Ids
<1>2. /\ request' \in Seq(Request) /\ Ids \subseteq Ids'
      /\ \A r \in Ids : /\ request'[r].kind = request[r].kind
                        /\ request[r].result # "pending" => request'[r] = request[r]
  BY <1>1, RequestsNext, RequestsKept
<1>3. CASE UNCHANGED <<phase, request, resumes, heartbeat, beatFailed>>
           /\ ("close" \in overtaken => "close" \in overtaken')
  BY <1>3 DEF HelloFirst, HelloSettled, Ids
<1>4. CASE SocketConnects
  BY <1>4 DEF SocketConnects, HelloFirst, HelloSettled, Ids
<1>5. CASE SocketOpens
  <2>1. Send("hello") /\ phase = "connecting" /\ phase' = "hello" /\ UNCHANGED <<resumes, beatFailed>>
    BY <1>5 DEF SocketOpens
  <2>2. Len(request) = 0 /\ ~resumes /\ ~beatFailed
    BY <2>1 DEF HelloFirst
  <2>3. Len(request') = 1 /\ request'[1].kind = "hello"
    BY <1>1, <2>1, <2>2, Sent
  <2> QED
    BY <2>1, <2>2, <2>3 DEF HelloFirst, HelloSettled, Hello
<1>6. CASE OpenFails
  BY <1>6 DEF OpenFails, HelloFirst, HelloSettled
<1>7. CASE HelloContinues
  <2>1. ~resumes' /\ phase' \in {"ready", "over"}
    <3>1. CASE request[Hello].result = "own"
      BY <1>7, <3>1 DEF HelloContinues
    <3>2. CASE request[Hello].result # "own"
      BY <1>7, <3>2, Ending DEF HelloContinues
    <3> QED
      BY <3>1, <3>2
  <2>2. Hello \in Ids /\ request[Hello].result # "pending"
    BY <1>7 DEF HelloContinues, HelloSettled
  <2> QED
    BY <1>2, <2>1, <2>2 DEF HelloFirst, HelloSettled
<1>8. CASE Call \/ Beat
  <2>1. phase = "ready" /\ UNCHANGED <<phase, resumes>>
    BY <1>8 DEF Call, Beat, Ready
  <2> QED
    BY <1>2, <2>1 DEF HelloFirst, HelloSettled
<1>9. CASE TimesOut \/ BeatFails \/ CloseSession
  <2>1. /\ FailConnection \/ CloseTransport
        /\ phase' = "over" /\ UNCHANGED resumes
    BY <1>9, Ending DEF TimesOut, BeatFails, CloseSession
  <2>2. resumes => Hello \in Ids /\ request[Hello].result # "pending"
    BY DEF HelloSettled
  <2>3. ASSUME resumes PROVE FALSE
    <3>1. phase = "hello" /\ Ids = {Hello}
      <4>1. phase = "hello" /\ Len(request) = 1
        BY <1>9, <2>3 DEF HelloSettled, HelloFirst, TimesOut, BeatFails, CloseSession, Ready
      <4> QED
        BY <1>1, <4>1 DEF Hello
    <3>2. Pending = {}
      BY <2>2, <2>3, <3>1 DEF Pending
    <3>3. ~beatFailed
      BY <3>1 DEF HelloFirst
    <3> QED
      BY <1>9, <3>1, <3>2, <3>3 DEF TimesOut, BeatFails, CloseSession, Ready
  <2> QED
    BY <1>2, <2>1, <2>2, <2>3 DEF HelloFirst, HelloSettled
<1>10. CASE DeliverMessage
  <2> DEFINE m == Head(inbox)
  <2>1. /\ Heard(m) /\ phase \in {"hello", "ready", "over"}
        /\ overtaken' = IF resumes THEN overtaken \cup {m.type}
                        ELSE overtaken \ ({m.type} \cap {"policy"})
    BY <1>1, <1>10, DeliveredOrLost DEF Opened
  <2>8. "close" \in overtaken => "close" \in overtaken'
    BY <2>1
  <2>2. ASSUME NEW S \in SUBSET Pending, NEW result \in {"own", "error"}, request' = Settle(S, result)
        PROVE  /\ Len(request') = Len(request)
               /\ Hello \in S => Hello \in Ids' /\ request'[Hello].result # "pending"
    <3>1. result \in Result /\ S \subseteq Ids
      BY DEF Result, Pending
    <3>2. Len(request') = Len(request) /\ \A r \in Ids \cap S : request'[r].result = result
      BY <1>1, <2>2, <3>1, Settled
    <3> QED
      BY <1>2, <3>1, <3>2
  <2>3. ASSUME phase = "hello", NEW S \in SUBSET Pending PROVE ~ABeat(S)
    <3>1. ASSUME NEW r \in S PROVE request[r].kind = "hello"
      <4>1. r \in 1..Len(request) /\ Len(request) = 1 /\ request[1].kind = "hello"
        BY <1>1, <2>3 DEF Pending, HelloFirst, Hello
      <4> QED
        BY <4>1
    <3> QED
      BY <3>1 DEF ABeat
  <2>4. CASE phase # "over" /\ HandleAnswer(m) /\ m.id \in Pending
    <3>1. PICK result \in {"own", "error"} : request' = Settle({m.id}, result)
      BY <2>4 DEF HandleAnswer
    <3>2. /\ Len(request') = Len(request)
          /\ m.id = Hello => Hello \in Ids' /\ request'[Hello].result # "pending"
      BY <2>2, <2>4, <3>1
    <3>3. /\ phase' = phase /\ (resumes' <=> (resumes \/ m.id = Hello))
          /\ beatFailed' => beatFailed \/ ABeat({m.id})
      BY <2>1, <2>4 DEF HandleAnswer
    <3>4. CASE phase = "hello"
      <4>1. ~beatFailed' /\ Len(request') = 1 /\ request'[Hello].kind = "hello"
        BY <1>1, <1>2, <2>3, <2>4, <3>2, <3>3, <3>4 DEF HelloFirst, Hello
      <4>2. resumes' => Hello \in Ids' /\ request'[Hello].result # "pending"
        BY <1>2, <3>2, <3>3 DEF HelloSettled
      <4> QED
        BY <3>3, <3>4, <4>1, <4>2 DEF HelloFirst, HelloSettled
    <3>5. CASE phase = "ready"
      <4>1. Hello \in Ids /\ request[Hello].result # "pending" /\ m.id # Hello
        BY <2>4, <3>5 DEF HelloSettled, Pending
      <4> QED
        BY <1>2, <3>3, <3>5, <4>1 DEF HelloFirst, HelloSettled
    <3> QED
      BY <2>1, <2>4, <3>4, <3>5
  <2>5. CASE phase # "over" /\ HandleSessionError
    <3>1. request' = Settle(Pending, "error") /\ phase' = phase
          /\ (resumes' <=> (resumes \/ Hello \in Pending)) /\ (beatFailed' => beatFailed \/ ABeat(Pending))
      BY <2>1, <2>5 DEF HandleSessionError
    <3>2. /\ Len(request') = Len(request)
          /\ Hello \in Pending => Hello \in Ids' /\ request'[Hello].result # "pending"
      BY <2>2, <3>1
    <3>3. CASE phase = "hello"
      <4>1. ~beatFailed' /\ Len(request') = 1 /\ request'[Hello].kind = "hello"
        BY <1>1, <1>2, <2>3, <3>1, <3>2, <3>3 DEF HelloFirst, Hello
      <4>2. resumes' => Hello \in Ids' /\ request'[Hello].result # "pending"
        BY <1>2, <3>1, <3>2 DEF HelloSettled
      <4> QED
        BY <3>1, <3>3, <4>1, <4>2 DEF HelloFirst, HelloSettled
    <3>4. CASE phase = "ready"
      <4>1. Hello \in Ids /\ request[Hello].result # "pending" /\ Hello \notin Pending
        BY <3>4 DEF HelloSettled, Pending
      <4> QED
        BY <1>2, <3>1, <3>4, <4>1 DEF HelloFirst, HelloSettled
    <3> QED
      BY <2>1, <2>5, <3>3, <3>4
  <2>6. CASE m.type = "close" /\ FailConnection /\ UNCHANGED <<greeting, policy, resumes>>
    <3>1. phase' = "over" /\ resumes' = resumes /\ (resumes => "close" \in overtaken')
      BY <2>1, <2>6, Ending
    <3> QED
      BY <1>2, <3>1 DEF HelloFirst, HelloSettled
  <2>7. CASE Unheard \/ HandlePolicy(m) \/ (HandleAnswer(m) /\ m.id \notin Pending)
    BY <1>3, <2>7, <2>8 DEF Unheard, HandlePolicy, HandleAnswer
  <2> QED
    BY <2>1, <2>4, <2>5, <2>6, <2>7 DEF Heard
<1>11. CASE ServerAnswers \/ ServerChangesPolicy \/ ServerIsOdd \/ LinkBreaks \/ UNCHANGED socketVars
  BY <1>3, <1>11 DEF ServerAnswers, ServerChangesPolicy, ServerIsOdd, LinkBreaks, Elsewhere, Unheard, socketVars
<1> QED
  BY <1>4, <1>5, <1>6, <1>7, <1>8, <1>9, <1>10, <1>11 DEF SocketStep

LEMMA EndNext ==
    ASSUME SocketTypeOK, EndInv, SocketStep
    PROVE  EndSeen' /\ EndIsClean'
<1>1. /\ request \in Seq(Request) /\ inbox \in Seq(Message)
      /\ phase \in {"none", "connecting", "hello", "ready", "over"} /\ goodbyes \in Nat
      /\ endedBy \in {"nobody", "us", "them"}
  BY DEF SocketTypeOK, Request
<1>2. /\ phase = "over" <=> endedBy # "nobody"
      /\ phase = "over" => Pending = {} /\ (heartbeat => "close" \in overtaken)
      /\ goodbyes = IF endedBy = "them" THEN 1 ELSE 0
  BY DEF EndInv, EndSeen, EndIsClean
<1>3. CASE UNCHANGED <<phase, request, heartbeat, endedBy, goodbyes>>
           /\ ("close" \in overtaken => "close" \in overtaken')
  BY <1>2, <1>3 DEF EndSeen, EndIsClean, Pending, Ids
<1>4. CASE /\ phase # "over" /\ phase' # "over" /\ UNCHANGED <<endedBy, goodbyes>>
  BY <1>2, <1>4 DEF EndSeen, EndIsClean
<1>5. CASE phase # "over" /\ (FailConnection \/ CloseTransport)
  <2>1. Pending' = {}
    BY <1>1, <1>5, EndedRequests, NobodyWaits
  <2>2. /\ phase' = "over" /\ ~heartbeat' /\ endedBy' # "nobody"
        /\ goodbyes' = IF endedBy' = "them" THEN 1 ELSE 0
    BY <1>2, <1>5, Ending
  <2> QED
    BY <2>1, <2>2 DEF EndSeen, EndIsClean
<1>6. CASE SocketConnects \/ SocketOpens \/ Call \/ Beat
  BY <1>4, <1>6 DEF SocketConnects, SocketOpens, Call, Beat, Ready
<1>7. CASE OpenFails
  <2>1. /\ phase = "connecting" /\ phase' = "over" /\ endedBy' = "us"
        /\ UNCHANGED <<request, heartbeat, goodbyes>>
    BY <1>7 DEF OpenFails
  <2>2. request = <<>> /\ ~heartbeat
    BY <2>1 DEF EndInv, HelloFirst
  <2>3. Pending' = {}
    BY <2>1, <2>2 DEF Pending, Ids
  <2> QED
    BY <1>2, <2>1, <2>2, <2>3 DEF EndSeen, EndIsClean
<1>8. CASE HelloContinues
  <2>1. CASE request[Hello].result = "own"
    <3>1. CASE phase = "hello"
      BY <1>4, <1>8, <2>1, <3>1 DEF HelloContinues
    <3>2. CASE phase = "over"
      <4>1. /\ "close" \in overtaken /\ overtaken' = overtaken
            /\ UNCHANGED <<phase, request, endedBy, goodbyes>>
        BY <1>8, <2>1, <3>2 DEF HelloContinues, EndInv, HelloSettled
      <4> QED
        BY <1>2, <3>2, <4>1 DEF EndSeen, EndIsClean, Pending, Ids
    <3> QED
      BY <1>8, <3>1, <3>2 DEF HelloContinues, EndInv, HelloSettled
  <2>2. CASE request[Hello].result # "own"
    BY <1>3, <1>5, <1>8, <2>2 DEF HelloContinues
  <2> QED
    BY <2>1, <2>2
<1>9. CASE TimesOut \/ BeatFails \/ CloseSession
  BY <1>5, <1>9 DEF TimesOut, BeatFails, CloseSession, Ready
<1>10. CASE DeliverMessage
  <2> DEFINE m == Head(inbox)
  <2>1. Heard(m) /\ ("close" \in overtaken => "close" \in overtaken')
    BY <1>1, <1>10, DeliveredOrLost
  <2>2. CASE Unheard \/ HandlePolicy(m)
    BY <1>3, <2>1, <2>2 DEF Unheard, HandlePolicy
  <2>3. CASE phase # "over" /\ (HandleAnswer(m) \/ HandleSessionError)
    BY <1>4, <2>3 DEF HandleAnswer, HandleSessionError, Unheard, Elsewhere
  <2>4. CASE phase # "over" /\ FailConnection
    BY <1>5, <2>4
  <2> QED
    BY <2>1, <2>2, <2>3, <2>4 DEF Heard
<1>11. CASE ServerAnswers \/ ServerChangesPolicy \/ ServerIsOdd \/ LinkBreaks \/ UNCHANGED socketVars
  BY <1>3, <1>11 DEF ServerAnswers, ServerChangesPolicy, ServerIsOdd, LinkBreaks, Elsewhere, Unheard, socketVars
<1> QED
  BY <1>6, <1>7, <1>8, <1>9, <1>10, <1>11 DEF SocketStep

\* What a server that posts a message posts: the policy it has then.
LEMMA ServerPosts ==
    ASSUME SocketTypeOK, ServerAnswers \/ ServerChangesPolicy \/ ServerIsOdd
    PROVE  \E m \in Message :
              /\ inbox' = Append(inbox, m) /\ m.policy = serverPolicy'
              /\ serverPolicy' # serverPolicy => m.type = "policy"
<1>1. /\ serverPolicy \in Nat /\ Ids = 1..Len(request) /\ Len(request) \in Nat /\ atServer \subseteq Ids
  BY DEF SocketTypeOK, Ids
<1>2. \A r \in Ids, good \in BOOLEAN : Answer(r, good) \in Message /\ Answer(r, good).policy = serverPolicy
  BY <1>1 DEF Answer, Message
<1>3. CASE ServerAnswers
  BY <1>1, <1>2, <1>3 DEF ServerAnswers, Post
<1>4. CASE ServerIsOdd
  <2>1. UNCHANGED serverPolicy
    BY <1>4 DEF ServerIsOdd
  <2>2. Push("sessionError") \in Message /\ Push("sessionError").policy = serverPolicy
    BY <1>1 DEF Push, Message
  <2>3. CASE \E r \in Ids \ atServer : Post(Answer(r, TRUE))
    BY <1>2, <2>1, <2>3 DEF Post
  <2>4. CASE Post(Push("sessionError"))
    BY <2>1, <2>2, <2>4 DEF Post
  <2> QED
    BY <1>4, <2>3, <2>4 DEF ServerIsOdd
<1>5. CASE ServerChangesPolicy
  <2> DEFINE m == [Push("policy") EXCEPT !.policy = serverPolicy + 1]
  <2>1. serverPolicy' = serverPolicy + 1 /\ inbox' = Append(inbox, m)
    BY <1>5 DEF ServerChangesPolicy
  <2>2. m \in Message /\ m.policy = serverPolicy + 1 /\ m.type = "policy"
    <3>1. Push("policy") \in Message /\ Push("policy").type = "policy"
      BY <1>1 DEF Push, Message
    <3>2. \A p \in Message, n \in Nat : /\ [p EXCEPT !.policy = n] \in Message
                                      /\ [p EXCEPT !.policy = n].policy = n
                                      /\ [p EXCEPT !.policy = n].type = p.type
      BY DEF Message
    <3>3. serverPolicy + 1 \in Nat
      BY <1>1
    <3> QED
      BY <3>1, <3>2, <3>3, Zenon
  <2> QED
    BY <2>1, <2>2
<1> QED
  BY <1>3, <1>4, <1>5

\* What is true of the messages stays true when one is posted or taken.
LEMMA LastToldNext ==
    ASSUME SocketTypeOK, LastTold, SocketStep
    PROVE  LastTold'
<1>1. inbox \in Seq(Message) /\ serverPolicy \in Nat
  BY DEF SocketTypeOK
<1>2. CASE ServerAnswers \/ ServerChangesPolicy \/ ServerIsOdd
  <2>1. PICK m \in Message :
           /\ inbox' = Append(inbox, m) /\ m.policy = serverPolicy'
           /\ serverPolicy' # serverPolicy => m.type = "policy"
    BY <1>2, ServerPosts
  <2>2. link' = link
    BY <1>2 DEF ServerAnswers, ServerChangesPolicy, ServerIsOdd
  <2>3. /\ DOMAIN inbox' = DOMAIN inbox \cup {Len(inbox) + 1}
        /\ Len(inbox) \in Nat /\ DOMAIN inbox = 1..Len(inbox)
        /\ \A k \in DOMAIN inbox : inbox'[k] = inbox[k]
        /\ inbox'[Len(inbox) + 1] = m
    BY <1>1, <2>1, Posted
  <2> SUFFICES ASSUME link', NEW k \in DOMAIN inbox'
               PROVE  \/ inbox'[k].policy = serverPolicy'
                      \/ \E j \in DOMAIN inbox' : j > k /\ inbox'[j].type = "policy"
    BY DEF LastTold
  <2>4. CASE k = Len(inbox) + 1
    BY <2>1, <2>3, <2>4
  <2>5. CASE k \in DOMAIN inbox /\ serverPolicy' # serverPolicy
    <3>1. Len(inbox) + 1 > k
      BY <2>3, <2>5
    <3> QED
      BY <2>1, <2>3, <2>5, <3>1
  <2>6. CASE k \in DOMAIN inbox /\ serverPolicy' = serverPolicy
    <3>1. \/ inbox[k].policy = serverPolicy
          \/ \E j \in DOMAIN inbox : j > k /\ inbox[j].type = "policy"
      BY <2>2, <2>6 DEF LastTold
    <3> QED
      BY <2>3, <2>6, <3>1
  <2> QED
    BY <2>3, <2>4, <2>5, <2>6
<1>3. CASE DeliverMessage
  <2>1. inbox # <<>> /\ inbox' = Tail(inbox) /\ UNCHANGED <<link, serverPolicy>>
    BY <1>1, <1>3, DeliveredOrLost
  <2>2. /\ DOMAIN inbox = 1..Len(inbox) /\ Len(inbox) \in Nat
        /\ DOMAIN inbox' = 1..(Len(inbox) - 1)
        /\ \A k \in DOMAIN inbox' : inbox'[k] = inbox[k + 1]
    BY <1>1, <2>1, HeadTaken
  <2> SUFFICES ASSUME link', NEW k \in DOMAIN inbox'
               PROVE  \/ inbox'[k].policy = serverPolicy'
                      \/ \E j \in DOMAIN inbox' : j > k /\ inbox'[j].type = "policy"
    BY DEF LastTold
  <2>3. CASE inbox[k + 1].policy = serverPolicy
    BY <2>1, <2>2, <2>3
  <2>4. ASSUME NEW j \in DOMAIN inbox, j > k + 1, inbox[j].type = "policy"
        PROVE  \E i \in DOMAIN inbox' : i > k /\ inbox'[i].type = "policy"
    <3>1. j - 1 \in DOMAIN inbox' /\ j - 1 > k /\ (j - 1) + 1 = j
      BY <2>2, <2>4
    <3>2. inbox'[j - 1].type = "policy"
      BY <2>2, <2>4, <3>1
    <3> QED
      BY <3>1, <3>2
  <2>5. k + 1 \in DOMAIN inbox
    BY <2>2
  <2> QED
    BY <2>1, <2>3, <2>4, <2>5 DEF LastTold
<1>4. CASE OpenFails \/ LinkBreaks
  BY <1>4 DEF OpenFails, LinkBreaks, LastTold
<1>5. CASE UNCHANGED <<inbox, link, serverPolicy>>
  BY <1>5 DEF LastTold
<1>6. CASE SocketConnects \/ SocketOpens \/ HelloContinues \/ Call \/ Beat \/ TimesOut \/ BeatFails
           \/ CloseSession \/ UNCHANGED socketVars
  BY <1>5, <1>6 DEF SocketConnects, SocketOpens, HelloContinues, Call, Beat, TimesOut, BeatFails,
                    CloseSession, socketVars
<1> QED
  BY <1>2, <1>3, <1>4, <1>6 DEF SocketStep

\* A message that is taken leaves the other policies behind it, and what it says
\* of the policy is true unless one of them follows.
LEMMA HeadOfNews ==
    ASSUME inbox \in Seq(Message), inbox # <<>>, inbox' = Tail(inbox)
    PROVE  /\ PolicyComes /\ Head(inbox).type # "policy" => PolicyComes'
           /\ link /\ LastTold => Head(inbox).policy = serverPolicy \/ PolicyComes'
<1>1. /\ Head(inbox) = inbox[1] /\ 1 \in DOMAIN inbox
      /\ DOMAIN inbox = 1..Len(inbox) /\ Len(inbox) \in Nat
      /\ DOMAIN inbox' = 1..(Len(inbox) - 1)
      /\ \A k \in DOMAIN inbox' : inbox'[k] = inbox[k + 1]
  BY HeadTaken
<1>2. ASSUME NEW j \in DOMAIN inbox, j > 1, inbox[j].type = "policy"
      PROVE  PolicyComes'
  <2>1. j - 1 \in DOMAIN inbox' /\ (j - 1) + 1 = j
    BY <1>1, <1>2
  <2>2. inbox'[j - 1].type = "policy"
    BY <1>1, <1>2, <2>1
  <2> QED
    BY <2>1, <2>2 DEF PolicyComes
<1>3. ASSUME PolicyComes, Head(inbox).type # "policy" PROVE PolicyComes'
  <2>1. PICK k \in DOMAIN inbox : inbox[k].type = "policy"
    BY <1>3 DEF PolicyComes
  <2>2. k > 1
    BY <1>1, <1>3, <2>1
  <2> QED
    BY <1>2, <2>1, <2>2
<1>4. ASSUME link, LastTold PROVE Head(inbox).policy = serverPolicy \/ PolicyComes'
  BY <1>1, <1>2, <1>4 DEF LastTold
<1> QED
  BY <1>3, <1>4

LEMMA PolicyNext ==
    ASSUME SocketTypeOK, EndInv, HelloSettled', PolicyInv, SocketStep
    PROVE  GreetingHolds' /\ PolicyIsLatest'
<1>1. /\ request \in Seq(Request) /\ inbox \in Seq(Message) /\ serverPolicy \in Nat
  BY DEF SocketTypeOK, Request
<1>2. CASE UNCHANGED <<phase, request, inbox, link, greeting, resumes, overtaken, policy, serverPolicy>>
  BY <1>2 DEF PolicyInv, GreetingHolds, PolicyIsLatest, PolicyComes, Ready, Ids
<1>3. CASE ~resumes' /\ phase' # "ready"
  BY <1>3 DEF GreetingHolds, PolicyIsLatest, Ready
<1>4. CASE phase' = "over"
  BY <1>3, <1>4 DEF HelloSettled, GreetingHolds, PolicyIsLatest, Ready
<1>5. CASE ServerAnswers \/ ServerChangesPolicy \/ ServerIsOdd
  <2>1. PICK m \in Message :
           /\ inbox' = Append(inbox, m) /\ m.policy = serverPolicy'
           /\ serverPolicy' # serverPolicy => m.type = "policy"
    BY <1>5, ServerPosts
  <2>2. UNCHANGED <<phase, request, link, greeting, resumes, overtaken, policy>>
    BY <1>5 DEF ServerAnswers, ServerChangesPolicy, ServerIsOdd, Elsewhere, Unheard
  <2>3. /\ PolicyComes => PolicyComes'
        /\ serverPolicy' # serverPolicy => PolicyComes'
    <3>1. /\ DOMAIN inbox' = DOMAIN inbox \cup {Len(inbox) + 1}
          /\ \A k \in DOMAIN inbox : inbox'[k] = inbox[k]
          /\ inbox'[Len(inbox) + 1] = m
      BY <1>1, <2>1, Posted
    <3> QED
      BY <2>1, <3>1 DEF PolicyComes
  <2>4. Ready => /\ policy.limit = policy.now
                 /\ policy.now = serverPolicy \/ ~link \/ PolicyComes \/ Kept
    BY DEF PolicyInv, PolicyIsLatest, PolicyComes, Kept
  <2>5. link /\ resumes /\ phase # "over" /\ request[Hello].result = "own" =>
           greeting = serverPolicy \/ PolicyComes \/ "policy" \in overtaken
    BY DEF PolicyInv, GreetingHolds
  <2>6. GreetingHolds'
    BY <2>2, <2>3, <2>5 DEF GreetingHolds
  <2>7. Ready' => /\ policy'.limit = policy'.now
                  /\ policy'.now = serverPolicy' \/ ~link' \/ PolicyComes' \/ Kept'
    BY <2>2, <2>3, <2>4 DEF Ready, Kept
  <2> QED
    BY <2>6, <2>7 DEF PolicyIsLatest, PolicyComes, Kept
<1>6. CASE LinkBreaks
  <2>1. ~link' /\ UNCHANGED <<phase, policy>>
    BY <1>6 DEF LinkBreaks, Elsewhere, Unheard
  <2> QED
    BY <2>1 DEF GreetingHolds, PolicyInv, PolicyIsLatest, Ready
<1>7. CASE SocketConnects \/ SocketOpens \/ OpenFails
  <2>1. phase' \in {"connecting", "hello", "over"} /\ UNCHANGED resumes /\ phase \in {"none", "connecting"}
    BY <1>7 DEF SocketConnects, SocketOpens, OpenFails
  <2>2. ~resumes
    BY <2>1 DEF EndInv, HelloFirst
  <2> QED
    BY <1>3, <2>1, <2>2
<1>8. CASE HelloContinues
  <2>1. ~resumes' /\ resumes /\ UNCHANGED <<inbox, link, greeting, overtaken, serverPolicy>>
    BY <1>8 DEF HelloContinues
  <2>4. CASE phase = "over"
    <3>1. phase' = "over"
      BY <1>8, <2>4 DEF HelloContinues
    <3> QED
      BY <1>4, <3>1
  <2>2. CASE phase # "over" /\ request[Hello].result = "own"
    <3>1. policy' = [now |-> greeting, limit |-> greeting]
      BY <1>8, <2>2 DEF HelloContinues
    <3>2. link => greeting = serverPolicy \/ PolicyComes \/ "policy" \in overtaken
      BY <2>1, <2>2 DEF PolicyInv, GreetingHolds
    <3>3. /\ policy'.limit = policy'.now
          /\ policy'.now = serverPolicy' \/ ~link' \/ PolicyComes' \/ Kept'
      BY <2>1, <3>1, <3>2 DEF PolicyComes, Kept
    <3> QED
      BY <2>1, <3>3 DEF GreetingHolds, PolicyIsLatest, PolicyComes, Kept
  <2>3. CASE request[Hello].result # "own"
    <3>1. phase' = "over"
      BY <1>8, <2>3, Ending DEF HelloContinues
    <3> QED
      BY <1>4, <3>1
  <2> QED
    BY <2>2, <2>3, <2>4
<1>9. CASE Call \/ Beat
  <2>1. phase = "ready" /\ UNCHANGED <<phase, inbox, link, greeting, resumes, overtaken, policy, serverPolicy>>
    BY <1>9 DEF Call, Beat, Ready
  <2>2. ~resumes
    BY <2>1 DEF EndInv, HelloSettled
  <2> QED
    BY <2>1, <2>2 DEF GreetingHolds, PolicyInv, PolicyIsLatest, Ready
<1>10. CASE TimesOut \/ BeatFails \/ CloseSession
  BY <1>4, <1>10, Ending DEF TimesOut, BeatFails, CloseSession
<1>11. CASE DeliverMessage
  <2> DEFINE m == Head(inbox)
  <2>1. /\ inbox # <<>> /\ inbox' = Tail(inbox) /\ Heard(m)
        /\ UNCHANGED <<link, serverPolicy>>
        /\ overtaken' = IF resumes THEN overtaken \cup {m.type}
                        ELSE overtaken \ ({m.type} \cap {"policy"})
    BY <1>1, <1>11, DeliveredOrLost
  <2>2. /\ PolicyComes /\ m.type # "policy" => PolicyComes'
        /\ link => m.policy = serverPolicy \/ PolicyComes'
    BY <1>1, <2>1, HeadOfNews DEF PolicyInv
  <2> HIDE DEF m
  <2>3. CASE phase = "over" /\ Unheard
    BY <1>4, <2>3 DEF Unheard, Elsewhere
  <2>4. CASE phase # "over" /\ m.type = "policy" /\ HandlePolicy(m)
    <3>1. /\ policy' = [now |-> m.policy, limit |-> m.policy]
          /\ UNCHANGED <<phase, request, greeting, resumes>>
      BY <2>1, <2>4 DEF HandlePolicy
    <3>2. /\ policy'.limit = policy'.now
          /\ policy'.now = serverPolicy' \/ ~link' \/ PolicyComes'
      BY <2>1, <2>2, <3>1
    <3>3. resumes' => "policy" \in overtaken'
      BY <2>1, <2>4, <3>1
    <3> QED
      BY <3>1, <3>2, <3>3 DEF GreetingHolds, PolicyIsLatest, PolicyComes, Kept
  <2>5. CASE /\ phase # "over" /\ m.type \in {"answer", "sessionError"}
             /\ HandleAnswer(m) \/ HandleSessionError
    <3>1. UNCHANGED <<phase, policy>>
      BY <2>5 DEF HandleAnswer, HandleSessionError, Unheard, Elsewhere
    <3>2. Ready => /\ policy.limit = policy.now
                   /\ policy.now = serverPolicy \/ ~link \/ PolicyComes \/ Kept
      BY DEF PolicyInv, PolicyIsLatest, PolicyComes, Kept
    <3>3. Ready' => /\ policy'.limit = policy'.now
                    /\ policy'.now = serverPolicy' \/ ~link' \/ PolicyComes' \/ Kept'
      <4>1. "policy" \in overtaken => "policy" \in overtaken'
        BY <2>1, <2>5
      <4>2. Ready => greeting' = greeting
        <5>1. Ready => Hello \notin Pending
          BY DEF Ready, EndInv, HelloSettled, Pending
        <5> QED
          BY <2>5, <5>1 DEF HandleAnswer, HandleSessionError, Unheard
      <4> QED
        BY <2>1, <2>2, <2>5, <3>1, <3>2, <4>1, <4>2 DEF Ready, Kept
    <3>4. GreetingHolds'
      <4>1. CASE HandleAnswer(m)
        <5>1. CASE m.id \in Pending /\ m.id = Hello
          <6>1. greeting' = m.policy
            BY <4>1, <5>1 DEF HandleAnswer
          <6> QED
            BY <2>1, <2>2, <6>1 DEF GreetingHolds
        <5>2. CASE ~(m.id \in Pending /\ m.id = Hello)
          <6>1. UNCHANGED <<greeting, phase>> /\ (resumes' <=> resumes)
            BY <4>1, <5>2 DEF HandleAnswer, Unheard
          <6>2. resumes => Hello \in Ids /\ request[Hello].result # "pending"
            BY DEF EndInv, HelloSettled
          <6>3. resumes => request'[Hello] = request[Hello]
            <7>1. SocketStep
              BY <1>11 DEF SocketStep
            <7>2. \A r \in Ids : request[r].result # "pending" => request'[r] = request[r]
              BY <1>1, <7>1, RequestsNext, RequestsKept
            <7> QED
              BY <6>2, <7>2
          <6>4. "policy" \in overtaken => "policy" \in overtaken'
            BY <2>1, <2>5
          <6> QED
            BY <2>1, <2>2, <2>5, <6>1, <6>3, <6>4 DEF PolicyInv, GreetingHolds
        <5> QED
          BY <5>1, <5>2
      <4>2. CASE HandleSessionError
        <5>1. /\ request' = Settle(Pending, "error")
              /\ resumes' <=> (resumes \/ Hello \in Pending)
              /\ greeting' = greeting
          BY <2>1, <4>2 DEF HandleSessionError
        <5>2. "error" \in Result /\ Pending \subseteq Ids
          BY DEF Result, Pending
        <5>3. Hello \in Pending => request'[Hello].result = "error"
          BY <1>1, <5>1, <5>2, Settled
        <5>4. resumes /\ Hello \notin Pending => request'[Hello] = request[Hello]
          BY <1>1, <5>1, <5>2, Settled DEF EndInv, HelloSettled
        <5>5. "policy" \in overtaken => "policy" \in overtaken'
          BY <2>1, <2>5
        <5> QED
          BY <2>1, <2>2, <2>5, <3>1, <5>1, <5>3, <5>4, <5>5 DEF PolicyInv, GreetingHolds
      <4> QED
        BY <2>5, <4>1, <4>2
    <3> QED
      BY <3>3, <3>4 DEF PolicyIsLatest, PolicyComes, Kept
  <2>6. CASE FailConnection
    BY <1>4, <2>6, Ending
  <2> QED
    BY <2>1, <2>3, <2>4, <2>5, <2>6 DEF Heard
<1>12. CASE UNCHANGED socketVars
  BY <1>2, <1>12 DEF socketVars
<1> QED
  BY <1>5, <1>6, <1>7, <1>8, <1>9, <1>10, <1>11, <1>12 DEF SocketStep

-----------------------------------------------------------------------------
(* The invariant holds, and what follows from it. *)

LEMMA SocketInvInit == SocketInit => SocketInv
<1> SUFFICES ASSUME SocketInit PROVE SocketInv
  OBVIOUS
<1>1. /\ phase = "none" /\ request = <<>> /\ inbox = <<>> /\ ~resumes /\ ~heartbeat /\ ~beatFailed
      /\ endedBy = "nobody" /\ goodbyes = 0
  BY DEF SocketInit
<1>2. DOMAIN inbox = {} /\ Ids = {}
  BY <1>1 DEF Ids
<1>3. EndInv
  BY <1>1, <1>2 DEF EndInv, HelloFirst, HelloSettled, EndSeen, EndIsClean, Pending
<1>4. PolicyInv
  BY <1>1, <1>2 DEF PolicyInv, LastTold, GreetingHolds, PolicyIsLatest, Ready
<1> QED
  BY <1>3, <1>4, SocketTypeInit DEF SocketInv

LEMMA SocketInvNext == ASSUME SocketInv, [SocketNext]_socketVars PROVE SocketInv'
<1>1. SocketStep /\ SocketTypeOK /\ EndInv /\ PolicyInv
  BY SocketStepOfNext DEF SocketInv
<1>2. SocketTypeOK'
  BY <1>1, SocketTypeNext
<1>3. EndInv'
  BY <1>1, HelloNext, EndNext DEF EndInv
<1>4. PolicyInv'
  BY <1>1, <1>3, LastToldNext, PolicyNext DEF PolicyInv, EndInv
<1> QED
  BY <1>2, <1>3, <1>4 DEF SocketInv

LEMMA SocketInvariance == SocketSpec => []SocketInv
<1>1. SocketInv /\ [SocketNext]_socketVars => SocketInv'
  BY SocketInvNext
<1> QED
  BY <1>1, SocketInvInit, PTL DEF SocketSpec

(* When a session is over, nobody waits for an answer any more, the beat is  *)
(* still unless the session was closed in the turn of its hello, and onClose *)
(* was called once, unless the end was asked for (failConnection,            *)
(* handleClose and close of socket-session.ts, openSession).                 *)
THEOREM EndsClean == SocketSpec => []EndIsClean
<1>1. SocketInv => EndIsClean
  BY DEF SocketInv, EndInv
<1> QED
  BY <1>1, SocketInvariance, PTL

(* A session that is ready has the server's policy and shows its limit, or   *)
(* the news of a later one is on its way; the one way for the greeting to    *)
(* overwrite what came after it is a policy handled in the turn of the hello *)
(* (openSession of realtime-client.ts).                                      *)
THEOREM PolicyUpToDate == SocketSpec => []PolicyIsLatest
<1>1. SocketInv => PolicyIsLatest
  BY DEF SocketInv, PolicyInv
<1> QED
  BY <1>1, SocketInvariance, PTL
=============================================================================
