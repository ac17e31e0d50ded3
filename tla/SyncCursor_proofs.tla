-------------------------- MODULE SyncCursor_proofs --------------------------
(* That a device never skips a change, whatever the entries, the page size,  *)
(* the windows and the bounds.                                               *)
EXTENDS SyncCursor, TLAPS

-----------------------------------------------------------------------------
(* The inductive invariant. *)

\* The store holds the entry's last change, and nothing of it is unsettled.
Held(e) == applied[e] = seq[e] /\ lost[e] = 0

\* The numbers of the log: every change has its own.
Numbers ==
    /\ cursor <= head
    /\ \A e \in Entry : /\ applied[e] <= seq[e] /\ seq[e] <= head
                        /\ lost[e] <= seq[e]
    /\ \A e, f \in Entry : seq[e] = seq[f] /\ seq[e] # 0 => e = f
    /\ \A e, f \in Entry : lost[e] # 0 /\ seq[f] = lost[e] => e = f

\* Below the cursor nothing is left to apply or to settle.
BelowCursorHeld == \A e \in Entry : seq[e] <= cursor => Held(e)

\* Entries listed by the pull and not yet applied.
Waiting == page \cup (IF phase = "collect" THEN window ELSE todo \cup deferred)
Listed(e) == [entry |-> e, seq |-> seq[e]] \in Waiting

\* What a running pull has listed is applied or waits; the page in flight lies
\* beyond the window.
PullInv ==
    mode = "pull" =>
      /\ reached = cursor /\ cursor <= after /\ after <= head
      /\ target # NoTarget => after <= target /\ target <= head
      /\ target = NoTarget => after = cursor /\ more
      /\ ~fetched => page = {}
      /\ \A i \in page \cup window : i.seq <= seq[i.entry] /\ i.seq <= after
      /\ \A i \in page, j \in window : j.seq < i.seq
      /\ phase = "apply" => todo \subseteq window /\ deferred \subseteq window
      /\ phase = "apply" /\ final => ~more /\ ~fetched
      /\ \A e \in Entry : seq[e] <= after => Held(e) \/ Listed(e)
      /\ ~more => \A e \in Entry : seq[e] <= target => Held(e) \/ Listed(e)

\* What a running push has been told of is its own and lies beyond the cursor.
PushInv ==
    mode = "push" =>
      /\ \A i, j \in answer : i.entry = j.entry => i = j
      /\ \A i \in answer :
            /\ i.seq # 0 /\ i.seq <= seq[i.entry] /\ cursor < seq[i.entry]
            /\ lost[i.entry] \in {0, i.seq} /\ seq[i.entry] \notin acked
            /\ \A f \in Entry : seq[f] = i.seq => f = i.entry
      /\ \A n \in acked : n <= head
      /\ \A n \in acked, e \in Entry : seq[e] = n => Held(e)

IInv == TypeOK /\ Numbers /\ BelowCursorHeld /\ PullInv /\ PushInv

-----------------------------------------------------------------------------
(* Type correctness. *)

LEMMA InitType == Init => TypeOK
<1> SUFFICES ASSUME Init PROVE TypeOK
  OBVIOUS
<1>1. /\ head \in Nat /\ seq \in [Entry -> Nat] /\ applied \in [Entry -> Nat]
      /\ lost \in [Entry -> Nat] /\ cursor \in Nat
      /\ target \in Nat \cup {NoTarget} /\ after \in Nat
      /\ reached \in Nat /\ breaks \in Nat
  BY DEF Init
<1>2. /\ mode \in {"idle", "pull", "push"} /\ phase \in {"collect", "apply"}
      /\ ~(phase = "apply" \/ fetched)
  BY DEF Init
<1>3. /\ wantPull \in BOOLEAN /\ wantPush \in BOOLEAN /\ more \in BOOLEAN
      /\ fetched \in BOOLEAN /\ final \in BOOLEAN /\ stale \in BOOLEAN
  BY DEF Init
<1>4. /\ dirty \subseteq Entry /\ page \subseteq Item /\ window \subseteq Item
      /\ deferred \subseteq Item /\ todo \subseteq Item /\ answer \subseteq Item
      /\ acked \subseteq Nat
  BY DEF Init
<1> QED
  BY <1>1, <1>2, <1>3, <1>4 DEF TypeOK

LEMMA StepType == ASSUME TypeOK, [Next]_vars PROVE TypeOK'
<1> USE SyncCursorAssumption DEF TypeOK, Item, vars, log, store, want, pull, push
<1>1. ASSUME NEW e \in Entry, Edit(e) PROVE TypeOK'
  BY <1>1 DEF Edit
<1>2. ASSUME NEW e \in Entry, RemoteChange(e) PROVE TypeOK'
  BY <1>2 DEF RemoteChange
<1>3. CASE PullStart
  BY <1>3 DEF PullStart
<1>4. CASE FetchPage
  BY <1>4 DEF FetchPage, PageTarget
<1>5. CASE ConsumePage
  BY <1>5 DEF ConsumePage
<1>6. ASSUME NEW i \in todo, ApplyItem(i) PROVE TypeOK'
  BY <1>6 DEF ApplyItem
<1>7. CASE Checkpoint
  BY <1>7 DEF Checkpoint, Larger
<1>8. CASE PullBreaks
  <2>1. wantPull' \in BOOLEAN /\ wantPush' \in BOOLEAN
    BY <1>8, Zenon DEF PullBreaks
  <2> QED
    BY <1>8, <2>1 DEF PullBreaks
<1>9. CASE PushStart
  BY <1>9 DEF PushStart
<1>10. ASSUME NEW e \in Entry, Commit(e) PROVE TypeOK'
  <2>1. answer' \subseteq Item
    BY <1>10 DEF Commit
  <2>2. head' \in Nat /\ seq' \in [Entry -> Nat] /\ lost' \in [Entry -> Nat]
    BY <1>10 DEF Commit
  <2>3. stale' \in BOOLEAN
    BY <1>10, Zenon DEF Commit
  <2> QED
    BY <1>10, <2>1, <2>2, <2>3 DEF Commit
<1>11. CASE ApplyAccepted
  BY <1>11 DEF ApplyAccepted, Answered, Settled
<1>12. CASE PushFinish
  BY <1>12 DEF PushFinish
<1>13. CASE PushBreaks
  <2>1. wantPull' \in BOOLEAN /\ wantPush' \in BOOLEAN
    BY <1>13, Zenon DEF PushBreaks
  <2> QED
    BY <1>13, <2>1 DEF PushBreaks
<1>14. CASE UNCHANGED vars
  BY <1>14
<1> QED
  BY <1>1, <1>2, <1>3, <1>4, <1>5, <1>6, <1>7, <1>8, <1>9, <1>10, <1>11, <1>12,
     <1>13, <1>14 DEF Next, Pull, Push

\* The state keeps its shape.
THEOREM TypeCorrect == Spec => []TypeOK
BY InitType, StepType, PTL DEF Spec

-----------------------------------------------------------------------------
(* The steps that preserve the inductive invariant, one lemma per action.    *)

Core == Numbers /\ BelowCursorHeld /\ PullInv /\ PushInv

LEMMA EditCore == ASSUME TypeOK, Core, NEW e \in Entry, Edit(e) PROVE Core'
<1> USE DEF Edit, TypeOK, Core, log, pull, push
<1>1. Numbers'
  BY DEF Numbers
<1>2. \A f \in Entry : Held(f) => Held(f)'
  BY DEF Held
<1>3. BelowCursorHeld'
  BY <1>2 DEF BelowCursorHeld
<1>4. \A f \in Entry : Listed(f)' = Listed(f)
  BY DEF Listed, Waiting
<1>5. PullInv'
  BY <1>2, <1>4 DEF PullInv
<1>6. PushInv'
  BY <1>2 DEF PushInv, Item
<1> QED
  BY <1>1, <1>3, <1>5, <1>6

LEMMA RemoteChangeCore ==
  ASSUME TypeOK, Core, NEW e \in Entry, RemoteChange(e) PROVE Core'
<1> USE DEF RemoteChange, TypeOK, Core, store, pull, push
<1>1. Numbers'
  BY DEF Numbers
<1>2. \A f \in Entry : seq'[f] # head + 1 => seq'[f] = seq[f] /\ f # e
  OBVIOUS
<1>3. BelowCursorHeld'
  BY <1>2 DEF BelowCursorHeld, Held, Numbers
<1>4. \A f \in Entry : seq'[f] # head + 1 =>
         /\ Held(f) => Held(f)'
         /\ Listed(f) => Listed(f)'
  BY <1>2 DEF Held, Listed, Waiting
<1>5. PullInv'
  BY <1>2, <1>4 DEF PullInv, Item, Numbers
<1>6. PushInv'
  BY <1>2, <1>4 DEF PushInv, Item, Numbers
<1> QED
  BY <1>1, <1>3, <1>5, <1>6

LEMMA PullStartCore == ASSUME TypeOK, Core, PullStart PROVE Core'
<1> USE DEF PullStart, TypeOK, Core, log, store, push
<1>1. Numbers' /\ BelowCursorHeld'
  BY DEF Numbers, BelowCursorHeld, Held
<1>2. \A e \in Entry : seq'[e] <= after' => Held(e)'
  BY DEF BelowCursorHeld, Held
<1>3. PullInv'
  BY <1>2 DEF PullInv, Numbers
<1>4. PushInv'
  BY DEF PushInv
<1> QED
  BY <1>1, <1>3, <1>4

LEMMA IdleCore ==
  ASSUME TypeOK, Core, mode' = "idle",
         UNCHANGED <<log, store>>
  PROVE  Core'
BY DEF Core, Numbers, BelowCursorHeld, Held, PullInv, PushInv, log, store

LEMMA PushStartCore == ASSUME TypeOK, Core, PushStart PROVE Core'
BY DEF PushStart, TypeOK, Core, Numbers, BelowCursorHeld, Held, PullInv, PushInv,
       log, store

LEMMA ApplyItemCore ==
  ASSUME TypeOK, Core, NEW i \in todo, ApplyItem(i) PROVE Core'
<1> USE DEF ApplyItem, TypeOK, Core, log, push, Item
<1>1. /\ mode = "pull" /\ phase = "apply" /\ i \in window /\ i \in Item
      /\ i.seq <= seq[i.entry]
  BY DEF PullInv
<1>2. \A e \in Entry : Held(e) => Held(e)'
  BY <1>1 DEF Held
<1>3. seq[i.entry] = i.seq => Held(i.entry)'
  BY <1>1 DEF Held, Numbers
<1>4. Numbers'
  BY <1>1 DEF Numbers
<1>5. BelowCursorHeld'
  BY <1>2 DEF BelowCursorHeld
<1>6. \A e \in Entry : Listed(e) => Listed(e)' \/ Held(e)'
  <2> SUFFICES ASSUME NEW e \in Entry, Listed(e) PROVE Listed(e)' \/ Held(e)'
    OBVIOUS
  <2>1. CASE [entry |-> e, seq |-> seq[e]] = i
    BY <1>3, <2>1
  <2>2. CASE [entry |-> e, seq |-> seq[e]] # i
    BY <1>1, <2>2 DEF Listed, Waiting
  <2> QED
    BY <2>1, <2>2
<1>7. PullInv'
  BY <1>1, <1>2, <1>6 DEF PullInv
<1>8. PushInv'
  BY <1>1 DEF PushInv
<1> QED
  BY <1>4, <1>5, <1>7, <1>8

LEMMA FetchPageCore == ASSUME TypeOK, Core, FetchPage PROVE Core'
<1> USE SyncCursorAssumption DEF TypeOK, Core, log, store, push
<1> DEFINE upTo   == IF target = NoTarget THEN head ELSE target
           listed == {e \in Entry : after < seq[e] /\ seq[e] <= upTo}
<1>1. PICK P \in SUBSET listed :
        /\ P = {} => listed = {}
        /\ \A e \in P, f \in listed \ P : seq[e] < seq[f]
        /\ page' = {[entry |-> e, seq |-> seq[e]] : e \in P}
        /\ more' = (P # listed)
        /\ after' \in {seq[e] : e \in P} \cup {after}
        /\ P # {} => IsLast(after', page')
        /\ P = {} => after' = after
  BY DEF FetchPage
<1>2. /\ mode = "pull" /\ more /\ ~fetched /\ fetched' /\ target' = upTo
      /\ UNCHANGED <<head, seq, applied, dirty, lost, cursor, mode, phase, window,
                     deferred, todo, final, reached, answer, acked, stale>>
  BY DEF FetchPage, PageTarget
<1>3. /\ reached = cursor /\ cursor <= after /\ after <= head
      /\ after <= upTo /\ upTo <= head /\ upTo \in Nat /\ page = {}
      /\ \A i \in window : i.seq <= seq[i.entry] /\ i.seq <= after
      /\ phase = "apply" => todo \subseteq window /\ deferred \subseteq window /\ ~final
      /\ \A e \in Entry : seq[e] <= after => Held(e) \/ Listed(e)
  BY <1>2 DEF PullInv, Numbers
<1>4. /\ after' \in Nat /\ after <= after' /\ after' <= upTo
      /\ \A e \in P : seq[e] <= after'
      /\ \A f \in listed \ P : after' < seq[f]
  <2>1. CASE P = {}
    BY <1>1, <1>3, <2>1
  <2>2. CASE P # {}
    <3>1. PICK q \in P : seq[q] = after'
      BY <1>1, <2>2 DEF IsLast
    <3>2. ASSUME NEW e \in P PROVE seq[e] <= after'
      <4>1. [entry |-> e, seq |-> seq[e]] \in page'
        BY <1>1
      <4>2. [entry |-> e, seq |-> seq[e]].seq <= after'
        BY <1>1, <2>2, <4>1 DEF IsLast
      <4> QED
        BY <4>2
    <3> QED
      BY <1>1, <1>3, <3>1, <3>2
  <2> QED
    BY <2>1, <2>2
<1>5. \A e \in Entry : Held(e)' = Held(e)
  BY <1>2 DEF Held
<1>6. \A e \in Entry : Listed(e) \/ e \in P => Listed(e)'
  BY <1>1, <1>2, <1>3 DEF Listed, Waiting
<1>7. \A e \in Entry : seq[e] <= after' => Held(e) \/ Listed(e)'
  BY <1>3, <1>4, <1>6
<1>8. ~more' => \A e \in Entry : seq[e] <= upTo => Held(e) \/ Listed(e)'
  <2>1. ~more' => P = listed
    BY <1>1, Zenon
  <2> QED
    BY <1>3, <1>6, <2>1
<1>9. \A i \in page' : i.seq <= seq[i.entry] /\ i.seq <= after' /\ after < i.seq
  BY <1>1, <1>4
<1>10. upTo # NoTarget
  BY <1>3
<1>11. PullInv'
  <2>1. \A i \in page' \cup window' : i.seq <= seq'[i.entry] /\ i.seq <= after'
    BY <1>2, <1>3, <1>4, <1>9 DEF Item
  <2>2. \A i \in page', j \in window' : j.seq < i.seq
    BY <1>1, <1>2, <1>3, <1>9 DEF Item
  <2> HIDE DEF upTo, listed
  <2> QED
    BY <1>2, <1>3, <1>4, <1>5, <1>7, <1>8, <1>10, <2>1, <2>2 DEF PullInv
<1>12. Numbers' /\ BelowCursorHeld'
  BY <1>2, <1>5 DEF Numbers, BelowCursorHeld
<1>13. PushInv'
  BY <1>2 DEF PushInv
<1> QED
  BY <1>11, <1>12, <1>13

LEMMA ConsumePageCore == ASSUME TypeOK, Core, ConsumePage PROVE Core'
<1> USE DEF TypeOK, Core, log, store, push
<1>1. /\ mode = "pull" /\ phase = "collect" /\ fetched /\ window' = window \cup page
      /\ ~fetched' /\ page' = {}
      /\ UNCHANGED <<head, seq, applied, dirty, lost, cursor, mode, target, after, more,
                     reached, answer, acked, stale>>
      /\ \/ more /\ UNCHANGED <<phase, deferred, todo, final>>
         \/ /\ phase' = "apply" /\ final' = ~more /\ deferred' \subseteq window'
            /\ todo' = window' \ deferred'
  BY DEF ConsumePage
<1>2. \A e \in Entry : Held(e)' = Held(e)
  BY <1>1 DEF Held
<1>3. Waiting' = Waiting
  BY <1>1 DEF Waiting
<1>4. \A e \in Entry : Listed(e)' = Listed(e)
  BY <1>1, <1>3 DEF Listed
<1>5. PullInv'
  BY <1>1, <1>2, <1>4 DEF PullInv
<1>6. Numbers' /\ BelowCursorHeld'
  BY <1>1, <1>2 DEF Numbers, BelowCursorHeld
<1>7. PushInv'
  BY <1>1 DEF PushInv
<1> QED
  BY <1>5, <1>6, <1>7

LEMMA CheckpointCore == ASSUME TypeOK, Core, Checkpoint PROVE Core'
<1> USE SyncCursorAssumption DEF TypeOK, Core, log, push, Item
<1>1. PICK c \in 0..head : /\ SafeCheckpoint(c) /\ reached' = c
                           /\ cursor' = Larger(cursor, c)
  BY DEF Checkpoint
<1>2. /\ mode = "pull" /\ phase = "apply" /\ todo = {} /\ phase' = "collect"
      /\ window' = deferred /\ deferred' = {}
      /\ mode' = IF final THEN "idle" ELSE "pull"
      /\ UNCHANGED <<head, seq, applied, dirty, lost, target, after, more, fetched,
                     page, todo, final, answer, acked, stale>>
  BY DEF Checkpoint
<1>3. /\ reached = cursor /\ cursor <= after /\ after <= head
      /\ target # NoTarget /\ target \in Nat /\ after <= target /\ target <= head
      /\ \A i \in page \cup window : i.seq <= seq[i.entry] /\ i.seq <= after
      /\ \A i \in page, j \in window : j.seq < i.seq
      /\ deferred \subseteq window
      /\ final => ~more /\ ~fetched /\ page = {}
      /\ Waiting = page \cup deferred
      /\ \A e \in Entry : seq[e] <= after => Held(e) \/ Listed(e)
      /\ ~more => \A e \in Entry : seq[e] <= target => Held(e) \/ Listed(e)
  BY <1>2 DEF PullInv, Waiting
<1>4. c \in Nat /\ cursor <= c /\ cursor' = c /\ (~final => c <= after)
  <2>1. CASE deferred # {}
    <3>1. PICK i \in deferred : IsFirst(i.seq, deferred) /\ c + 1 = Larger(cursor + 1, i.seq)
      BY <1>1, <1>3, <2>1 DEF SafeCheckpoint
    <3> QED
      BY <1>1, <1>3, <3>1 DEF Larger
  <2>2. CASE deferred = {} /\ final
    BY <1>1, <1>3, <2>2 DEF SafeCheckpoint, Larger
  <2>3. CASE deferred = {} /\ ~final
    <3>1. PICK i \in window : c = Larger(cursor, i.seq)
      BY <1>1, <1>3, <2>3 DEF SafeCheckpoint
    <3> QED
      BY <1>1, <1>3, <3>1 DEF Larger
  <2> QED
    BY <2>1, <2>2, <2>3
<1>5. ASSUME NEW e \in Entry, seq[e] <= c PROVE Held(e)
  <2>1. CASE seq[e] <= cursor
    BY <2>1 DEF BelowCursorHeld
  <2>2. CASE deferred # {} /\ cursor < seq[e]
    <3>1. PICK i \in deferred : IsFirst(i.seq, deferred) /\ c + 1 = Larger(cursor + 1, i.seq)
      BY <1>1, <1>3, <2>2 DEF SafeCheckpoint
    <3>2. seq[e] < i.seq /\ i.seq <= after
      BY <1>3, <1>5, <2>2, <3>1 DEF Larger
    <3>3. ~Listed(e)
      <4>1. \A j \in deferred : i.seq <= j.seq
        BY <3>1 DEF IsFirst
      <4>2. \A j \in page : i.seq < j.seq
        BY <1>3
      <4>3. [entry |-> e, seq |-> seq[e]].seq < i.seq
        BY <3>2
      <4> QED
        BY <1>3, <4>1, <4>2, <4>3 DEF Listed
    <3> QED
      BY <1>3, <3>2, <3>3
  <2>3. CASE deferred = {} /\ final /\ cursor < seq[e]
    <3>1. seq[e] <= target
      BY <1>1, <1>3, <1>5, <2>3 DEF SafeCheckpoint, Larger
    <3>2. ~Listed(e)
      BY <1>3, <2>3 DEF Listed
    <3> QED
      BY <1>3, <2>3, <3>1, <3>2
  <2>4. CASE deferred = {} /\ ~final /\ cursor < seq[e]
    <3>1. PICK i \in window : c = Larger(cursor, i.seq)
      BY <1>1, <1>3, <2>4 DEF SafeCheckpoint
    <3>2. seq[e] <= i.seq /\ seq[e] <= after
      BY <1>3, <1>5, <2>4, <3>1 DEF Larger
    <3>3. ~Listed(e)
      <4>1. \A j \in page : i.seq < j.seq
        BY <1>3
      <4>2. [entry |-> e, seq |-> seq[e]].seq <= i.seq
        BY <3>2
      <4> QED
        BY <1>3, <2>4, <4>1, <4>2 DEF Listed
    <3> QED
      BY <1>3, <3>2, <3>3
  <2> QED
    BY <2>1, <2>2, <2>3, <2>4
<1>6. \A e \in Entry : Held(e)' = Held(e) /\ Listed(e)' = Listed(e)
  BY <1>2, <1>3 DEF Held, Listed, Waiting
<1>7. Numbers'
  BY <1>1, <1>2, <1>4 DEF Numbers
<1>8. BelowCursorHeld'
  BY <1>2, <1>4, <1>5, <1>6 DEF BelowCursorHeld
<1>9. PullInv'
  BY <1>1, <1>2, <1>3, <1>4, <1>6 DEF PullInv
<1>10. PushInv'
  BY <1>2 DEF PushInv
<1> QED
  BY <1>7, <1>8, <1>9, <1>10

LEMMA CommitCore == ASSUME TypeOK, Core, NEW e \in Entry, Commit(e) PROVE Core'
<1> USE DEF TypeOK, Core, Item, pull, want
<1>1. /\ mode = "push" /\ e \in dirty /\ \A i \in answer : i.entry # e
      /\ UNCHANGED <<applied, dirty, cursor, mode, acked>>
  BY DEF Commit
<1>2. CASE lost[e] # 0 /\ answer' = answer \cup {[entry |-> e, seq |-> lost[e]]}
           /\ UNCHANGED <<log, lost>>
  <2>1. cursor < seq[e]
    BY <1>2 DEF BelowCursorHeld, Held
  <2>2. PushInv'
    BY <1>1, <1>2, <2>1 DEF PushInv, Numbers, log, Held
  <2>3. Numbers' /\ BelowCursorHeld' /\ PullInv'
    BY <1>1, <1>2 DEF Numbers, BelowCursorHeld, Held, PullInv, log
  <2> QED
    BY <2>2, <2>3
<1>3. CASE /\ lost[e] = 0 /\ applied[e] = seq[e]
           /\ head' = head + 1
           /\ seq' = [seq EXCEPT ![e] = head + 1]
           /\ lost' = [lost EXCEPT ![e] = head + 1]
           /\ answer' = answer \cup {[entry |-> e, seq |-> head + 1]}
  <2>1. Numbers'
    BY <1>1, <1>3 DEF Numbers
  <2>2. \A f \in Entry : seq'[f] # head + 1 => f # e /\ seq'[f] = seq[f] /\ Held(f)' = Held(f)
    BY <1>1, <1>3 DEF Held
  <2>3. BelowCursorHeld'
    BY <1>1, <1>3, <2>2 DEF BelowCursorHeld, Numbers
  <2>4. \A n \in acked' : n <= head /\ n <= head'
    BY <1>1, <1>3 DEF PushInv
  <2>5. \A n \in acked', f \in Entry : seq'[f] = n => Held(f)'
    BY <1>1, <2>2, <2>4 DEF PushInv
  <2>6. \A i \in answer :
            /\ i.seq # 0 /\ i.seq <= seq'[i.entry] /\ cursor < seq'[i.entry]
            /\ lost'[i.entry] \in {0, i.seq} /\ seq'[i.entry] \notin acked
            /\ \A f \in Entry : seq'[f] = i.seq => f = i.entry
    BY <1>1, <1>3, <2>2 DEF PushInv, Numbers
  <2>7. PushInv'
    <3> DEFINE it == [entry |-> e, seq |-> head + 1]
    <3>1. /\ it.seq # 0 /\ it.seq <= seq'[it.entry] /\ cursor < seq'[it.entry]
          /\ lost'[it.entry] \in {0, it.seq} /\ seq'[it.entry] \notin acked
          /\ \A f \in Entry : seq'[f] = it.seq => f = it.entry
      BY <1>1, <1>3, <2>1, <2>4 DEF Numbers
    <3>2. \A i, j \in answer' : i.entry = j.entry => i = j
      BY <1>1, <1>3 DEF PushInv
    <3>3. answer' = answer \cup {it}
      BY <1>3
    <3> HIDE DEF it
    <3> QED
      BY <1>1, <2>4, <2>5, <2>6, <3>1, <3>2, <3>3 DEF PushInv
  <2> QED
    BY <1>1, <2>1, <2>3, <2>7 DEF PullInv
<1>4. CASE UNCHANGED <<log, lost, answer>>
  BY <1>1, <1>4 DEF Numbers, BelowCursorHeld, Held, PullInv, PushInv, log
<1> QED
  BY <1>2, <1>3, <1>4 DEF Commit

LEMMA ApplyAcceptedCore == ASSUME TypeOK, Core, ApplyAccepted PROVE Core'
<1> USE DEF TypeOK, Core, Item, log, pull, want
<1>1. /\ mode = "push"
      /\ acked' = acked \cup {i.seq : i \in answer}
      /\ answer' = {}
      /\ UNCHANGED <<head, seq, cursor, mode>>
  BY DEF ApplyAccepted
<1>2. ASSUME NEW i \in answer
      PROVE  /\ applied'[i.entry] = i.seq /\ lost'[i.entry] = 0
             /\ cursor < seq[i.entry] /\ i.seq <= seq[i.entry]
             /\ \A f \in Entry : seq[f] = i.seq => f = i.entry
  <2>1. Answered(i.entry) = {i}
    BY <1>1 DEF Answered, PushInv
  <2>2. applied'[i.entry] = i.seq
    BY <2>1 DEF ApplyAccepted
  <2>3. lost[i.entry] \in {0, i.seq}
    BY <1>1 DEF PushInv
  <2>4. lost'[i.entry] = 0
    BY <2>1, <2>3 DEF ApplyAccepted, Settled
  <2> QED
    BY <1>1, <2>2, <2>4 DEF PushInv
<1>3. ASSUME NEW e \in Entry, \A i \in answer : i.entry # e
      PROVE  applied'[e] = applied[e] /\ lost'[e] = lost[e]
  <2>1. Answered(e) = {}
    BY <1>3 DEF Answered
  <2> QED
    BY <2>1 DEF ApplyAccepted, Settled
<1>4. ASSUME NEW e \in Entry
      PROVE  /\ applied'[e] <= seq[e] /\ lost'[e] <= seq[e]
             /\ lost'[e] \in {0, lost[e]}
             /\ (seq[e] <= cursor => Held(e)')
             /\ (Held(e) => Held(e)' \/ \E i \in answer : i.entry = e)
  <2>1. CASE \E i \in answer : i.entry = e
    BY <1>1, <1>2, <2>1
  <2>2. CASE \A i \in answer : i.entry # e
    BY <1>1, <1>3, <2>2 DEF Numbers, BelowCursorHeld, Held
  <2> QED
    BY <2>1, <2>2
<1>5. Numbers'
  <2>1. /\ \A e \in Entry : /\ applied'[e] <= seq'[e] /\ seq'[e] <= head'
                            /\ lost'[e] <= seq'[e]
        /\ \A e, f \in Entry : lost'[e] # 0 /\ seq'[f] = lost'[e] => e = f
    BY <1>1, <1>4 DEF Numbers
  <2> QED
    BY <1>1, <2>1 DEF Numbers
<1>6. BelowCursorHeld'
  BY <1>1, <1>4 DEF BelowCursorHeld
<1>7. ASSUME NEW n \in acked', NEW e \in Entry PROVE n <= head /\ (seq[e] = n => Held(e)')
  <2>1. CASE \E i \in answer : i.seq = n
    <3>1. PICK i \in answer : i.seq = n
      BY <2>1
    <3>2. n <= head
      BY <1>2, <3>1 DEF Numbers
    <3>3. seq[e] = n => e = i.entry
      BY <1>2, <3>1
    <3>4. applied'[i.entry] = n /\ lost'[i.entry] = 0
      BY <1>2, <3>1
    <3> QED
      BY <1>1, <3>2, <3>3, <3>4 DEF Held
  <2>2. CASE n \in acked /\ \A i \in answer : i.seq # n
    <3>1. n <= head /\ (seq[e] = n => Held(e))
      BY <1>1, <2>2 DEF PushInv
    <3>2. CASE \E i \in answer : i.entry = e
      BY <1>1, <2>2, <3>1, <3>2 DEF PushInv
    <3>3. CASE \A i \in answer : i.entry # e
      BY <1>1, <1>3, <3>1, <3>3 DEF Held
    <3> QED
      BY <3>2, <3>3
  <2> QED
    BY <1>1, <2>1, <2>2
<1>8. PushInv'
  BY <1>1, <1>7 DEF PushInv
<1>9. PullInv'
  BY <1>1 DEF PullInv
<1> QED
  BY <1>5, <1>6, <1>8, <1>9

LEMMA PushFinishCore == ASSUME TypeOK, Core, PushFinish PROVE Core'
<1> USE DEF TypeOK, Core, Item, log, pull, push
<1>1. PICK c \in 0..head : Contiguous(c) /\ cursor' = c
  BY DEF PushFinish
<1>2. /\ mode = "push" /\ mode' = "idle"
      /\ UNCHANGED <<head, seq, applied, dirty, lost>>
  BY DEF PushFinish
<1>3. ASSUME NEW e \in Entry, seq[e] <= c PROVE Held(e)
  <2>1. CASE seq[e] <= cursor
    BY <2>1 DEF BelowCursorHeld
  <2>2. CASE cursor < seq[e]
    <3>1. seq[e] \in acked
      BY <1>1, <1>3, <2>2 DEF Contiguous
    <3> QED
      BY <1>2, <3>1 DEF PushInv
  <2> QED
    BY <2>1, <2>2
<1>4. Numbers' /\ BelowCursorHeld'
  BY <1>1, <1>2, <1>3 DEF Numbers, BelowCursorHeld, Held
<1> QED
  BY <1>2, <1>4 DEF PullInv, PushInv

-----------------------------------------------------------------------------
(* The theorem. *)

LEMMA InitCore == Init => Core
BY DEF Init, Core, Numbers, BelowCursorHeld, Held, PullInv, PushInv

LEMMA StepCore == ASSUME IInv, [Next]_vars PROVE Core'
<1> USE DEF IInv, Core
<1>1. ASSUME NEW e \in Entry, Edit(e) PROVE Core'
  BY <1>1, EditCore
<1>2. ASSUME NEW e \in Entry, RemoteChange(e) PROVE Core'
  BY <1>2, RemoteChangeCore
<1>3. CASE Pull
  BY <1>3, PullStartCore, FetchPageCore, ConsumePageCore, ApplyItemCore,
     CheckpointCore DEF Pull
<1>4. CASE Push
  BY <1>4, PushStartCore, CommitCore, ApplyAcceptedCore, PushFinishCore DEF Push
<1>5. CASE PullBreaks
  BY <1>5, IdleCore DEF PullBreaks
<1>6. CASE PushBreaks
  BY <1>6, IdleCore DEF PushBreaks
<1>7. CASE UNCHANGED vars
  BY <1>7 DEF vars, log, store, pull, push, Numbers, BelowCursorHeld, Held, PullInv,
     PushInv, Listed, Waiting
<1> QED
  BY <1>1, <1>2, <1>3, <1>4, <1>5, <1>6, <1>7 DEF Next

\* A device never skips a change: whatever it pulls, commits, defers or loses,
\* an entry whose last change its cursor covers is applied.
THEOREM NeverSkips == Spec => []NothingSkipped
<1>1. Init => IInv
  BY InitType, InitCore DEF IInv, Core
<1>2. IInv /\ [Next]_vars => IInv'
  BY StepType, StepCore DEF IInv, Core
<1>3. IInv => NothingSkipped
  BY DEF IInv, BelowCursorHeld, Held, NothingSkipped
<1> QED
  BY <1>1, <1>2, <1>3, PTL DEF Spec
=============================================================================
