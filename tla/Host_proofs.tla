---------------------------- MODULE Host_proofs ----------------------------
(* What holds of the lock of a vault, of the watching of its files and of    *)
(* the SQLite store, for any contenders, files, rows and bounds.             *)
EXTENDS MCHost, FiniteSetTheorems, TLAPS

-----------------------------------------------------------------------------
(* The lock. *)

LEMMA LockTypeInit == LockInit => LockTypeOK
<1> SUFFICES ASSUME LockInit PROVE LockTypeOK
  OBVIOUS
<1>1. named \in Proc \cup {Nothing} /\ \A p \in Contender : p \in Proc
  BY DEF LockInit, Proc
<1>2. content \in [Proc -> Proc \cup {Nothing}]
  BY DEF LockInit, Proc
<1>3. aside \in [Contender -> Proc \cup {Nothing}] /\ at \in [Contender -> Place]
  BY DEF LockInit, Place
<1>4. tries \in [Contender -> 1..MaxAttempts] /\ alive \subseteq Contender
  BY DEF LockInit, MaxAttempts
<1> QED
  BY <1>1, <1>2, <1>3, <1>4 DEF LockTypeOK, LockInit

LEMMA LockTypeNext == ASSUME LockTypeOK, [LockNext]_lockVars PROVE LockTypeOK'
<1> USE DEF LockTypeOK, Goto, NextTry, MaxAttempts
<1>0. \A q \in Contender : q \in Proc
  BY DEF Proc
<1>1. ASSUME NEW p \in Contender, Open(p) PROVE LockTypeOK'
  BY <1>0, <1>1 DEF Open, Place
<1>2. ASSUME NEW p \in Contender, WritePid(p) PROVE LockTypeOK'
  BY <1>0, <1>2 DEF WritePid, Place
<1>3. ASSUME NEW p \in Contender, Look(p) PROVE LockTypeOK'
  BY <1>3 DEF Look, Place
<1>4. ASSUME NEW p \in Contender, Move(p) PROVE LockTypeOK'
  BY <1>4 DEF Move, Place
<1>5. ASSUME NEW p \in Contender, Check(p) PROVE LockTypeOK'
  BY <1>5 DEF Check, Place
<1>6. ASSUME NEW p \in Contender, Restore(p) PROVE LockTypeOK'
  BY <1>6 DEF Restore, Place
<1>7. ASSUME NEW p \in Contender, DropRestored(p) PROVE LockTypeOK'
  BY <1>7 DEF DropRestored, Place
<1>8. ASSUME NEW p \in Contender, DropAside(p) PROVE LockTypeOK'
  BY <1>8 DEF DropAside, Place
<1>9. ASSUME NEW p \in Contender, Release(p) PROVE LockTypeOK'
  BY <1>9 DEF Release, Place
<1>10. ASSUME NEW p \in Contender, Die(p) PROVE LockTypeOK'
  BY <1>10 DEF Die, Place
<1>11. CASE UNCHANGED lockVars
  BY <1>11 DEF lockVars
<1> QED
  BY <1>1, <1>2, <1>3, <1>4, <1>5, <1>6, <1>7, <1>8, <1>9, <1>10, <1>11 DEF LockNext, Acquire

(* A name, a file and an attempt of the lock are always what they can be.    *)
THEOREM LockTypeCorrect == LockSpec => []LockTypeOK
  BY LockTypeInit, LockTypeNext, PTL DEF LockSpec

\* Somebody has created the file, or died on the way.
Started == \E r \in Contender : at[r] \in {"write", "holds", "released", "dead"}

\* Until then there is only the stale file: it is moved aside at most once, and
\* whoever tries again finds no file.
Unclaimed ==
    /\ named \in {Nothing, Gone}
    /\ \A p \in Contender :
          /\ at[p] \in {"open", "look", "move", "check", "drop"}
          /\ content[p] = Nothing /\ aside[p] \in {Nothing, Gone}
          /\ tries[p] = 2 => at[p] = "open" /\ named = Nothing
          /\ at[p] \in {"check", "drop"} => named = Nothing

ClaimInv == LockTypeOK /\ content[Gone] \in {Nothing, Gone} /\ (Started \/ Unclaimed)

LEMMA ClaimInit == LockInit => ClaimInv
<1> SUFFICES ASSUME LockInit PROVE ClaimInv
  OBVIOUS
<1>1. LockTypeOK
  BY LockTypeInit
<1>2. Gone \in Proc /\ (\A p \in Contender : p \in Proc /\ p # Gone /\ p # Nothing)
  BY VaultLockAssumption DEF Proc
<1>3. content[Gone] \in {Nothing, Gone} /\ \A p \in Contender : content[p] = Nothing
  BY <1>2 DEF LockInit
<1>4. Unclaimed
  BY <1>3 DEF LockInit, Unclaimed
<1> QED
  BY <1>1, <1>3, <1>4 DEF ClaimInv

LEMMA ClaimNext == ASSUME ClaimInv, [LockNext]_lockVars PROVE ClaimInv'
<1>1. LockTypeOK /\ LockTypeOK' /\ content[Gone] \in {Nothing, Gone}
  BY LockTypeNext DEF ClaimInv
<1>2. Gone \notin Contender /\ Nothing \notin Contender /\ Gone # Nothing /\ Gone \in Proc
      /\ Nothing \notin alive /\ Gone \notin alive /\ (\A p \in Contender : p \in Proc)
  BY <1>1, VaultLockAssumption DEF LockTypeOK, Proc
<1>3. CASE UNCHANGED lockVars
  BY <1>1, <1>3 DEF ClaimInv, Started, Unclaimed, lockVars
<1>4. ASSUME NEW p \in Contender, Acquire(p) \/ Release(p) \/ Die(p) PROVE ClaimInv'
  <2>1. content'[Gone] \in {Nothing, Gone}
    BY <1>1, <1>2, <1>4
       DEF LockTypeOK, Acquire, Open, WritePid, Look, Move, Check, Restore, DropRestored, DropAside, Release, Die
  <2>2. CASE Started
    <3>1. PICK r \in Contender : at[r] \in {"write", "holds", "released", "dead"}
      BY <2>2 DEF Started
    <3>2. at'[r] \in {"write", "holds", "released", "dead"}
      BY <1>1, <1>4, <3>1
         DEF LockTypeOK, Acquire, Open, WritePid, Look, Move, Check, Restore, DropRestored, DropAside, Release,
             Die, Goto, NextTry
    <3> QED
      BY <1>1, <2>1, <3>2 DEF ClaimInv, Started
  <2>3. CASE ~Started
    <3>1. Unclaimed
      BY <2>3 DEF ClaimInv
    <3>2. CASE Open(p)
      BY <1>1, <1>2, <2>1, <3>1, <3>2 DEF LockTypeOK, ClaimInv, Unclaimed, Started, Open, Goto
    <3>3. CASE Look(p)
      <4>1. ReadPid(named) \notin alive
        BY <1>1, <1>2, <3>1 DEF Unclaimed, ReadPid
      <4> QED
        BY <1>1, <1>2, <2>1, <3>1, <3>3, <4>1 DEF LockTypeOK, ClaimInv, Unclaimed, Look, Goto
    <3>4. CASE Move(p)
      BY <1>1, <1>2, <2>1, <3>1, <3>4 DEF LockTypeOK, ClaimInv, Unclaimed, Move, Goto, NextTry, MaxAttempts
    <3>5. CASE Check(p)
      <4>1. ReadPid(aside[p]) \notin alive
        BY <1>1, <1>2, <3>1 DEF Unclaimed, ReadPid
      <4> QED
        BY <1>1, <1>2, <2>1, <3>1, <3>5, <4>1 DEF LockTypeOK, ClaimInv, Unclaimed, Check, Goto
    <3>6. CASE DropAside(p)
      BY <1>1, <1>2, <2>1, <3>1, <3>6 DEF LockTypeOK, ClaimInv, Unclaimed, DropAside, Goto, NextTry, MaxAttempts
    <3>7. CASE Die(p)
      BY <1>1, <2>1, <3>7 DEF LockTypeOK, ClaimInv, Started, Die, Goto
    <3> QED
      BY <1>4, <3>1, <3>2, <3>3, <3>4, <3>5, <3>6, <3>7
         DEF Unclaimed, Acquire, WritePid, Restore, DropRestored, Release
  <2> QED
    BY <2>2, <2>3
<1> QED
  BY <1>3, <1>4 DEF LockNext

(* A stale file never locks everybody out, however many processes contend    *)
(* for it and whether or not a new file is empty for a moment: of any that   *)
(* have all come to their end, one had the lock or died on the way to it.    *)
THEOREM SomebodyGetsLock == LockSpec => []SomebodyWins
<1>1. ClaimInv => SomebodyWins
  BY DEF ClaimInv, Started, Unclaimed, SomebodyWins
<1> QED
  BY <1>1, ClaimInit, ClaimNext, PTL DEF LockSpec

\* A file that has been created has an owner that came past its creation, and
\* holds its owner's pid or nothing.
Created ==
    /\ \A p \in Contender : named = p \/ (\E q \in Contender : aside[q] = p)
                            => at[p] \in {"write", "holds", "released", "dead"}
    /\ \A p \in Contender : content[p] \in {p, Nothing} /\ (at[p] # "dead" => p \in alive)

\* There is one owner; its file has the name, or was moved aside by a process
\* that will look at it again or died before.
OwnerInv ==
    \A p \in Contender : Owner(p) =>
       /\ \A q \in Contender : Owner(q) => q = p
       /\ \/ named = p
          \/ named = Nothing /\ \E q \in Contender : aside[q] = p /\ at[q] \in {"check", "restore", "dead"}

LeaseInv == LockTypeOK /\ Created /\ (breached \/ OwnerInv)

LEMMA LeaseInit == LockInit => LeaseInv
<1> SUFFICES ASSUME LockInit PROVE LeaseInv
  OBVIOUS
<1>1. LockTypeOK
  BY LockTypeInit
<1>2. \A p \in Contender : at[p] = "open" /\ p \in alive /\ p \in Proc /\ p # Gone /\ p # Nothing
  BY VaultLockAssumption DEF LockInit, Proc
<1>3. Created
  BY <1>2 DEF LockInit, Created
<1> QED
  BY <1>1, <1>2, <1>3 DEF LeaseInv, OwnerInv, Owner

LEMMA CreatedNext ==
    ASSUME LockTypeOK, Created, [LockNext]_lockVars
    PROVE  Created'
<1>1. Nothing \notin Contender /\ Gone \notin Contender /\ (\A p \in Contender : p \in Proc)
  BY VaultLockAssumption DEF Proc
<1>2. CASE UNCHANGED lockVars
  BY <1>2 DEF Created, lockVars
<1>3. ASSUME NEW p \in Contender, Acquire(p) \/ Release(p) \/ Die(p) PROVE Created'
  <2>1. \A r \in Contender : at[r] \in {"write", "holds", "released", "dead"}
                             => at'[r] \in {"write", "holds", "released", "dead"}
    BY <1>3 DEF LockTypeOK, Acquire, Open, WritePid, Look, Move, Check, Restore, DropRestored, DropAside, Release,
                Die, Goto, NextTry
  <2>2. \A r \in Contender : content'[r] \in {r, Nothing} /\ (at'[r] # "dead" => r \in alive')
    BY <1>1, <1>3
       DEF LockTypeOK, Created, Acquire, Open, WritePid, Look, Move, Check, Restore, DropRestored, DropAside,
           Release, Die, Goto, NextTry
  <2>3. ASSUME NEW r \in Contender, named' = r \/ (\E q \in Contender : aside'[q] = r)
        PROVE  at'[r] \in {"write", "holds", "released", "dead"}
    <3>1. CASE Open(p)
      BY <1>1, <2>1, <2>3, <3>1 DEF LockTypeOK, Created, Open, Goto
    <3>2. CASE ~Open(p)
      <4>1. named' = r \/ (\E q \in Contender : aside'[q] = r)
            => named = r \/ (\E q \in Contender : aside[q] = r)
        BY <1>1, <1>3, <3>2
           DEF LockTypeOK, Acquire, WritePid, Look, Move, Check, Restore, DropRestored, DropAside, Release, Die,
               NextTry
      <4> QED
        BY <2>1, <2>3, <4>1 DEF Created
    <3> QED
      BY <3>1, <3>2
  <2> QED
    BY <2>2, <2>3 DEF Created
<1> QED
  BY <1>2, <1>3 DEF LockNext

LEMMA OwnerNext ==
    ASSUME LockTypeOK, Created, OwnerInv, NEW p \in Contender, Acquire(p) \/ Release(p) \/ Die(p), ~breached'
    PROVE  OwnerInv'
<1> DEFINE Held(r) == \/ named = r
                      \/ named = Nothing /\ \E q \in Contender : aside[q] = r /\ at[q] \in {"check", "restore", "dead"}
           HeldNext(r) == \/ named' = r
                          \/ named' = Nothing /\ \E q \in Contender : aside'[q] = r /\ at'[q] \in {"check", "restore", "dead"}
<1>1. /\ Nothing \notin Contender /\ (\A r \in Contender : r \in Proc)
      /\ at \in [Contender -> Place] /\ aside \in [Contender -> Proc \cup {Nothing}]
  BY VaultLockAssumption DEF LockTypeOK, Proc
<1>2. \A r \in Contender : Owner(r) => Held(r) /\ \A q \in Contender : Owner(q) => q = r
  BY DEF OwnerInv
<1> SUFFICES ASSUME NEW r \in Contender, Owner(r)'
             PROVE  HeldNext(r) /\ \A q \in Contender : Owner(q)' => q = r
  BY DEF OwnerInv, Owner
<1>3. CASE Open(p)
  <2>1. CASE named = Nothing
    <3>1. ASSUME NEW q \in Contender, Owner(q) PROVE FALSE
      <4>1. q # Nothing /\ q # p
        BY <1>1, <1>3, <3>1 DEF Open, Owner
      <4>2. PICK d \in Contender : aside[d] = q
        BY <1>2, <2>1, <3>1, <4>1
      <4>3. Displaces(p)
        BY <3>1, <4>1, <4>2 DEF Displaces
      <4> QED
        BY <1>3, <2>1, <4>3 DEF Open
    <3>2. \A q \in Contender : Owner(q)' => q = p
      BY <1>1, <1>3, <2>1, <3>1 DEF Open, Goto, Owner
    <3> QED
      BY <1>3, <2>1, <3>2 DEF Open
  <2>2. CASE named # Nothing
    <3>1. \A q \in Contender : Owner(q)' => Owner(q)
      BY <1>1, <1>3, <2>2 DEF Open, Goto, Owner
    <3> QED
      BY <1>2, <1>3, <2>2, <3>1 DEF Open
  <2> QED
    BY <2>1, <2>2
<1>4. ASSUME ~Open(p) PROVE HeldNext(r) /\ \A q \in Contender : Owner(q)' => q = r
  <2>1. \A q \in Contender : Owner(q)' => Owner(q)
    BY <1>1, <1>4
       DEF Acquire, WritePid, Look, Move, Check, Restore, DropRestored, DropAside, Release, Die, Goto, NextTry, Owner
  <2>2. Owner(r) /\ Held(r) /\ r # Nothing
    BY <1>1, <1>2, <2>1
  <2>3. CASE WritePid(p) \/ Look(p)
    BY <1>1, <1>2, <2>1, <2>2, <2>3 DEF WritePid, Look, Goto
  <2>4. CASE Move(p)
    BY <1>1, <1>2, <2>1, <2>2, <2>4 DEF Move, Goto, NextTry
  <2>5. CASE Check(p)
    <3>1. CASE aside[p] = r
      <4>1. content[r] = r /\ r \in alive
        BY <2>2, <2>5, <3>1, <1>1 DEF Check, Created, ReadPid, Owner
      <4>2. at'[p] = "restore"
        BY <1>1, <2>2, <2>5, <3>1, <4>1 DEF Check, ReadPid, Goto
      <4> QED
        BY <1>1, <2>1, <2>2, <2>5, <3>1, <4>2, <1>2 DEF Check, Goto
    <3>2. CASE aside[p] # r
      BY <1>1, <1>2, <2>1, <2>2, <2>5, <3>2 DEF Check, Goto
    <3> QED
      BY <3>1, <3>2
  <2>6. CASE Restore(p)
    <3>1. CASE named = r
      BY <1>2, <2>1, <2>2, <2>6, <3>1 DEF Restore
    <3>2. CASE named # r
      <4>1. named = Nothing
        BY <2>2, <3>2
      <4>2. PICK d \in Contender : aside[d] = r
        BY <2>2, <3>2
      <4>3. aside[p] = r
        BY <2>2, <2>6, <4>1, <4>2 DEF Restore, Displaces
      <4> QED
        BY <1>2, <2>1, <2>2, <2>6, <4>1, <4>3 DEF Restore
    <3> QED
      BY <3>1, <3>2
  <2>7. CASE DropRestored(p) \/ DropAside(p)
    <3>1. \A q \in Contender : at[q] \in {"check", "restore", "dead"} => aside'[q] = aside[q] /\ at'[q] = at[q]
      BY <1>1, <2>7 DEF DropRestored, DropAside, Goto, NextTry
    <3> QED
      BY <1>2, <2>1, <2>2, <2>7, <3>1 DEF DropRestored, DropAside
  <2>8. CASE Release(p)
    <3>1. p = r
      BY <1>2, <2>2, <2>8 DEF Release, Owner
    <3> QED
      BY <1>1, <2>8, <3>1 DEF Release, Goto, Owner
  <2>9. CASE Die(p)
    BY <1>1, <1>2, <2>1, <2>2, <2>9 DEF Die, Goto
  <2> QED
    BY <1>2, <1>4, <2>1, <2>2, <2>3, <2>4, <2>5, <2>6, <2>7, <2>8, <2>9 DEF Acquire
<1> QED
  BY <1>3, <1>4

LEMMA LeaseNext == ASSUME LeaseInv, [LockNext]_lockVars PROVE LeaseInv'
<1>1. LockTypeOK' /\ Created'
  BY LockTypeNext, CreatedNext DEF LeaseInv
<1>2. CASE UNCHANGED lockVars
  BY <1>1, <1>2 DEF LeaseInv, OwnerInv, Owner, lockVars
<1>3. ASSUME NEW p \in Contender, Acquire(p) \/ Release(p) \/ Die(p) PROVE breached' \/ OwnerInv'
  <2>1. breached => breached'
    BY <1>3 DEF Acquire, Open, WritePid, Look, Move, Check, Restore, DropRestored, DropAside, Release, Die
  <2> QED
    BY <1>3, <2>1, OwnerNext DEF LeaseInv
<1> QED
  BY <1>1, <1>2, <1>3 DEF LeaseInv, LockNext

(* Two processes hold the lock only after one of two things: an owner's file *)
(* was read while it was empty and dropped as stale, or another file got the *)
(* name while an owner's was aside.  So for any number of contenders,        *)
(* whether or not there is a stale file, whoever releases or dies.           *)
THEOREM HolderIsAlone == LockSpec => []OneHolderUnlessBreached
<1>1. LeaseInv => OneHolderUnlessBreached
  BY DEF LeaseInv, OwnerInv, Owner, OneHolderUnlessBreached, OneHolder
<1>2. LeaseInv /\ [LockNext]_lockVars => LeaseInv'
  BY LeaseNext
<1> QED
  BY <1>1, <1>2, LeaseInit, PTL DEF LockSpec

-----------------------------------------------------------------------------
(* The watching of files. *)

\* Where the reconciles wait in a queue of local work.
Rescans(q) == {i \in DOMAIN q : q[i] = Reconcile}
Errand == File \cup {Reconcile}

LEMMA RescansFinite ==
    ASSUME NEW q \in Seq(Errand)
    PROVE  IsFiniteSet(Rescans(q)) /\ Cardinality(Rescans(q)) \in Nat
<1>1. IsFiniteSet(1..Len(q)) /\ Rescans(q) \in SUBSET (1..Len(q))
  <2>1. IsFiniteSet(1..Len(q))
    BY FS_Interval
  <2> QED
    BY <2>1 DEF Rescans
<1>2. IsFiniteSet(Rescans(q))
  BY <1>1, FS_Subset
<1> QED
  BY <1>2, FS_CardinalityType

LEMMA RescansAppend ==
    ASSUME NEW q \in Seq(Errand), NEW x \in Errand
    PROVE  /\ Append(q, x) \in Seq(Errand)
           /\ Cardinality(Rescans(Append(q, x))) <= Cardinality(Rescans(q)) + 1
           /\ x # Reconcile => Cardinality(Rescans(Append(q, x))) = Cardinality(Rescans(q))
<1>1. /\ Append(q, x) \in Seq(Errand) /\ Len(q) \in Nat /\ DOMAIN q = 1..Len(q)
      /\ DOMAIN Append(q, x) = 1..(Len(q) + 1)
      /\ \A i \in 1..Len(q) : Append(q, x)[i] = q[i]
      /\ Append(q, x)[Len(q) + 1] = x
  OBVIOUS
<1>2. IsFiniteSet(Rescans(q)) /\ Cardinality(Rescans(q)) \in Nat
  BY RescansFinite
<1>3. CASE x = Reconcile
  <2>1. Rescans(Append(q, x)) = Rescans(q) \cup {Len(q) + 1}
    BY <1>1, <1>3 DEF Rescans
  <2>2. Len(q) + 1 \notin Rescans(q)
    BY <1>1 DEF Rescans
  <2>3. Cardinality(Rescans(q) \cup {Len(q) + 1}) = Cardinality(Rescans(q)) + 1
    BY <1>2, <2>2, FS_AddElement
  <2> QED
    BY <1>1, <1>2, <1>3, <2>1, <2>3
<1>4. CASE x # Reconcile
  <2>1. Rescans(Append(q, x)) = Rescans(q)
    BY <1>1, <1>4 DEF Rescans
  <2> QED
    BY <1>1, <1>2, <2>1
<1> QED
  BY <1>3, <1>4

LEMMA RescansTail ==
    ASSUME NEW q \in Seq(Errand), q # << >>
    PROVE  /\ Tail(q) \in Seq(Errand) /\ Head(q) \in Errand
           /\ Cardinality(Rescans(Tail(q))) <= Cardinality(Rescans(q))
<1>1. /\ Tail(q) \in Seq(Errand) /\ Head(q) \in Errand /\ Len(q) \in Nat \ {0} /\ DOMAIN q = 1..Len(q)
      /\ DOMAIN Tail(q) = 1..(Len(q) - 1)
      /\ \A i \in 1..(Len(q) - 1) : Tail(q)[i] = q[i + 1]
  OBVIOUS
<1> DEFINE f == [i \in Rescans(Tail(q)) |-> i + 1]
<1>2. \A i \in Rescans(Tail(q)) : i \in Nat /\ i + 1 \in Rescans(q)
  BY <1>1 DEF Rescans
<1>3. f \in Injection(Rescans(Tail(q)), Rescans(q))
  BY <1>2 DEF Injection, IsInjective
<1>4. IsFiniteSet(Rescans(q))
  BY RescansFinite
<1>5. Cardinality(Rescans(Tail(q))) <= Cardinality(Rescans(q))
  BY <1>3, <1>4, FS_Injection
<1> QED
  BY <1>1, <1>5

\* What is read, recorded or reported of a file is a change it has had.
Versions ==
    /\ disk \in [File -> 1..MaxEdits] /\ recorded \in [File -> Nat] /\ snapshot \in [File -> Nat]
    /\ \A f \in File : recorded[f] <= disk[f] /\ snapshot[f] <= disk[f]

Errands ==
    /\ work = [kind |-> work.kind, todo |-> work.todo, got |-> work.got]
    /\ work.kind \in {"none", "path", "reconcile"} /\ work.todo \in SUBSET File
    /\ DOMAIN work.got \in SUBSET File
    /\ \A f \in DOMAIN work.got : work.got[f] \in Nat /\ work.got[f] <= disk[f]

\* A reconcile is asked for only when none that was asked for is left; the one
\* of runWatch was not asked for.
Asked1 ==
    /\ queue \in Seq(Errand)
    /\ Cardinality(Rescans(queue)) <= IF asked = TRUE THEN 2 ELSE 1
    /\ command = "new" => queue = << >> /\ asked = FALSE

Flags ==
    /\ events \in SUBSET File /\ pending \in SUBSET File /\ failed \in SUBSET File
    /\ errors \in 0..MaxErrors /\ command \in {"new", "runs", "stopped"}
    /\ ready \in BOOLEAN /\ rescan \in BOOLEAN /\ asked \in BOOLEAN /\ settling \in BOOLEAN /\ timer \in BOOLEAN
    /\ command = "new" => ready = FALSE /\ pending = {} /\ events = {} /\ rescan = FALSE

Hooks ==
    /\ hook = [state |-> hook.state, alive |-> hook.alive] /\ hook.state \in {"idle", "running"}
    /\ hook.alive = IF hook.state = "running" THEN 1 ELSE 0

WatchInv == Versions /\ Errands /\ Asked1 /\ Flags /\ Hooks

LEMMA WatchInvInit == WatchInit => WatchInv
<1> SUFFICES ASSUME WatchInit PROVE WatchInv
  OBVIOUS
<1>1. MaxEdits \in Nat \ {0} /\ MaxErrors \in Nat
  BY VaultWatchAssumption
<1>2. Versions
  <2>1. disk = [f \in File |-> 1] /\ recorded \in [File -> {0, 1}] /\ snapshot = [f \in File |-> 1]
    BY DEF WatchInit
  <2> QED
    BY <1>1, <2>1 DEF Versions
<1>3. Errands
  <2>1. work = NoWork /\ DOMAIN << >> = {}
    BY DEF WatchInit
  <2> QED
    BY <2>1 DEF Errands, NoWork
<1>4. Asked1
  <2>1. queue = << >> /\ asked = FALSE
    BY DEF WatchInit
  <2>2. Rescans(<< >>) = {} /\ << >> \in Seq(Errand)
    BY DEF Rescans
  <2> QED
    BY <2>1, <2>2, FS_EmptySet DEF Asked1
<1>5. Flags
  <2>1. /\ ready \in BOOLEAN /\ rescan \in BOOLEAN /\ asked \in BOOLEAN /\ settling \in BOOLEAN
        /\ timer \in BOOLEAN /\ ready = FALSE /\ pending = {} /\ events = {} /\ rescan = FALSE
    BY Zenon DEF WatchInit
  <2>2. /\ events \in SUBSET File /\ pending \in SUBSET File /\ failed \in SUBSET File
        /\ errors \in 0..MaxErrors /\ command \in {"new", "runs", "stopped"}
    BY <1>1 DEF WatchInit
  <2> QED
    BY <2>1, <2>2 DEF Flags
<1>6. Hooks
  BY DEF WatchInit, Hooks
<1> QED
  BY <1>2, <1>3, <1>4, <1>5, <1>6 DEF WatchInv

LEMMA HooksNext == ASSUME WatchInv, [WatchNext]_watchVars PROVE Hooks'
<1>1. Hooks
  BY DEF WatchInv
<1>2. hook' = hook \/ Detect \/ HookEnds \/ HookTimesOut
  BY DEF WatchNext, RunWatch, Edit, PullWrites, WatcherReady, EventArrives, DebounceEnds, WatcherError,
     RescanTimer, LocalSteps, WorkStarts, PathEnds, ReconcileReads, ReconcileEnds, StatusSettles,
     NotifierSteps, NotifierTimer, Flush, Shutdown, watchVars, notifierVars, localVars, sourceVars
<1>3. CASE hook' = hook
  BY <1>1, <1>3 DEF Hooks
<1>4. CASE Detect
  BY <1>1, <1>4 DEF Hooks, Detect
<1>5. CASE HookEnds \/ HookTimesOut
  BY <1>1, <1>5 DEF Hooks, HookEnds, HookTimesOut
<1> QED
  BY <1>2, <1>3, <1>4, <1>5

\* Of a file that changes, everybody has seen one change less.
LEMMA VersionsGrow ==
    ASSUME Versions, NEW f \in File, disk[f] < MaxEdits
    PROVE  /\ [disk EXCEPT ![f] = @ + 1] \in [File -> 1..MaxEdits]
           /\ \A g \in File : disk[g] \in Nat /\ disk[g] <= [disk EXCEPT ![f] = @ + 1][g]
           /\ [disk EXCEPT ![f] = @ + 1][f] = disk[f] + 1
<1>1. MaxEdits \in Nat
  BY VaultWatchAssumption
<1> QED
  BY <1>1 DEF Versions

LEMMA VersionsNext ==
    ASSUME WatchInv, [WatchNext]_watchVars
    PROVE  Versions' /\ \A f \in File : disk[f] \in Nat /\ disk[f] <= disk'[f]
<1>1. Versions /\ Errands
  BY DEF WatchInv
<1>2. \A f \in File : disk[f] \in Nat /\ disk[f] <= disk[f]
  BY <1>1, VaultWatchAssumption DEF Versions
<1>3. \/ UNCHANGED <<disk, recorded, snapshot>>
      \/ Edit \/ PullWrites
      \/ disk' = disk /\ RecordRead /\ snapshot' = snapshot
      \/ disk' = disk /\ recorded' = recorded /\ snapshot' = disk
  BY DEF WatchNext, RunWatch, WatcherReady, EventArrives, DebounceEnds, WatcherError, RescanTimer, LocalSteps,
     WorkStarts, PathEnds, ReconcileReads, ReconcileEnds, ForgetRead, StatusSettles, NotifierSteps, NotifierTimer,
     Flush, Shutdown, Detect, HookEnds, HookTimesOut, watchVars, notifierVars, localVars, sourceVars, recordVars
<1>4. CASE UNCHANGED <<disk, recorded, snapshot>>
  BY <1>1, <1>2, <1>4 DEF Versions
<1>5. CASE Edit
  <2>1. PICK f \in File : disk[f] < MaxEdits /\ disk' = [disk EXCEPT ![f] = @ + 1]
    BY <1>5 DEF Edit
  <2>2. recorded' = recorded /\ snapshot' = snapshot
    BY <1>5 DEF Edit, recordVars, notifierVars
  <2>3. disk' \in [File -> 1..MaxEdits] /\ \A g \in File : disk[g] \in Nat /\ disk'[g] \in Nat /\ disk[g] <= disk'[g]
    BY <1>1, <2>1, VersionsGrow
  <2> QED
    BY <1>1, <2>2, <2>3 DEF Versions
<1>6. CASE PullWrites
  <2>1. PICK f \in File : /\ disk[f] < MaxEdits /\ recorded[f] = disk[f]
                          /\ disk' = [disk EXCEPT ![f] = @ + 1] /\ recorded' = [recorded EXCEPT ![f] = disk[f] + 1]
    BY <1>6 DEF PullWrites
  <2>2. snapshot' = snapshot
    BY <1>6 DEF PullWrites, notifierVars
  <2>3. /\ disk' \in [File -> 1..MaxEdits] /\ disk'[f] = disk[f] + 1
        /\ \A g \in File : disk[g] \in Nat /\ disk'[g] \in Nat /\ disk[g] <= disk'[g]
    BY <1>1, <2>1, VersionsGrow
  <2>4. /\ recorded' \in [File -> Nat] /\ recorded'[f] = disk'[f]
        /\ \A g \in File : g # f => recorded'[g] = recorded[g]
    BY <1>1, <2>1, <2>3 DEF Versions
  <2> QED
    BY <1>1, <2>2, <2>3, <2>4 DEF Versions
<1>7. CASE disk' = disk /\ RecordRead /\ snapshot' = snapshot
  <2>1. recorded' = [f \in File |-> IF f \in DOMAIN work.got THEN work.got[f] ELSE recorded[f]]
    BY <1>7 DEF RecordRead
  <2>2. \A f \in DOMAIN work.got : work.got[f] \in Nat /\ work.got[f] <= disk[f]
    BY <1>1 DEF Errands
  <2> QED
    BY <1>1, <1>2, <1>7, <2>1, <2>2 DEF Versions
<1>8. CASE disk' = disk /\ recorded' = recorded /\ snapshot' = disk
  BY <1>1, <1>2, <1>8 DEF Versions
<1> QED
  BY <1>3, <1>4, <1>5, <1>6, <1>7, <1>8

LEMMA ErrandsNext == ASSUME WatchInv, [WatchNext]_watchVars PROVE Errands'
<1>1. Errands /\ Versions /\ queue \in Seq(Errand)
  BY DEF WatchInv, Asked1
<1>2. \A f \in File : disk[f] \in Nat /\ disk[f] <= disk'[f] /\ disk'[f] \in Nat
  BY VersionsNext, VaultWatchAssumption DEF Versions
<1>3. work' = work \/ work' = NoWork \/ WorkStarts \/ ReconcileReads
  BY DEF WatchNext, RunWatch, Edit, PullWrites, WatcherReady, EventArrives, DebounceEnds, WatcherError, RescanTimer,
     LocalSteps, PathEnds, ReconcileEnds, RecordRead, ForgetRead, StatusSettles, NotifierSteps, NotifierTimer,
     Flush, Shutdown, Detect, HookEnds, HookTimesOut, watchVars, localVars
<1>4. CASE work' = work
  <2>1. \A f \in DOMAIN work.got : f \in File /\ work.got[f] \in Nat /\ work.got[f] <= disk[f]
    BY <1>1 DEF Errands
  <2>2. \A f \in DOMAIN work.got : work.got[f] <= disk'[f]
    BY <1>2, <2>1
  <2> QED
    BY <1>1, <1>4, <2>1, <2>2 DEF Errands
<1>5. CASE work' = NoWork
  <2>1. DOMAIN << >> = {}
    OBVIOUS
  <2> QED
    BY <1>5, <2>1 DEF Errands, NoWork
<1>6. CASE WorkStarts
  <2>1. Head(queue) \in Errand /\ disk' = disk
    <3>1. queue # << >>
      BY <1>6 DEF WorkStarts
    <3> QED
      BY <1>1, <1>6, <3>1, RescansTail DEF WorkStarts
  <2>2. CASE Head(queue) = Reconcile
    <3>1. work' = [kind |-> "reconcile", todo |-> {f \in File : disk[f] # recorded[f]}, got |-> << >>]
      BY <1>6, <2>2 DEF WorkStarts, NoWork
    <3>2. DOMAIN << >> = {}
      OBVIOUS
    <3> QED
      BY <3>1, <3>2 DEF Errands
  <2>3. CASE Head(queue) # Reconcile
    <3>1. work' = [kind |-> "path", todo |-> {}, got |-> [f \in {Head(queue)} |-> disk[f]]]
      BY <1>6, <2>3 DEF WorkStarts, NoWork
    <3>2. Head(queue) \in File
      BY <2>1, <2>3 DEF Errand
    <3> QED
      BY <1>2, <2>1, <3>1, <3>2 DEF Errands
  <2> QED
    BY <2>2, <2>3
<1>7. CASE ReconcileReads
  <2>1. PICK f \in work.todo : work' =
          [work EXCEPT !.todo = @ \ {f}, !.got = [g \in DOMAIN @ \cup {f} |-> IF g = f THEN disk[f] ELSE @[g]]]
    BY <1>7 DEF ReconcileReads
  <2>2. disk' = disk /\ work.kind = "reconcile"
    BY <1>7 DEF ReconcileReads
  <2> DEFINE got == [g \in DOMAIN work.got \cup {f} |-> IF g = f THEN disk[f] ELSE work.got[g]]
             todo == work.todo \ {f}
  <2>3. work' = [kind |-> work.kind, todo |-> todo, got |-> got]
    <3>1. work = [kind |-> work.kind, todo |-> work.todo, got |-> work.got]
      BY <1>1 DEF Errands
    <3>2. work' = [work EXCEPT !.todo = todo, !.got = got]
      BY <2>1
    <3> HIDE DEF todo, got
    <3> QED
      BY <3>1, <3>2
  <2>4. f \in File /\ DOMAIN got \in SUBSET File /\ todo \in SUBSET File
    BY <1>1 DEF Errands
  <2>5. \A g \in DOMAIN got : got[g] \in Nat /\ got[g] <= disk[g]
    BY <1>1, <1>2, <2>4 DEF Errands
  <2> HIDE DEF got, todo
  <2>6. work'.kind = work.kind /\ work'.todo = todo /\ work'.got = got
    BY <2>3
  <2> QED
    BY <1>1, <2>2, <2>3, <2>4, <2>5, <2>6 DEF Errands
<1> QED
  BY <1>3, <1>4, <1>5, <1>6, <1>7

LEMMA Asked1Next == ASSUME WatchInv, [WatchNext]_watchVars PROVE Asked1'
<1>1. /\ queue \in Seq(Errand) /\ asked \in BOOLEAN /\ pending \in SUBSET File
      /\ Cardinality(Rescans(queue)) <= IF asked = TRUE THEN 2 ELSE 1
      /\ command = "new" => /\ queue = << >> /\ asked = FALSE /\ ready = FALSE
                            /\ pending = {} /\ events = {} /\ rescan = FALSE
  BY DEF WatchInv, Asked1, Flags
<1>2. Cardinality(Rescans(queue)) \in Nat
  BY <1>1, RescansFinite
<1>3. \/ queue' = queue /\ asked' = asked /\ command' = command
      \/ queue' = queue /\ asked' = asked /\ command' # "new"
      \/ RunWatch \/ DebounceEnds \/ RescanTimer \/ WorkStarts \/ ReconcileEnds
  BY DEF WatchNext, Edit, PullWrites, WatcherReady, EventArrives, WatcherError,
     LocalSteps, PathEnds, ReconcileReads, StatusSettles, NotifierSteps, NotifierTimer,
     Flush, Shutdown, Detect, HookEnds, HookTimesOut, watchVars, localVars, sourceVars, notifierVars
<1>4. CASE queue' = queue /\ asked' = asked /\ (command' = command \/ command' # "new")
  BY <1>1, <1>4 DEF Asked1
<1>5. CASE RunWatch
  <2>1. queue' = <<Reconcile>> /\ asked' = FALSE /\ command' = "runs"
    BY <1>1, <1>5 DEF RunWatch, sourceVars
  <2>2. <<Reconcile>> = Append(<< >>, Reconcile) /\ << >> \in Seq(Errand) /\ Rescans(<< >>) = {}
        /\ Reconcile \in Errand
    BY DEF Rescans, Errand
  <2>3. <<Reconcile>> \in Seq(Errand) /\ Cardinality(Rescans(<<Reconcile>>)) <= 0 + 1
    BY <2>2, RescansAppend, FS_EmptySet
  <2> QED
    BY <2>1, <2>3 DEF Asked1
<1>6. CASE DebounceEnds
  <2>1. PICK f \in pending : queue' = Append(queue, f) /\ asked' = asked /\ command' = command
    BY <1>6 DEF DebounceEnds, notifierVars
  <2>2. f \in Errand /\ f # Reconcile /\ command # "new"
    BY <1>1, VaultWatchAssumption DEF Errand, Reconcile
  <2>3. queue' \in Seq(Errand) /\ Cardinality(Rescans(queue')) = Cardinality(Rescans(queue))
    BY <1>1, <2>1, <2>2, RescansAppend
  <2> QED
    BY <1>1, <2>1, <2>2, <2>3 DEF Asked1
<1>7. CASE RescanTimer
  <2>1. /\ asked' = TRUE /\ queue' = IF asked = TRUE THEN queue ELSE Append(queue, Reconcile)
        /\ command' = command /\ command # "new" /\ Reconcile \in Errand
    BY <1>1, <1>7 DEF RescanTimer, notifierVars, Errand
  <2>2. CASE asked = TRUE
    BY <1>1, <2>1, <2>2 DEF Asked1
  <2>3. CASE asked = FALSE
    <3>1. queue' = Append(queue, Reconcile)
      BY <2>1, <2>3
    <3>2. queue' \in Seq(Errand) /\ Cardinality(Rescans(queue')) <= Cardinality(Rescans(queue)) + 1
      BY <1>1, <2>1, <3>1, RescansAppend
    <3>3. Cardinality(Rescans(queue')) \in Nat
      BY <3>2, RescansFinite
    <3> QED
      BY <1>1, <1>2, <2>1, <2>3, <3>2, <3>3 DEF Asked1
  <2> QED
    BY <1>1, <2>2, <2>3
<1>8. CASE WorkStarts
  <2>1. queue # << >> /\ queue' = Tail(queue) /\ asked' = asked /\ command' = command
    BY <1>8 DEF WorkStarts, notifierVars, sourceVars
  <2>2. queue' \in Seq(Errand) /\ Cardinality(Rescans(queue')) <= Cardinality(Rescans(queue))
    BY <1>1, <2>1, RescansTail
  <2>3. Cardinality(Rescans(queue')) \in Nat
    BY <2>2, RescansFinite
  <2> QED
    BY <1>1, <1>2, <2>1, <2>2, <2>3 DEF Asked1
<1>9. CASE ReconcileEnds
  <2>1. queue' = queue /\ asked' = (asked /\ ~NoneWaits) /\ command' = command
    BY <1>9 DEF ReconcileEnds, notifierVars
  <2>2. CASE NoneWaits
    <3>1. Rescans(queue) = {} /\ asked' = FALSE
      BY <2>1, <2>2 DEF NoneWaits, Rescans
    <3>2. Cardinality(Rescans(queue')) = 0
      BY <2>1, <3>1, FS_EmptySet
    <3> QED
      BY <1>1, <2>1, <3>1, <3>2 DEF Asked1
  <2>3. CASE ~NoneWaits
    <3>1. asked' = asked
      BY <1>1, <2>1, <2>3
    <3> QED
      BY <1>1, <2>1, <3>1 DEF Asked1
  <2> QED
    BY <2>2, <2>3
<1> QED
  BY <1>3, <1>4, <1>5, <1>6, <1>7, <1>8, <1>9

LEMMA FlagsNext == ASSUME WatchInv, [WatchNext]_watchVars PROVE Flags'
<1> USE DEF WatchNext, RunWatch, Edit, PullWrites, WatcherReady, EventArrives, DebounceEnds, WatcherError,
     RescanTimer, LocalSteps, WorkStarts, PathEnds, ReconcileReads, ReconcileEnds, RecordRead, ForgetRead,
     StatusSettles, NotifierSteps, NotifierTimer, Flush, Shutdown, Detect, HookEnds, HookTimesOut, watchVars,
     notifierVars, localVars, sourceVars, recordVars
<1>1. ready' \in BOOLEAN /\ rescan' \in BOOLEAN /\ asked' \in BOOLEAN /\ settling' \in BOOLEAN /\ timer' \in BOOLEAN
  <2>1. ready \in BOOLEAN /\ rescan \in BOOLEAN /\ asked \in BOOLEAN /\ settling \in BOOLEAN /\ timer \in BOOLEAN
    BY Zenon DEF WatchInv, Flags
  <2>2. ready' = ready \/ ready' = TRUE
    OBVIOUS
  <2>3. rescan' = rescan \/ rescan' = TRUE \/ rescan' = FALSE
    OBVIOUS
  <2>4. asked' = asked \/ asked' = TRUE \/ asked' = (asked /\ ~NoneWaits)
    OBVIOUS
  <2>5. settling' = settling \/ settling' = TRUE \/ settling' = FALSE \/ settling' = (settling \/ recorded' # recorded)
    OBVIOUS
  <2>6. timer' = timer \/ timer' = FALSE \/ timer' = (timer \/ Runs)
    OBVIOUS
  <2> HIDE DEF WatchNext, watchVars
  <2> QED
    BY Zenon, <2>1, <2>2, <2>3, <2>4, <2>5, <2>6
<1>2. /\ events \in SUBSET File /\ pending \in SUBSET File /\ failed \in SUBSET File
      /\ errors \in 0..MaxErrors /\ command \in {"new", "runs", "stopped"} /\ MaxErrors \in Nat
      /\ work.todo \in SUBSET File /\ DOMAIN work.got \in SUBSET File
      /\ command = "new" => ready = FALSE /\ pending = {} /\ events = {} /\ rescan = FALSE
  BY VaultWatchAssumption DEF WatchInv, Flags, Errands
<1>3. events' \in SUBSET File /\ pending' \in SUBSET File
  BY <1>2
<1>4. failed' \in SUBSET File
  BY <1>2
<1>5. errors' \in 0..MaxErrors /\ command' \in {"new", "runs", "stopped"}
  <2>1. errors' = errors \/ (errors < MaxErrors /\ errors' = errors + 1)
    BY DEF Fails
  <2>2. command' = command \/ command' = "runs" \/ command' = "stopped"
    OBVIOUS
  <2> HIDE DEF WatchNext, watchVars
  <2> QED
    BY <1>2, <2>1, <2>2
<1>6. command' = "new" => ready' = FALSE /\ pending' = {} /\ events' = {} /\ rescan' = FALSE
  BY <1>2 DEF Runs
<1> HIDE DEF WatchNext
<1> QED
  BY <1>1, <1>3, <1>4, <1>5, <1>6 DEF Flags

LEMMA WatchInvNext == ASSUME WatchInv, [WatchNext]_watchVars PROVE WatchInv'
  BY VersionsNext, ErrandsNext, Asked1Next, FlagsNext, HooksNext DEF WatchInv

LEMMA WatchInvariance == WatchInit /\ [][WatchNext]_watchVars => []WatchInv
  BY WatchInvInit, WatchInvNext, PTL

LEMMA WatchTypeHolds == WatchInv => WatchTypeOK
<1> SUFFICES ASSUME WatchInv PROVE WatchTypeOK
  OBVIOUS
<1>1. /\ disk \in [File -> 1..MaxEdits] /\ (\A f \in File : recorded[f] <= disk[f] /\ snapshot[f] <= disk[f])
      /\ events \subseteq File /\ pending \subseteq File /\ failed \subseteq File
      /\ work.kind \in {"none", "path", "reconcile"} /\ errors \in 0..MaxErrors
      /\ command \in {"new", "runs", "stopped"}
  BY DEF WatchInv, Versions, Errands, Flags
<1>2. \A v \in {ready, rescan, asked, settling, timer} : v \in BOOLEAN
  BY Zenon DEF WatchInv, Flags
<1>3. Cardinality({i \in DOMAIN queue : queue[i] = Reconcile}) <= 2
  <2>1. queue \in Seq(Errand) /\ Cardinality(Rescans(queue)) <= IF asked = TRUE THEN 2 ELSE 1
    BY DEF WatchInv, Asked1
  <2>2. Cardinality(Rescans(queue)) \in Nat
    BY <2>1, RescansFinite
  <2>3. Cardinality(Rescans(queue)) <= 2
    BY <2>1, <2>2
  <2> QED
    BY <2>3 DEF Rescans
<1> QED
  BY <1>1, <1>2, <1>3 DEF WatchTypeOK

(* The recorder and the hook are never ahead of the vault, and no more than  *)
(* one reconcile waits beside the first one, however often the watcher fails *)
(* (requestReconcile of the watch command).                                  *)
THEOREM WatchTypeCorrect == WatchSpec => []WatchTypeOK
  BY WatchTypeHolds, WatchInvariance, PTL DEF WatchSpec

(* Hooks are serialised: the one that is waited for is the only one alive,   *)
(* through time limits and a shutdown (OnChangeHook, VaultChangeNotifier).   *)
THEOREM HooksAreSerial == WatchSpec => []OneHook
<1>1. WatchInv => OneHook
  BY DEF WatchInv, Hooks, OneHook
<1> QED
  BY <1>1, WatchInvariance, PTL DEF WatchSpec

-----------------------------------------------------------------------------
(* The rows of the store. *)

Hashes == Hash \cup {None}
Names == Path \cup {None}
RemoteSide == [known : BOOLEAN, path : Names, rev : Nat, hash : Hashes, deleted : BOOLEAN]
BaseSide == [path : Names, rev : Nat, hash : Hashes, deleted : BOOLEAN]
LocalSide == [known : BOOLEAN, path : Names, hash : Hashes, deleted : BOOLEAN]
Row == [remote : RemoteSide, base : BaseSide, local : LocalSide, dirty : BOOLEAN,
        pending : Mutation \cup {None}, remoteKey : Names, localKey : Names]

NoRemote == [known |-> FALSE, path |-> None, rev |-> 0, hash |-> None, deleted |-> TRUE]

\* A mutation among those made before number n, encrypted for the revision it makes.
GoodPending(r, n) ==
    /\ r.pending \in Mutation \cup {None} /\ (r.dirty = TRUE <=> r.pending # None)
    /\ r.pending # None =>
          r.pending.id < n /\ r.pending.rev = r.base.rev /\ r.pending.forRev = r.pending.rev + 1

GoodRow(r, n) ==
    /\ r \in Row /\ GoodPending(r, n)
    /\ IF r.remote.known = TRUE THEN r.remote.path \in Path ELSE r.remote = NoRemote
    /\ r.local.known = TRUE => r.local.path \in Path

Keyed(r) == r.remoteKey = Key(r.remote) /\ r.localKey = Key(r.local)

LEMMA EmptyRow ==
    ASSUME NEW n \in Nat, NEW e
    PROVE  GoodRow(RowOf(<< >>, e), n) /\ Shown(RowOf(<< >>, e)) = Port!NewState
<1>1. e \notin DOMAIN << >>
  OBVIOUS
<1>2. RowOf(<< >>, e) \in Row
  BY <1>1 DEF RowOf, Row, RemoteSide, BaseSide, LocalSide, Hashes, Names
<1> QED
  BY <1>1, <1>2 DEF RowOf, GoodRow, GoodPending, NoRemote, Shown, Pending, Port!NewState

LEMMA NormalizedRow ==
    ASSUME NEW n \in Nat, NEW r, GoodRow(r, n)
    PROVE  /\ GoodRow(Normalized(r), n) /\ Keyed(Normalized(r))
           /\ Shown(Normalized(r)) = Shown(r) /\ Normalized(r).pending = r.pending
<1> DEFINE rk == Key(r.remote)
           lk == Key(r.local)
           q == Normalized(r)
<1>1. r \in Row /\ rk \in Names /\ lk \in Names
  BY DEF GoodRow, Key, Row, RemoteSide, LocalSide, Names
<1>2. q = [r EXCEPT !.remoteKey = rk, !.localKey = lk]
  BY DEF Normalized
<1> HIDE DEF rk, lk, q
<1>3. /\ q \in Row /\ q.remote = r.remote /\ q.base = r.base /\ q.local = r.local
      /\ q.dirty = r.dirty /\ q.pending = r.pending /\ q.remoteKey = rk /\ q.localKey = lk
  BY <1>1, <1>2 DEF Row
<1>4. GoodRow(q, n)
  BY <1>3 DEF GoodRow, GoodPending
<1>5. Keyed(q)
  BY <1>3 DEF Keyed, rk, lk
<1>6. Shown(q) = Shown(r)
  BY <1>3 DEF Shown, Pending
<1> QED
  BY <1>3, <1>4, <1>5, <1>6 DEF q

\* The parts of a row, and what is shown of it.
LEMMA RowParts ==
    ASSUME NEW n \in Nat, NEW r, GoodRow(r, n)
    PROVE  /\ r.remote \in RemoteSide /\ r.base \in BaseSide /\ r.local \in LocalSide
           /\ r.pending \in Mutation \cup {None} /\ r.dirty \in BOOLEAN
           /\ Pending(r) = r.pending
           /\ Shown(r) = [remote |-> Shown(r).remote, base |-> r.base, local |-> Shown(r).local,
                          dirty |-> r.pending]
<1>1. /\ r.remote \in RemoteSide /\ r.base \in BaseSide /\ r.local \in LocalSide
      /\ r.pending \in Mutation \cup {None} /\ r.dirty \in BOOLEAN
  BY DEF GoodRow, Row
<1>2. Pending(r) = r.pending
  BY <1>1 DEF Pending, GoodRow, GoodPending
<1> QED
  BY <1>1, <1>2 DEF Shown

LEMMA RemoteSet ==
    ASSUME NEW n \in Nat, NEW r, GoodRow(r, n), NEW s \in RemoteState, NEW q,
           q = [r EXCEPT !.remote = Known(s)]
    PROVE  /\ GoodRow(q, n) /\ Shown(q) = [Shown(r) EXCEPT !.remote = s]
           /\ q.remote = Known(s) /\ q.base = r.base /\ q.local = r.local
           /\ q.pending = r.pending /\ q.dirty = r.dirty
<1> DEFINE k == Known(s)
<1>1. k \in RemoteSide /\ k.known = TRUE /\ k.path \in Path
      /\ [path |-> k.path, rev |-> k.rev, hash |-> k.hash, deleted |-> k.deleted] = s
  BY DEF Known, RemoteSide, RemoteState, Names, Hashes
<1>2. q = [r EXCEPT !.remote = k] /\ r \in Row
  BY DEF GoodRow
<1> HIDE DEF k
<1>3. /\ q \in Row /\ q.remote = k /\ q.base = r.base /\ q.local = r.local /\ q.pending = r.pending
      /\ q.dirty = r.dirty
  BY <1>1, <1>2 DEF Row
<1>4. GoodRow(q, n)
  BY <1>1, <1>3 DEF GoodRow, GoodPending
<1>5. Shown(q) = [Shown(r) EXCEPT !.remote = s]
  BY <1>1, <1>3 DEF Shown, Pending
<1> QED
  BY <1>3, <1>4, <1>5 DEF k

LEMMA RemoteForgotten ==
    ASSUME NEW n \in Nat, NEW r, GoodRow(r, n), NEW q, q = [r EXCEPT !.remote = RowOf(<< >>, 0).remote]
    PROVE  GoodRow(q, n) /\ Shown(q) = [Shown(r) EXCEPT !.remote = None]
<1> DEFINE k == RowOf(<< >>, 0).remote
<1>1. k \in RemoteSide /\ k = NoRemote /\ k.known = FALSE
  BY DEF RowOf, NoRemote, RemoteSide, Names, Hashes
<1>2. q = [r EXCEPT !.remote = k] /\ r \in Row
  BY DEF GoodRow
<1> HIDE DEF k
<1>3. /\ q \in Row /\ q.remote = k /\ q.base = r.base /\ q.local = r.local /\ q.pending = r.pending
      /\ q.dirty = r.dirty
  BY <1>1, <1>2 DEF Row
<1>4. GoodRow(q, n)
  BY <1>1, <1>3 DEF GoodRow, GoodPending
<1>5. Shown(q) = [Shown(r) EXCEPT !.remote = None]
  BY <1>1, <1>3 DEF Shown, Pending
<1> QED
  BY <1>4, <1>5

LEMMA LocalSet ==
    ASSUME NEW n \in Nat, NEW r, GoodRow(r, n), NEW s \in LocalState, NEW q,
           q = [r EXCEPT !.local = KnownLocal(s)]
    PROVE  /\ GoodRow(q, n) /\ Shown(q) = [Shown(r) EXCEPT !.local = s]
           /\ q.remote = r.remote /\ q.base = r.base /\ q.pending = r.pending /\ q.dirty = r.dirty
<1> DEFINE k == KnownLocal(s)
<1>1. k \in LocalSide /\ k.known = TRUE /\ k.path \in Path
      /\ [path |-> k.path, hash |-> k.hash, deleted |-> k.deleted] = s
  BY DEF KnownLocal, LocalSide, LocalState, Names, Hashes
<1>2. q = [r EXCEPT !.local = k] /\ r \in Row
  BY DEF GoodRow
<1> HIDE DEF k
<1>3. /\ q \in Row /\ q.remote = r.remote /\ q.base = r.base /\ q.local = k /\ q.pending = r.pending
      /\ q.dirty = r.dirty
  BY <1>1, <1>2 DEF Row
<1>4. GoodRow(q, n)
  BY <1>1, <1>3 DEF GoodRow, GoodPending
<1>5. Shown(q) = [Shown(r) EXCEPT !.local = s]
  BY <1>1, <1>3 DEF Shown, Pending
<1> QED
  BY <1>3, <1>4, <1>5

LEMMA LocalForgotten ==
    ASSUME NEW n \in Nat, NEW r, GoodRow(r, n), NEW q, q = [r EXCEPT !.local = RowOf(<< >>, 0).local]
    PROVE  GoodRow(q, n) /\ Shown(q) = [Shown(r) EXCEPT !.local = None]
<1> DEFINE k == RowOf(<< >>, 0).local
<1>1. k \in LocalSide /\ k.known = FALSE
  BY DEF RowOf, LocalSide, Names, Hashes
<1>2. q = [r EXCEPT !.local = k] /\ r \in Row
  BY DEF GoodRow
<1> HIDE DEF k
<1>3. /\ q \in Row /\ q.remote = r.remote /\ q.base = r.base /\ q.local = k /\ q.pending = r.pending
      /\ q.dirty = r.dirty
  BY <1>1, <1>2 DEF Row
<1>4. GoodRow(q, n)
  BY <1>1, <1>3 DEF GoodRow, GoodPending
<1>5. Shown(q) = [Shown(r) EXCEPT !.local = None]
  BY <1>1, <1>3 DEF Shown, Pending
<1> QED
  BY <1>4, <1>5

\* What is known of the remote becomes the base, while nothing is pending.
LEMMA BaseCopied ==
    ASSUME NEW n \in Nat, NEW r, GoodRow(r, n), r.pending = None, NEW q, q = CopyRemoteToBase(r)
    PROVE  /\ GoodRow(q, n)
           /\ Shown(q) = [Shown(r) EXCEPT !.base = [path |-> r.remote.path, rev |-> r.remote.rev,
                                                    hash |-> r.remote.hash, deleted |-> r.remote.deleted]]
<1> DEFINE b == [path |-> r.remote.path, rev |-> r.remote.rev,
                 hash |-> r.remote.hash, deleted |-> r.remote.deleted]
<1>1. r \in Row /\ r.remote \in RemoteSide
  BY DEF GoodRow, Row
<1>2. b \in BaseSide
  BY <1>1 DEF BaseSide, RemoteSide
<1>3. q = [r EXCEPT !.base = b]
  BY DEF CopyRemoteToBase
<1> HIDE DEF b
<1>4. /\ q \in Row /\ q.remote = r.remote /\ q.base = b /\ q.local = r.local /\ q.pending = r.pending
      /\ q.dirty = r.dirty
  BY <1>1, <1>2, <1>3 DEF Row
<1>5. GoodRow(q, n)
  BY <1>4 DEF GoodRow, GoodPending
<1>6. Shown(q) = [Shown(r) EXCEPT !.base = b]
  BY <1>4 DEF Shown, Pending
<1> QED
  BY <1>5, <1>6 DEF b

LEMMA PendingCleared ==
    ASSUME NEW n \in Nat, NEW r, GoodRow(r, n), NEW q, q = ClearPending(r)
    PROVE  /\ GoodRow(q, n) /\ Shown(q) = [Shown(r) EXCEPT !.dirty = None]
           /\ q.remote = r.remote /\ q.local = r.local /\ q.base = r.base /\ q.pending = None
<1>1. r \in Row /\ q = [r EXCEPT !.dirty = FALSE, !.pending = None]
  BY DEF GoodRow, ClearPending
<1>2. /\ q \in Row /\ q.remote = r.remote /\ q.base = r.base /\ q.local = r.local /\ q.pending = None
      /\ q.dirty = FALSE
  BY <1>1 DEF Row
<1>3. GoodRow(q, n)
  BY <1>2 DEF GoodRow, GoodPending
<1>4. Shown(q) = [Shown(r) EXCEPT !.dirty = None]
  BY <1>2 DEF Shown, Pending
<1> QED
  BY <1>2, <1>3, <1>4

LEMMA StateExcept ==
    ASSUME NEW s, s = [remote |-> s.remote, base |-> s.base, local |-> s.local, dirty |-> s.dirty],
           NEW x, NEW y
    PROVE  /\ [s EXCEPT !.dirty = x, !.base = y]
                = [remote |-> s.remote, base |-> y, local |-> s.local, dirty |-> x]
           /\ [s EXCEPT !.remote = x, !.base = y]
                = [remote |-> x, base |-> y, local |-> s.local, dirty |-> s.dirty]
           /\ [s EXCEPT !.remote = x] = [remote |-> x, base |-> s.base, local |-> s.local, dirty |-> s.dirty]
           /\ [s EXCEPT !.base = x] = [remote |-> s.remote, base |-> x, local |-> s.local, dirty |-> s.dirty]
           /\ [s EXCEPT !.local = x] = [remote |-> s.remote, base |-> s.base, local |-> x, dirty |-> s.dirty]
           /\ [s EXCEPT !.dirty = x] = [remote |-> s.remote, base |-> s.base, local |-> s.local, dirty |-> x]
<1> DEFINE c == [s EXCEPT !.dirty = x]
           d == [s EXCEPT !.remote = x]
<1>1. c = [remote |-> s.remote, base |-> s.base, local |-> s.local, dirty |-> x]
  OBVIOUS
<1>2. d = [remote |-> x, base |-> s.base, local |-> s.local, dirty |-> s.dirty]
  OBVIOUS
<1>3. [c EXCEPT !.base = y] = [remote |-> s.remote, base |-> y, local |-> s.local, dirty |-> x]
  <2> HIDE DEF c
  <2> QED
    BY <1>1
<1>4. [d EXCEPT !.base = y] = [remote |-> x, base |-> y, local |-> s.local, dirty |-> s.dirty]
  <2> HIDE DEF d
  <2> QED
    BY <1>2
<1>5. [s EXCEPT !.base = x] = [remote |-> s.remote, base |-> x, local |-> s.local, dirty |-> s.dirty]
  OBVIOUS
<1>6. [s EXCEPT !.local = x] = [remote |-> s.remote, base |-> s.base, local |-> x, dirty |-> s.dirty]
  OBVIOUS
<1> QED
  BY <1>1, <1>2, <1>3, <1>4, <1>5, <1>6

\* A mutation that is older than n, for the revision it makes.
Readable(m, n) == m \in Mutation /\ m.id < n /\ m.forRev = m.rev + 1

LEMMA MadeDirty ==
    ASSUME NEW n \in Nat, NEW r, GoodRow(r, n), NEW m, Readable(m, n), NEW q, q = ToDirty(r, m)
    PROVE  /\ GoodRow(q, n) /\ Shown(q) = Port!Dirtied(Shown(r), m)
           /\ q.remote = r.remote /\ q.local = r.local /\ q.pending = m
<1> DEFINE b == [path |-> IF r.remote.known THEN r.remote.path ELSE r.base.path,
                 deleted |-> IF r.remote.known THEN r.remote.deleted ELSE r.base.deleted,
                 rev |-> m.rev, hash |-> m.baseHash]
<1>1. r \in Row /\ r.remote \in RemoteSide /\ r.base \in BaseSide /\ m \in Mutation
  BY DEF GoodRow, Row, Readable
<1>2. b \in BaseSide /\ b.rev = m.rev
  BY <1>1 DEF BaseSide, RemoteSide, Mutation, Hashes, Names
<1>3. q = [r EXCEPT !.dirty = TRUE, !.pending = m, !.base = b]
  BY DEF ToDirty
<1>4. m # None
  BY <1>1, SqliteStoreAssumption
<1> HIDE DEF b
<1>5. /\ q \in Row /\ q.remote = r.remote /\ q.base = b /\ q.local = r.local /\ q.pending = m
      /\ q.dirty = TRUE
  BY <1>1, <1>2, <1>3 DEF Row
<1>6. GoodRow(q, n)
  BY <1>1, <1>2, <1>4, <1>5 DEF GoodRow, GoodPending, Readable
<1>7. Shown(q) = [remote |-> Shown(r).remote, base |-> b, local |-> Shown(r).local, dirty |-> m]
  BY <1>5 DEF Shown, Pending
<1>8. Shown(r) = [remote |-> Shown(r).remote, base |-> r.base, local |-> Shown(r).local, dirty |-> r.pending]
  BY RowParts
<1>9. (Shown(r).remote = None <=> ~(r.remote.known = TRUE))
      /\ (r.remote.known = TRUE => Shown(r).remote.path = r.remote.path
                                   /\ Shown(r).remote.deleted = r.remote.deleted)
  <2>1. r.remote.known = TRUE => r.remote.path \in Path
    BY DEF GoodRow
  <2>2. r.remote.known = TRUE => [path |-> r.remote.path, rev |-> r.remote.rev, hash |-> r.remote.hash,
                                  deleted |-> r.remote.deleted] \in RemoteState
    BY <1>1, <2>1 DEF RemoteSide, RemoteState, Hashes
  <2>3. r.remote.known \in BOOLEAN
    BY <1>1 DEF RemoteSide
  <2> QED
    BY <2>2, <2>3, SqliteStoreAssumption DEF Shown
<1>10. Port!Dirtied(Shown(r), m) =
          [remote |-> Shown(r).remote, base |-> b, local |-> Shown(r).local, dirty |-> m]
  <2>1. r.remote.known \in BOOLEAN
    BY <1>1 DEF RemoteSide
  <2> DEFINE s == Shown(r)
             c == [path |-> IF s.remote = None THEN s.base.path ELSE s.remote.path,
                   deleted |-> IF s.remote = None THEN s.base.deleted ELSE s.remote.deleted,
                   rev |-> m.rev, hash |-> m.baseHash]
  <2>2. Port!Dirtied(s, m) = [s EXCEPT !.dirty = m, !.base = c]
    BY DEF Port!Dirtied, Port!DirtyBase
  <2>3. s.base = r.base
    BY <1>8
  <2>4. c = b
    BY <1>9, <2>1, <2>3 DEF b
  <2> HIDE DEF c, s
  <2>5. s = [remote |-> s.remote, base |-> r.base, local |-> s.local, dirty |-> r.pending]
    BY <1>8 DEF s
  <2> DEFINE t == Port!Dirtied(s, m)
  <2>6. s = [remote |-> s.remote, base |-> s.base, local |-> s.local, dirty |-> s.dirty]
    BY DEF s, Shown
  <2> HIDE DEF t
  <2>7. t = [remote |-> s.remote, base |-> c, local |-> s.local, dirty |-> m]
    BY <2>2, <2>6, StateExcept DEF t
  <2> QED
    BY <2>4, <2>7 DEF s, t
<1> QED
  BY <1>5, <1>6, <1>7, <1>10

\* What is not known is shown as None.
LEMMA ShownNone ==
    ASSUME NEW n \in Nat, NEW r, GoodRow(r, n)
    PROVE  /\ Shown(r).remote = None <=> r.remote.known = FALSE
           /\ Shown(r).local = None <=> r.local.known = FALSE
           /\ Shown(r).dirty = r.pending /\ (r.pending = None <=> r.dirty = FALSE)
           /\ r.remote.known \in BOOLEAN /\ r.local.known \in BOOLEAN /\ r.dirty \in BOOLEAN
<1>1. r \in Row /\ r.remote \in RemoteSide /\ r.local \in LocalSide /\ GoodPending(r, n)
  BY DEF GoodRow, Row
<1>2. r.remote.known \in BOOLEAN /\ r.local.known \in BOOLEAN /\ r.dirty \in BOOLEAN
  BY <1>1 DEF RemoteSide, LocalSide, Row
<1>3. r.remote.known = TRUE => [path |-> r.remote.path, rev |-> r.remote.rev, hash |-> r.remote.hash,
                                deleted |-> r.remote.deleted] \in RemoteState
  BY <1>1 DEF GoodRow, RemoteSide, RemoteState, Hashes
<1>4. r.local.known = TRUE => [path |-> r.local.path, hash |-> r.local.hash,
                               deleted |-> r.local.deleted] \in LocalState
  BY <1>1 DEF GoodRow, LocalSide, LocalState, Hashes
<1>5. None \notin RemoteState /\ None \notin LocalState
  BY SqliteStoreAssumption
<1>6. Shown(r).remote = None <=> r.remote.known = FALSE
  BY <1>2, <1>3, <1>5 DEF Shown
<1>7. Shown(r).local = None <=> r.local.known = FALSE
  BY <1>2, <1>4, <1>5 DEF Shown
<1>8. Shown(r).dirty = r.pending
  BY RowParts
<1> QED
  BY <1>1, <1>2, <1>6, <1>7, <1>8 DEF GoodPending

\* A row is found by the paths of its live sides, and is counted by what is shown of it.
LEMMA RowAnswers ==
    ASSUME NEW n \in Nat, NEW r, GoodRow(r, n), Keyed(r), NEW s, s = Shown(r)
    PROVE  /\ \A p \in Path : r.localKey = p <=> Port!Visible(s.local, p)
           /\ \A p \in Path : r.remoteKey = p <=> Port!Visible(s.remote, p)
           /\ \A p \in Path : (~r.local.known \/ r.local.path = p) <=> (s.local = None \/ s.local.path = p)
           /\ s.dirty = r.pending /\ Pending(r) = r.pending
           /\ ~RowDeleted(r) <=> (Port!Shown(s) # None /\ ~Port!Shown(s).deleted)
           /\ (r.remote.known /\ r.remote.rev > 0) <=> (s.remote # None /\ s.remote.rev > 0)
<1>1. /\ s.remote = None <=> r.remote.known = FALSE
      /\ s.local = None <=> r.local.known = FALSE
      /\ s.dirty = r.pending
  BY ShownNone
<1>2. Pending(r) = r.pending /\ r.remote.known \in BOOLEAN /\ r.local.known \in BOOLEAN
      /\ r.remote.deleted \in BOOLEAN /\ r.local.deleted \in BOOLEAN
  BY RowParts DEF RemoteSide, LocalSide
<1>3. r.remote.known = TRUE => s.remote.path = r.remote.path /\ s.remote.deleted = r.remote.deleted
                               /\ s.remote.rev = r.remote.rev
  BY DEF Shown
<1>4. r.local.known = TRUE => s.local.path = r.local.path /\ s.local.deleted = r.local.deleted
  BY DEF Shown
<1>5. r.localKey = (IF r.local.known /\ ~r.local.deleted THEN r.local.path ELSE None)
      /\ r.remoteKey = (IF r.remote.known /\ ~r.remote.deleted THEN r.remote.path ELSE None)
  BY DEF Keyed, Key
<1>6. \A p \in Path : p # None
  BY SqliteStoreAssumption
<1>7. \A p \in Path : r.localKey = p <=> Port!Visible(s.local, p)
  BY <1>1, <1>2, <1>4, <1>5, <1>6 DEF Port!Visible
<1>8. \A p \in Path : r.remoteKey = p <=> Port!Visible(s.remote, p)
  BY <1>1, <1>2, <1>3, <1>5, <1>6 DEF Port!Visible
<1>9. \A p \in Path : (~r.local.known \/ r.local.path = p) <=> (s.local = None \/ s.local.path = p)
  BY <1>1, <1>2, <1>4
<1>10. ~RowDeleted(r) <=> (Port!Shown(s) # None /\ ~Port!Shown(s).deleted)
  BY <1>1, <1>2, <1>3, <1>4 DEF RowDeleted, Port!Shown
<1>11. (r.remote.known /\ r.remote.rev > 0) <=> (s.remote # None /\ s.remote.rev > 0)
  BY <1>1, <1>2, <1>3
<1> QED
  BY <1>1, <1>2, <1>7, <1>8, <1>9, <1>10, <1>11

\* Two rows collide when what is shown of them shares a path.
LEMMA CollidesShown ==
    ASSUME NEW n \in Nat, NEW r, GoodRow(r, n), Keyed(r), NEW q, GoodRow(q, n), Keyed(q)
    PROVE  Collides(r, q) <=> Port!Shares(Shown(r), Shown(q))
<1>1. /\ \A p \in Path : r.localKey = p <=> Port!Visible(Shown(r).local, p)
      /\ \A p \in Path : r.remoteKey = p <=> Port!Visible(Shown(r).remote, p)
      /\ \A p \in Path : q.localKey = p <=> Port!Visible(Shown(q).local, p)
      /\ \A p \in Path : q.remoteKey = p <=> Port!Visible(Shown(q).remote, p)
  BY RowAnswers
<1>2. r.localKey \in Path \cup {None} /\ r.remoteKey \in Path \cup {None} /\ None \notin Path
  BY SqliteStoreAssumption DEF GoodRow, Row, Names
<1> QED
  BY <1>1, <1>2 DEF Collides, Port!Shares

-----------------------------------------------------------------------------
(* The table. *)

GoodTable(rs, n) ==
    /\ rs = [e \in DOMAIN rs |-> rs[e]] /\ DOMAIN rs \subseteq Entry
    /\ \A e \in DOMAIN rs : GoodRow(rs[e], n) /\ Keyed(rs[e])
    /\ \A e, f \in DOMAIN rs : e # f => ~Collides(rs[e], rs[f])

ShownAll(rs) == [e \in DOMAIN rs |-> Shown(rs[e])]

LEMMA RowLater ==
    ASSUME NEW n \in Nat, NEW k \in Nat, n <= k, NEW r, GoodRow(r, n)
    PROVE  GoodRow(r, k)
<1>1. r.pending \in Mutation => r.pending.id \in Nat
  BY DEF Mutation
<1>2. GoodPending(r, k)
  BY <1>1 DEF GoodRow, GoodPending
<1> QED
  BY <1>2 DEF GoodRow

LEMMA TableLater ==
    ASSUME NEW n \in Nat, NEW k \in Nat, n <= k, NEW rs, GoodTable(rs, n)
    PROVE  GoodTable(rs, k)
<1>1. \A e \in DOMAIN rs : GoodRow(rs[e], k)
  BY RowLater DEF GoodTable
<1> QED
  BY <1>1 DEF GoodTable

LEMMA RowOfTable ==
    ASSUME NEW n \in Nat, NEW rs, GoodTable(rs, n), NEW e
    PROVE  /\ GoodRow(RowOf(rs, e), n)
           /\ Shown(RowOf(rs, e)) = IF e \in DOMAIN ShownAll(rs) THEN ShownAll(rs)[e] ELSE Port!NewState
<1>1. CASE e \in DOMAIN rs
  <2>1. RowOf(rs, e) = rs[e] /\ e \in DOMAIN ShownAll(rs) /\ ShownAll(rs)[e] = Shown(rs[e])
    BY <1>1 DEF RowOf, ShownAll
  <2> QED
    BY <1>1, <2>1 DEF GoodTable
<1>2. CASE e \notin DOMAIN rs
  <2>1. RowOf(rs, e) = RowOf(<< >>, e) /\ e \notin DOMAIN ShownAll(rs)
    BY <1>2 DEF RowOf, ShownAll
  <2> QED
    BY <2>1, EmptyRow
<1> QED
  BY <1>1, <1>2

LEMMA CollidesBothWays == \A r, q : Collides(r, q) => Collides(q, r)
  BY DEF Collides

\* The table t after row is put into rs.
PutDone(t, n, rs, e, row) ==
    /\ GoodTable(t, n) /\ DOMAIN t = DOMAIN rs \cup {e}
    /\ \A f \in DOMAIN t : t[f] = IF f = e THEN Normalized(row) ELSE rs[f]
    /\ ShownAll(t) = Port!PutEntry(ShownAll(rs), e, Shown(row))

LEMMA PutTable ==
    ASSUME NEW n \in Nat, NEW rs, GoodTable(rs, n), NEW e \in Entry, NEW row, GoodRow(row, n),
           NEW t, t = Put(rs, e, row), t # Raised
    PROVE  /\ PutDone(t, n, rs, e, row)
           /\ GoodTable(t, n) /\ DOMAIN t = DOMAIN rs \cup {e}
           /\ \A f \in DOMAIN t : t[f] = IF f = e THEN Normalized(row) ELSE rs[f]
           /\ ShownAll(t) = Port!PutEntry(ShownAll(rs), e, Shown(row))
<1> DEFINE q == Normalized(row)
<1>1. /\ ~\E f \in DOMAIN rs \ {e} : Collides(q, rs[f])
      /\ t = [f \in DOMAIN rs \cup {e} |-> IF f = e THEN q ELSE rs[f]]
  BY DEF Put
<1>2. GoodRow(q, n) /\ Keyed(q) /\ Shown(q) = Shown(row)
  BY NormalizedRow
<1> HIDE DEF q
<1>3. DOMAIN t = DOMAIN rs \cup {e} /\ \A f \in DOMAIN t : t[f] = IF f = e THEN q ELSE rs[f]
  BY <1>1
<1>4. t = [f \in DOMAIN t |-> t[f]] /\ DOMAIN t \subseteq Entry
  BY <1>1 DEF GoodTable
<1>5. \A f \in DOMAIN t : GoodRow(t[f], n) /\ Keyed(t[f])
  BY <1>2, <1>3 DEF GoodTable
<1>6. ASSUME NEW f \in DOMAIN t, NEW g \in DOMAIN t, f # g PROVE ~Collides(t[f], t[g])
  <2>1. CASE f = e
    BY <1>1, <1>3, <1>6, <2>1
  <2>2. CASE g = e
    <3>1. ~Collides(t[g], t[f])
      BY <1>1, <1>3, <1>6, <2>2
    <3> QED
      BY <3>1, CollidesBothWays
  <2>3. CASE f # e /\ g # e
    BY <1>3, <1>6, <2>3 DEF GoodTable
  <2> QED
    BY <2>1, <2>2, <2>3
<1>7. GoodTable(t, n)
  BY <1>4, <1>5, <1>6 DEF GoodTable
<1>8. ShownAll(t) = Port!PutEntry(ShownAll(rs), e, Shown(row))
  <2>1. DOMAIN ShownAll(rs) = DOMAIN rs /\ \A f \in DOMAIN rs : ShownAll(rs)[f] = Shown(rs[f])
    BY DEF ShownAll
  <2>2. ShownAll(t) = [f \in DOMAIN rs \cup {e} |-> IF f = e THEN Shown(row) ELSE ShownAll(rs)[f]]
    <3>1. \A f \in DOMAIN rs \cup {e} : Shown(t[f]) = IF f = e THEN Shown(row) ELSE ShownAll(rs)[f]
      BY <1>2, <1>3, <2>1
    <3> QED
      BY <1>3, <3>1 DEF ShownAll
  <2> QED
    BY <2>1, <2>2 DEF Port!PutEntry
<1>9. PutDone(t, n, rs, e, row)
  BY <1>3, <1>7, <1>8 DEF q, PutDone
<1> QED
  BY <1>3, <1>7, <1>8, <1>9 DEF q

\* The same, for tables named by terms of their own.
LEMMA PutRows ==
    \A n, rs, e, row, t :
       (n \in Nat /\ GoodTable(rs, n) /\ e \in Entry /\ GoodRow(row, n) /\ t = Put(rs, e, row) /\ t # Raised)
          => PutDone(t, n, rs, e, row)
<1>1. ASSUME NEW n \in Nat, NEW rs, GoodTable(rs, n), NEW e \in Entry, NEW row, GoodRow(row, n),
             NEW t, t = Put(rs, e, row), t # Raised
      PROVE  PutDone(t, n, rs, e, row)
  BY ONLY <1>1, PutTable
<1> QED
  BY <1>1

LEMMA TableApart ==
    ASSUME NEW n \in Nat, NEW t, GoodTable(t, n)
    PROVE  \A e, f \in DOMAIN ShownAll(t) : e # f => ~Port!Shares(ShownAll(t)[e], ShownAll(t)[f])
<1>1. DOMAIN ShownAll(t) = DOMAIN t /\ \A e \in DOMAIN t : ShownAll(t)[e] = Shown(t[e])
  BY DEF ShownAll
<1>2. ASSUME NEW e \in DOMAIN t, NEW f \in DOMAIN t, e # f PROVE ~Port!Shares(Shown(t[e]), Shown(t[f]))
  <2>1. GoodRow(t[e], n) /\ Keyed(t[e]) /\ GoodRow(t[f], n) /\ Keyed(t[f]) /\ ~Collides(t[e], t[f])
    BY <1>2 DEF GoodTable
  <2> QED
    BY <2>1, CollidesShown
<1> QED
  BY <1>1, <1>2

LEMMA NotRaised == ASSUME NEW t, DOMAIN t \subseteq Entry PROVE t # Raised
<1>1. DOMAIN Raised = {None}
  BY DEF Raised
<1> QED
  BY <1>1, SqliteStoreAssumption

\* A put raises for another row that has a path of the new one.
LEMMA PutRaises ==
    ASSUME NEW n \in Nat, NEW rs, GoodTable(rs, n), NEW e \in Entry, NEW row, GoodRow(row, n),
           Put(rs, e, row) = Raised
    PROVE  \E f \in DOMAIN rs \ {e} : /\ Port!Shares(Shown(row), Shown(rs[f]))
                                     /\ ClashOf(rs, e, row) = Port!Clash(e, Shown(row), f, Shown(rs[f]))
<1> DEFINE q == Normalized(row)
           f == CHOOSE f \in DOMAIN rs \ {e} : Collides(q, rs[f])
           t == [g \in DOMAIN rs \cup {e} |-> IF g = e THEN q ELSE rs[g]]
<1>1. rs # Raised /\ t # Raised
  <2>1. DOMAIN t \subseteq Entry /\ DOMAIN rs \subseteq Entry
    BY DEF GoodTable
  <2> QED
    BY <2>1, NotRaised
<1>2. \E g \in DOMAIN rs \ {e} : Collides(q, rs[g])
  <2> SUFFICES ASSUME ~\E g \in DOMAIN rs \ {e} : Collides(q, rs[g]) PROVE FALSE
    OBVIOUS
  <2>1. Put(rs, e, row) = t
    BY <1>1 DEF Put
  <2> HIDE DEF t, q
  <2> QED
    BY <1>1, <2>1
<1>3. GoodRow(q, n) /\ Keyed(q) /\ Shown(q) = Shown(row)
  BY NormalizedRow
<1>4. ClashOf(rs, e, row) = Port!Clash(e, Shown(row), f, Shown(rs[f]))
  BY DEF ClashOf, Port!Clash
<1> HIDE DEF q
<1>5. f \in DOMAIN rs \ {e} /\ Collides(q, rs[f])
  BY <1>2
<1> HIDE DEF f
<1>6. GoodRow(rs[f], n) /\ Keyed(rs[f])
  BY <1>5 DEF GoodTable
<1>7. Port!Shares(Shown(row), Shown(rs[f]))
  BY <1>3, <1>5, <1>6, CollidesShown
<1> QED
  BY <1>4, <1>5, <1>7

LEMMA DropTable ==
    ASSUME NEW n \in Nat, NEW rs, GoodTable(rs, n), NEW e, NEW t, t = Drop(rs, e), t # Raised
    PROVE  /\ GoodTable(t, n) /\ DOMAIN t = DOMAIN rs \ {e} /\ \A f \in DOMAIN t : t[f] = rs[f]
           /\ ShownAll(t) = Port!Without(ShownAll(rs), e)
<1>1. t = [f \in DOMAIN rs \ {e} |-> rs[f]]
  BY DEF Drop
<1>2. DOMAIN t = DOMAIN rs \ {e} /\ \A f \in DOMAIN t : t[f] = rs[f]
  BY <1>1
<1>3. GoodTable(t, n)
  <2>1. t = [f \in DOMAIN t |-> t[f]]
    BY <1>1
  <2> QED
    BY <1>2, <2>1 DEF GoodTable
<1>4. ShownAll(t) = Port!Without(ShownAll(rs), e)
  BY <1>2 DEF ShownAll, Port!Without
<1> QED
  BY <1>2, <1>3, <1>4

-----------------------------------------------------------------------------
(* The inductive invariant of the store. *)

Accepting == [entry : Entry, mutation : Mutation, path : Path, rev : Nat]

\* The mutations of an entry that are pending or taken.
Has(rs, tk, e, m) ==
    m # None /\ (m = RowOf(rs, e).pending \/ (tk # None /\ tk.entry = e /\ m = tk.mutation))

\* A plan is encrypted for the accepted revision, and names the path of the mutation it
\* was made for: one that has the same number has it still.
GoodPlan(item, plan, rs, tk, n) ==
    plan # None =>
       /\ plan \in Plan /\ plan.forRev = item.rev + 1 /\ plan.id < n
       /\ \A m : Has(rs, tk, item.entry, m) /\ m.id = plan.id => m.path = plan.path

\* What a caller took is one of the mutations made, of the entry it was pending for.
GoodTaken(rs, tk, n) ==
    tk # None =>
       /\ tk = [entry |-> tk.entry, mutation |-> tk.mutation]
       /\ tk.entry \in Entry /\ Readable(tk.mutation, n)
       /\ LET m == RowOf(rs, tk.entry).pending
          IN  m # None /\ m.id = tk.mutation.id => m.path = tk.mutation.path

GoodCall(c, rs, tk, n) ==
    /\ c = [phase |-> c.phase, items |-> c.items, plans |-> c.plans, attempt |-> c.attempt]
    /\ c.phase \in {"none", "sent", "planned"} /\ c.attempt \in Nat
    /\ c.items \in Seq(Accepting) /\ (c.items = << >> <=> c.phase = "none")
    /\ c.phase = "none" => c = NoCall
    /\ \A i, j \in 1..Len(c.items) : c.items[i].entry = c.items[j].entry => i = j
    /\ IF c.phase = "planned"
       THEN /\ c.plans \in Seq(Plan \cup {None}) /\ Len(c.plans) = Len(c.items)
            /\ \A i \in 1..Len(c.items) : GoodPlan(c.items[i], c.plans[i], rs, tk, n)
       ELSE c.plans = << >>

Numbered == nextId \in 1..(MaxId + 2)

StoreInv ==
    /\ GoodTable(rows, nextId) /\ GoodCall(call, rows, taken, nextId) /\ GoodTaken(rows, taken, nextId)
    /\ blobs \subseteq Hash /\ metadata \in {None} \cup 0..MaxRev /\ Numbered

\* Of the mutations made before n, those that are pending were, or were taken, at the same path.
Follows(m, old, n) ==
    m # None => m.id >= n \/ (old # None /\ old.id = m.id /\ old.path = m.path)

Comes(m, rs, tk, e, n) ==
    \/ Follows(m, RowOf(rs, e).pending, n)
    \/ tk # None /\ tk.entry = e /\ Follows(m, tk.mutation, n)

Steady(rs, t, tk, n) == \A e \in Entry : Comes(RowOf(t, e).pending, rs, tk, e, n)

LEMMA CallStays ==
    ASSUME NEW n \in Nat, NEW k \in Nat, n <= k, NEW rs, NEW t, NEW tk, Steady(rs, t, tk, n), GoodTable(t, k),
           NEW c, GoodCall(c, rs, tk, n), GoodTaken(rs, tk, n), NEW later \in {tk, None}
    PROVE  GoodCall(c, t, later, k) /\ GoodTaken(t, later, k)
<1>1. \A e \in Entry : LET m == RowOf(t, e).pending IN m # None => m.id \in Nat
  BY RowOfTable, RowParts DEF Mutation
<1>2. ASSUME NEW item \in Accepting, NEW plan, GoodPlan(item, plan, rs, tk, n)
      PROVE  GoodPlan(item, plan, t, later, k)
  <2> SUFFICES ASSUME plan # None PROVE GoodPlan(item, plan, t, later, k)
    BY DEF GoodPlan
  <2> DEFINE e == item.entry
             r == RowOf(t, e).pending
             old == RowOf(rs, e).pending
  <2>1. /\ plan \in Plan /\ plan.forRev = item.rev + 1 /\ plan.id < n /\ plan.id \in Nat
        /\ \A m : Has(rs, tk, e, m) /\ m.id = plan.id => m.path = plan.path
    BY <1>2 DEF GoodPlan, Plan
  <2>2. e \in Entry
    BY DEF Accepting
  <2>3. /\ r # None => r.id \in Nat
        /\ Follows(r, old, n) \/ (tk # None /\ tk.entry = e /\ Follows(r, tk.mutation, n))
    BY <1>1, <2>2 DEF Steady, Comes
  <2>4. /\ old # None => Has(rs, tk, e, old)
        /\ tk # None /\ tk.entry = e /\ tk.mutation # None => Has(rs, tk, e, tk.mutation)
    BY DEF Has
  <2> HIDE DEF r, old, e
  <2>5. r # None /\ r.id = plan.id => r.path = plan.path
    BY <2>1, <2>3, <2>4 DEF Follows
  <2>6. ASSUME NEW m, Has(t, later, e, m), m.id = plan.id PROVE m.path = plan.path
    <3>1. CASE m = r
      BY <2>5, <2>6, <3>1 DEF Has
    <3>2. CASE m # r
      <4>1. Has(rs, tk, e, m)
        BY <2>6, <3>2 DEF Has, r
      <4> QED
        BY <2>1, <2>6, <4>1
    <3> QED
      BY <3>1, <3>2
  <2>7. plan.id < k
    BY <2>1
  <2> QED
    BY <2>1, <2>6, <2>7 DEF GoodPlan, e
<1>3. GoodTaken(t, later, k)
  <2> SUFFICES ASSUME tk # None, later = tk PROVE GoodTaken(t, later, k)
    BY DEF GoodTaken
  <2> DEFINE o == tk.mutation
             r == RowOf(t, tk.entry).pending
             old == RowOf(rs, tk.entry).pending
  <2>1. /\ tk = [entry |-> tk.entry, mutation |-> tk.mutation] /\ tk.entry \in Entry /\ Readable(o, n)
        /\ old # None /\ old.id = o.id => old.path = o.path
    BY DEF GoodTaken
  <2>2. (r # None => r.id \in Nat) /\ (Follows(r, old, n) \/ Follows(r, o, n))
    BY <1>1, <2>1 DEF Steady, Comes
  <2> HIDE DEF r, old, o
  <2>3. o.id \in Nat /\ o.id < n /\ o.id < k /\ Readable(o, k)
    BY <2>1 DEF Readable, Mutation
  <2>4. r # None /\ r.id = o.id => r.path = o.path
    BY <2>1, <2>2, <2>3 DEF Follows
  <2> QED
    BY <2>1, <2>3, <2>4 DEF GoodTaken, o, r
<1>4. \A i \in 1..Len(c.items) : c.items[i] \in Accepting
  BY DEF GoodCall
<1> QED
  BY <1>2, <1>3, <1>4 DEF GoodCall

LEMMA PutSteady ==
    ASSUME NEW n \in Nat, NEW k \in Nat, NEW rs, GoodTable(rs, n), NEW e \in Entry, NEW row, GoodRow(row, k),
           NEW tk, Comes(row.pending, rs, tk, e, n),
           NEW t, DOMAIN t = DOMAIN rs \cup {e},
           \A f \in DOMAIN t : t[f] = IF f = e THEN Normalized(row) ELSE rs[f]
    PROVE  Steady(rs, t, tk, n)
<1>1. Normalized(row).pending = row.pending
  BY NormalizedRow
<1>2. SUFFICES ASSUME NEW f \in Entry
               PROVE  Comes(RowOf(t, f).pending, rs, tk, f, n)
  BY DEF Steady
<1>3. CASE f = e
  <2>1. RowOf(t, f).pending = row.pending
    BY <1>1, <1>3 DEF RowOf
  <2> QED
    BY <1>3, <2>1
<1>4. CASE f # e
  <2>1. RowOf(t, f).pending = RowOf(rs, f).pending
    BY <1>4 DEF RowOf
  <2> QED
    BY <2>1 DEF Follows, Comes
<1> QED
  BY <1>3, <1>4

LEMMA DropSteady ==
    ASSUME NEW n \in Nat, NEW rs, NEW tk, NEW e, NEW t, DOMAIN t = DOMAIN rs \ {e}, \A f \in DOMAIN t : t[f] = rs[f]
    PROVE  Steady(rs, t, tk, n)
<1> SUFFICES ASSUME NEW f \in Entry, RowOf(t, f).pending # None
             PROVE  RowOf(t, f).pending = RowOf(rs, f).pending
  BY DEF Steady, Follows, Comes
<1>1. CASE f \in DOMAIN t
  BY <1>1 DEF RowOf
<1>2. CASE f \notin DOMAIN t
  BY <1>2 DEF RowOf
<1> QED
  BY <1>1, <1>2

\* A call that writes t does what is asked of it, or says why not.
LEMMA Written ==
    ASSUME StoreInv, NEW t, NEW why, Write(t, why), nextId <= nextId', Numbered', taken' \in {taken, None},
           t # Raised => GoodTable(t, nextId') /\ Steady(rows, t, taken, nextId)
    PROVE  /\ StoreInv' /\ UNCHANGED <<blobs, metadata, call>>
           /\ \/ t = Raised /\ result' = why /\ EntryStates' = EntryStates
              \/ t # Raised /\ result' = NoError /\ EntryStates' = ShownAll(t)
<1>1. /\ GoodTable(rows, nextId) /\ GoodCall(call, rows, taken, nextId) /\ GoodTaken(rows, taken, nextId)
      /\ nextId \in Nat /\ nextId' \in Nat /\ blobs \subseteq Hash /\ metadata \in {None} \cup 0..MaxRev
  BY SqliteStoreAssumption DEF StoreInv, Numbered
<1>2. UNCHANGED <<blobs, metadata, call>>
  BY DEF Write
<1>3. CASE t = Raised
  <2>1. result' = why /\ rows' = rows
    BY <1>3 DEF Write
  <2>2. GoodTable(rows', nextId')
    BY <1>1, <2>1, TableLater
  <2>3. Steady(rows, rows', taken, nextId)
    BY <2>1 DEF Steady, Follows, Comes
  <2>4. GoodCall(call', rows', taken', nextId') /\ GoodTaken(rows', taken', nextId')
    BY <1>1, <1>2, <2>2, <2>3, CallStays
  <2>5. EntryStates' = EntryStates
    BY <2>1 DEF EntryStates
  <2> QED
    BY <1>1, <1>2, <1>3, <2>1, <2>2, <2>4, <2>5 DEF StoreInv
<1>4. CASE t # Raised
  <2>1. result' = NoError /\ rows' = t
    BY <1>4 DEF Write
  <2>2. GoodCall(call', rows', taken', nextId') /\ GoodTaken(rows', taken', nextId')
    BY <1>1, <1>2, <1>4, <2>1, CallStays
  <2>3. EntryStates' = ShownAll(t)
    BY <2>1 DEF EntryStates, ShownAll
  <2> QED
    BY <1>1, <1>2, <1>4, <2>1, <2>2, <2>3 DEF StoreInv
<1> QED
  BY <1>3, <1>4

LEMMA PutWritten ==
    ASSUME StoreInv, nextId <= nextId', Numbered', taken' \in {taken, None}, NEW e \in Entry,
           NEW row, GoodRow(row, nextId'), Comes(row.pending, rows, taken, e, nextId), PutRow(e, row)
    PROVE  StoreInv' /\ UNCHANGED <<blobs, metadata, call>> /\ Port!Puts(e, Shown(row))
<1> DEFINE t == Put(rows, e, row)
           why == ClashOf(rows, e, row)
           s == Shown(row)
<1>1. nextId \in Nat /\ nextId' \in Nat /\ GoodTable(rows, nextId)
  BY SqliteStoreAssumption DEF StoreInv, Numbered
<1>2. GoodTable(rows, nextId')
  BY <1>1, TableLater
<1>3. Write(t, why) /\ t = Put(rows, e, row)
  BY DEF PutRow
<1> HIDE DEF t, why, s
<1>4. ASSUME t # Raised
      PROVE  GoodTable(t, nextId') /\ Steady(rows, t, taken, nextId) /\ e \in DOMAIN t
             /\ ShownAll(t) = Port!PutEntry(ShownAll(rows), e, s)
  <2>1. /\ GoodTable(t, nextId') /\ DOMAIN t = DOMAIN rows \cup {e}
        /\ \A f \in DOMAIN t : t[f] = IF f = e THEN Normalized(row) ELSE rows[f]
        /\ ShownAll(t) = Port!PutEntry(ShownAll(rows), e, s)
    <3>1. nextId' \in Nat /\ GoodTable(rows, nextId') /\ e \in Entry /\ GoodRow(row, nextId')
          /\ t = Put(rows, e, row) /\ t # Raised
      BY <1>1, <1>2, <1>3, <1>4
    <3>2. PutDone(t, nextId', rows, e, row)
      BY ONLY <3>1, PutRows
    <3> QED
      BY <3>2 DEF PutDone, s
  <2>2. Steady(rows, t, taken, nextId)
    BY <1>1, <2>1, PutSteady
  <2> QED
    BY <2>1, <2>2
<1>5. /\ EntryStates = ShownAll(rows) /\ DOMAIN EntryStates = DOMAIN rows
      /\ \A f \in DOMAIN rows : EntryStates[f] = Shown(rows[f])
  BY DEF EntryStates, ShownAll
<1>6. /\ StoreInv' /\ UNCHANGED <<blobs, metadata, call>>
      /\ \/ t = Raised /\ result' = why /\ EntryStates' = EntryStates
         \/ t # Raised /\ result' = NoError /\ EntryStates' = ShownAll(t)
  BY <1>3, <1>4, Written
<1>7. CASE t = Raised
  <2>1. PICK f \in DOMAIN rows \ {e} : Port!Shares(s, Shown(rows[f]))
                                        /\ why = Port!Clash(e, s, f, Shown(rows[f]))
    <3>1. Put(rows, e, row) = Raised
      BY <1>3, <1>7
    <3>2. \E f \in DOMAIN rows \ {e} :
             /\ Port!Shares(Shown(row), Shown(rows[f]))
             /\ ClashOf(rows, e, row) = Port!Clash(e, Shown(row), f, Shown(rows[f]))
      <4>1. nextId' \in Nat /\ GoodTable(rows, nextId') /\ GoodRow(row, nextId') /\ e \in Entry
        BY <1>1, <1>2
      <4> QED
        BY ONLY <3>1, <4>1, PutRaises
    <3> QED
      BY <3>2 DEF s, why
  <2> QED
    BY <1>5, <1>6, <1>7, <2>1 DEF Port!Puts, s
<1>8. CASE t # Raised
  <2> DEFINE all == ShownAll(t)
  <2>1. \A f \in DOMAIN all : e \in DOMAIN all /\ (e # f => ~Port!Shares(all[e], all[f]))
    BY <1>1, <1>4, <1>8, TableApart DEF ShownAll
  <2> HIDE DEF all
  <2>2. /\ all = Port!PutEntry(EntryStates, e, s) /\ DOMAIN all = DOMAIN EntryStates \cup {e} /\ all[e] = s
        /\ \A f \in DOMAIN EntryStates \ {e} : all[f] = EntryStates[f]
    BY <1>4, <1>5, <1>8 DEF Port!PutEntry, all
  <2>3. \A f \in DOMAIN EntryStates \ {e} : ~Port!Shares(s, EntryStates[f])
    BY <2>1, <2>2
  <2>4. EntryStates' = all /\ result' = NoError
    BY <1>6, <1>8 DEF all
  <2> QED
    BY <1>6, <2>2, <2>3, <2>4 DEF Port!Puts, NoError, Port!NoError, s
<1> QED
  BY <1>7, <1>8

LEMMA DropWritten ==
    ASSUME StoreInv, nextId' = nextId, taken' = taken, NEW e, DropRow(e)
    PROVE  StoreInv' /\ UNCHANGED <<blobs, metadata, call>> /\ Port!Removes(e)
<1> DEFINE t == Drop(rows, e)
<1>1. nextId \in Nat /\ nextId <= nextId' /\ Numbered' /\ GoodTable(rows, nextId)
  BY SqliteStoreAssumption DEF StoreInv, Numbered
<1>2. Write(t, NoError) /\ t = Drop(rows, e)
  BY DEF DropRow
<1>3. t # Raised
  <2>1. rows # Raised
    BY <1>1, NotRaised DEF GoodTable
  <2>2. DOMAIN t \subseteq Entry
    BY <1>1, <2>1 DEF Drop, GoodTable
  <2> HIDE DEF t
  <2> QED
    BY <2>2, NotRaised
<1> HIDE DEF t
<1>4. GoodTable(t, nextId') /\ Steady(rows, t, taken, nextId)
      /\ ShownAll(t) = Port!Without(ShownAll(rows), e)
  <2>1. /\ GoodTable(t, nextId) /\ DOMAIN t = DOMAIN rows \ {e} /\ \A f \in DOMAIN t : t[f] = rows[f]
        /\ ShownAll(t) = Port!Without(ShownAll(rows), e)
    <3>1. nextId \in Nat /\ GoodTable(rows, nextId) /\ t = Drop(rows, e) /\ t # Raised
      BY <1>1, <1>2, <1>3
    <3>2. \A x : x = Drop(rows, e) /\ x # Raised =>
             /\ GoodTable(x, nextId) /\ DOMAIN x = DOMAIN rows \ {e} /\ \A f \in DOMAIN x : x[f] = rows[f]
             /\ ShownAll(x) = Port!Without(ShownAll(rows), e)
      BY ONLY <3>1, DropTable
    <3> QED
      BY ONLY <3>1, <3>2
  <2> QED
    BY <1>1, <2>1, DropSteady
<1>5. EntryStates = ShownAll(rows)
  BY DEF EntryStates, ShownAll
<1>6. /\ StoreInv' /\ UNCHANGED <<blobs, metadata, call>>
      /\ result' = NoError /\ EntryStates' = ShownAll(t)
  BY <1>1, <1>2, <1>3, <1>4, Written
<1> QED
  BY <1>4, <1>5, <1>6 DEF Port!Removes, NoError, Port!NoError

-----------------------------------------------------------------------------
(* Each call keeps the invariant, and has the effect the port promises.      *)

Kept == StoreInv' /\ [Port!PortNext]_(Port!portVars)

LEMMA Facts ==
    ASSUME StoreInv, NEW e
    PROVE  /\ nextId \in Nat /\ GoodRow(RowOf(rows, e), nextId) /\ Shown(RowOf(rows, e)) = Port!StateOf(e)
           /\ DOMAIN EntryStates = DOMAIN rows /\ DOMAIN rows \subseteq Entry
           /\ e \in DOMAIN rows => RowOf(rows, e) = rows[e] /\ EntryStates[e] = Shown(rows[e])
<1>1. nextId \in Nat /\ GoodTable(rows, nextId) /\ EntryStates = ShownAll(rows)
  BY DEF StoreInv, Numbered, EntryStates, ShownAll
<1>2. GoodRow(RowOf(rows, e), nextId) /\ Shown(RowOf(rows, e)) = Port!StateOf(e)
  BY <1>1, RowOfTable DEF Port!StateOf
<1>3. DOMAIN EntryStates = DOMAIN rows /\ (e \in DOMAIN rows => EntryStates[e] = Shown(rows[e]))
  BY DEF EntryStates
<1> QED
  BY <1>1, <1>2, <1>3 DEF GoodTable, RowOf

LEMMA FollowsItself == ASSUME NEW m, NEW n PROVE Follows(m, m, n)
  BY DEF Follows

LEMMA ComesOfRow ==
    ASSUME NEW m, NEW rs, NEW tk, NEW e, NEW n, Follows(m, RowOf(rs, e).pending, n)
    PROVE  Comes(m, rs, tk, e, n)
  BY DEF Comes

LEMMA EnsureKept == ASSUME StoreInv, EnsureEntry PROVE Kept
<1>1. PICK e \in Entry : PutRow(e, RowOf(rows, e))
  BY DEF EnsureEntry
<1>2. nextId' = nextId /\ nextId \in Nat /\ Numbered' /\ nextId <= nextId' /\ taken' = taken
  BY DEF EnsureEntry, StoreInv, Numbered
<1>3. GoodRow(RowOf(rows, e), nextId') /\ Shown(RowOf(rows, e)) = Port!StateOf(e)
  BY <1>2, Facts
<1>4. Comes(RowOf(rows, e).pending, rows, taken, e, nextId)
  BY FollowsItself, ComesOfRow
<1>5. StoreInv' /\ UNCHANGED <<blobs, metadata, call>> /\ Port!Puts(e, Port!StateOf(e))
  BY <1>1, <1>2, <1>3, <1>4, PutWritten
<1> QED
  BY <1>5 DEF Kept, Port!PortNext, Port!EnsureEntry

LEMMA Callers ==
    /\ RemoteRows \subseteq RemoteState /\ Port!RemoteRows = RemoteRows
    /\ LocalRows \subseteq LocalState /\ Port!LocalRows = LocalRows
<1>1. \A d : Port!HashOf(d) = HashOf(d)
  BY DEF HashOf, Port!HashOf
<1>2. Port!RemoteRows = RemoteRows
  BY <1>1 DEF RemoteRows, Port!RemoteRows
<1>3. Port!LocalRows = LocalRows
  BY <1>1 DEF LocalRows, Port!LocalRows
<1>4. \A d \in BOOLEAN : HashOf(d) \subseteq Hash \cup {None}
  BY DEF HashOf
<1>5. RemoteRows \subseteq RemoteState
  <2> SUFFICES ASSUME NEW d \in BOOLEAN, NEW r \in [path : Path, rev : 1..MaxRev, hash : HashOf(d), deleted : {d}]
               PROVE  r \in RemoteState
    BY DEF RemoteRows
  <2>1. r.rev \in Nat /\ r.hash \in Hash \cup {None}
    BY <1>4
  <2> QED
    BY <2>1 DEF RemoteState
<1>6. LocalRows \subseteq LocalState
  <2> SUFFICES ASSUME NEW d \in BOOLEAN, NEW r \in [path : Path, hash : HashOf(d), deleted : {d}]
               PROVE  r \in LocalState
    BY DEF LocalRows
  <2> QED
    BY <1>4 DEF LocalState
<1> QED
  BY <1>2, <1>3, <1>5, <1>6

LEMMA SameNumber ==
    ASSUME StoreInv, nextId' = nextId
    PROVE  nextId \in Nat /\ Numbered' /\ nextId <= nextId' /\ nextId' \in Nat
  BY DEF StoreInv, Numbered

LEMMA ShownShape ==
    ASSUME NEW r
    PROVE  Shown(r) = [remote |-> Shown(r).remote, base |-> Shown(r).base, local |-> Shown(r).local,
                       dirty |-> Shown(r).dirty]
  BY DEF Shown

LEMMA RemoteKept == ASSUME StoreInv, ApplyRemoteState PROVE Kept
<1>0. nextId' = nextId /\ taken' = taken
  BY DEF ApplyRemoteState
<1>1. PICK e \in Entry, r \in RemoteRows :
          LET updated == [RowOf(rows, e) EXCEPT !.remote = Known(r)]
          IN PutRow(e, IF updated.dirty THEN updated ELSE CopyRemoteToBase(updated))
  BY DEF ApplyRemoteState
<1> DEFINE o == RowOf(rows, e)
           q == [o EXCEPT !.remote = Known(r)]
           c == CopyRemoteToBase(q)
           w == IF q.dirty THEN q ELSE c
           s == Port!StateOf(e)
           b == IF s.dirty = None THEN Port!RemoteToBase(r) ELSE s.base
           x == [s EXCEPT !.remote = r, !.base = b]
<1>2. /\ nextId' = nextId /\ nextId \in Nat /\ GoodRow(o, nextId) /\ Shown(o) = s /\ r \in RemoteState
      /\ Numbered' /\ nextId <= nextId'
  BY <1>0, Facts, SameNumber, Callers
<1>3. PutRow(e, w)
  BY <1>1
<1>4. s = [remote |-> s.remote, base |-> s.base, local |-> s.local, dirty |-> s.dirty]
  <2> HIDE DEF s, o
  <2> QED
    BY <1>2, ShownShape
<1>5. x = [remote |-> r, base |-> b, local |-> s.local, dirty |-> s.dirty]
  <2>1. x = [s EXCEPT !.remote = r, !.base = b]
    OBVIOUS
  <2> HIDE DEF s, b, x
  <2> QED
    BY <1>4, <2>1, StateExcept
<1>6. /\ GoodRow(q, nextId) /\ Shown(q) = [Shown(o) EXCEPT !.remote = r]
      /\ q.remote = Known(r) /\ q.pending = o.pending /\ q.dirty = o.dirty
  <2> HIDE DEF o
  <2> QED
    BY <1>2, RemoteSet
<1>7. s.dirty = o.pending /\ o.dirty \in BOOLEAN /\ (o.dirty = TRUE <=> o.pending # None)
  <2> HIDE DEF o, s
  <2>1. GoodPending(o, nextId) /\ o \in Row
    BY <1>2 DEF GoodRow
  <2>2. Shown(o) = [remote |-> Shown(o).remote, base |-> o.base, local |-> Shown(o).local,
                    dirty |-> o.pending]
    BY <1>2, RowParts
  <2>3. s.dirty = o.pending
    BY <1>2, <2>2
  <2> QED
    BY <2>1, <2>3 DEF GoodPending, Row
<1>8. Shown(q) = [remote |-> r, base |-> s.base, local |-> s.local, dirty |-> s.dirty]
  <2> HIDE DEF o, s, q
  <2> QED
    BY <1>2, <1>4, <1>6, StateExcept
<1>9. GoodRow(w, nextId) /\ w.pending = o.pending /\ Shown(w) = x
  <2>1. CASE o.pending # None
    <3>1. w = q
      BY <1>6, <1>7, <2>1
    <3>2. b = s.base
      BY <1>7, <2>1
    <3> HIDE DEF w, q, x, s, b, o
    <3> QED
      BY <1>5, <1>6, <1>8, <3>1, <3>2
  <2>2. CASE o.pending = None
    <3>1. w = c /\ q.pending = None
      BY <1>6, <1>7, <2>2
    <3>2. b = Port!RemoteToBase(r)
      BY <1>7, <2>2
    <3> DEFINE k == [path |-> q.remote.path, rev |-> q.remote.rev,
                     hash |-> q.remote.hash, deleted |-> q.remote.deleted]
    <3>3. k = b
      BY <1>6, <3>2 DEF Known, Port!RemoteToBase
    <3>4. c.pending = q.pending
      BY <1>6 DEF CopyRemoteToBase, GoodRow, Row
    <3>5. /\ GoodRow(c, nextId) /\ Shown(c) = [Shown(q) EXCEPT !.base = k]
      <4> HIDE DEF q
      <4>1. c = CopyRemoteToBase(q)
        OBVIOUS
      <4> HIDE DEF c
      <4> QED
        BY <1>2, <1>6, <3>1, <4>1, BaseCopied
    <3> HIDE DEF w, q, x, s, b, o, k, c
    <3>6. Shown(c) = [remote |-> r, base |-> b, local |-> s.local, dirty |-> s.dirty]
      BY <1>8, <3>3, <3>5
    <3> QED
      BY <1>5, <2>2, <3>1, <3>4, <3>5, <3>6
  <2> QED
    BY <2>1, <2>2
<1>10. StoreInv' /\ UNCHANGED <<blobs, metadata, call>> /\ Port!Puts(e, x)
  <2>1. Comes(w.pending, rows, taken, e, nextId)
    BY <1>9, FollowsItself, ComesOfRow
  <2> HIDE DEF w, x, o
  <2> QED
    BY <1>0, <1>2, <1>3, <1>9, <2>1, PutWritten
<1>11. Port!ApplyRemoteState
  <2>1. r \in Port!RemoteRows
    BY Callers
  <2> QED
    BY <1>10, <2>1 DEF Port!ApplyRemoteState
<1> QED
  BY <1>10, <1>11 DEF Kept, Port!PortNext

LEMMA LocalKept == ASSUME StoreInv, ApplyLocalState PROVE Kept
<1>0. nextId' = nextId /\ taken' = taken
  BY DEF ApplyLocalState
<1>1. PICK e \in Entry, l \in LocalRows : PutRow(e, [RowOf(rows, e) EXCEPT !.local = KnownLocal(l)])
  BY DEF ApplyLocalState
<1> DEFINE o == RowOf(rows, e)
           w == [o EXCEPT !.local = KnownLocal(l)]
           s == Port!StateOf(e)
           x == [s EXCEPT !.local = l]
<1>2. /\ nextId \in Nat /\ GoodRow(o, nextId) /\ Shown(o) = s /\ l \in LocalState
      /\ Numbered' /\ nextId <= nextId'
  BY <1>0, Facts, SameNumber, Callers
<1>3. PutRow(e, w)
  BY <1>1
<1>4. GoodRow(w, nextId) /\ Shown(w) = x /\ w.pending = o.pending
  <2>1. GoodRow(w, nextId) /\ Shown(w) = [Shown(o) EXCEPT !.local = l] /\ w.pending = o.pending
    <3> HIDE DEF o
    <3> QED
      BY <1>2, LocalSet
  <2> QED
    BY <1>2, <2>1
<1>5. StoreInv' /\ UNCHANGED <<blobs, metadata, call>> /\ Port!Puts(e, x)
  <2>1. Comes(w.pending, rows, taken, e, nextId)
    BY <1>4, FollowsItself, ComesOfRow
  <2> HIDE DEF w, x, o
  <2> QED
    BY <1>0, <1>2, <1>3, <1>4, <2>1, PutWritten
<1>6. Port!ApplyLocalState
  <2>1. l \in Port!LocalRows
    BY Callers
  <2> QED
    BY <1>5, <2>1 DEF Port!ApplyLocalState
<1> QED
  BY <1>5, <1>6 DEF Kept, Port!PortNext

\* A row without what it knew of one side: it goes when nothing else is known of it.
LEMMA ClearWritten ==
    ASSUME StoreInv, nextId' = nextId, taken' = taken, NEW e \in DOMAIN rows, NEW w, GoodRow(w, nextId),
           w.pending = rows[e].pending, NEW gone \in BOOLEAN,
           gone = TRUE <=> w.remote.known = FALSE /\ w.local.known = FALSE /\ w.dirty = FALSE,
           IF gone = TRUE THEN DropRow(e) ELSE PutRow(e, w)
    PROVE  StoreInv' /\ UNCHANGED <<blobs, metadata, call>> /\ Port!Keep(e, Shown(w))
<1>1. e \in Entry /\ nextId \in Nat /\ nextId <= nextId' /\ Numbered' /\ RowOf(rows, e) = rows[e]
  BY Facts, SameNumber
<1>2. gone = TRUE <=> Shown(w).remote = None /\ Shown(w).local = None /\ Shown(w).dirty = None
  BY <1>1, ShownNone
<1>3. CASE gone = TRUE
  <2>1. DropRow(e)
    BY <1>3
  <2>2. StoreInv' /\ UNCHANGED <<blobs, metadata, call>> /\ Port!Removes(e)
    BY <2>1, DropWritten
  <2> QED
    BY <1>2, <1>3, <2>2 DEF Port!Keep
<1>4. CASE gone = FALSE
  <2>1. PutRow(e, w)
    BY <1>4
  <2>2. Comes(w.pending, rows, taken, e, nextId)
    BY <1>1, FollowsItself, ComesOfRow
  <2>3. StoreInv' /\ UNCHANGED <<blobs, metadata, call>> /\ Port!Puts(e, Shown(w))
    BY <1>1, <2>1, <2>2, PutWritten
  <2> QED
    BY <1>2, <1>4, <2>3 DEF Port!Keep
<1> QED
  BY <1>3, <1>4

LEMMA ClearKept == ASSUME StoreInv, ClearRemoteState \/ ClearLocalState PROVE Kept
<1>0. nextId' = nextId /\ nextId \in Nat /\ taken' = taken
  BY DEF ClearRemoteState, ClearLocalState, StoreInv, Numbered
<1>1. CASE ClearRemoteState
  <2>1. PICK e \in DOMAIN rows :
            LET updated == [rows[e] EXCEPT !.remote = RowOf(<< >>, e).remote] IN
            IF ~updated.local.known /\ ~updated.dirty THEN DropRow(e) ELSE PutRow(e, updated)
    BY <1>1 DEF ClearRemoteState
  <2> DEFINE o == rows[e]
             w == [o EXCEPT !.remote = RowOf(<< >>, e).remote]
             gone == (~w.local.known /\ ~w.dirty)
  <2>2. GoodRow(o, nextId) /\ EntryStates[e] = Shown(o) /\ DOMAIN EntryStates = DOMAIN rows
    BY Facts
  <2>3. RowOf(<< >>, e).remote = RowOf(<< >>, 0).remote /\ RowOf(<< >>, 0).remote.known = FALSE
    BY DEF RowOf
  <2>4. GoodRow(w, nextId) /\ Shown(w) = [EntryStates[e] EXCEPT !.remote = None]
    <3>1. w = [o EXCEPT !.remote = RowOf(<< >>, 0).remote]
      BY <2>3
    <3> HIDE DEF o, w
    <3> QED
      BY <1>0, <2>2, <3>1, RemoteForgotten
  <2>5. w.remote.known = FALSE /\ w.local = o.local /\ w.dirty = o.dirty /\ w.pending = o.pending
    BY <2>2, <2>3 DEF GoodRow, Row
  <2>6. (IF gone THEN TRUE ELSE FALSE) \in BOOLEAN /\ w.local.known \in BOOLEAN /\ w.dirty \in BOOLEAN
    BY <1>0, <2>4, ShownNone
  <2>7. IF gone THEN DropRow(e) ELSE PutRow(e, w)
    BY <2>1
  <2> DEFINE g == IF gone THEN TRUE ELSE FALSE
  <2>8. /\ g = TRUE <=> w.remote.known = FALSE /\ w.local.known = FALSE /\ w.dirty = FALSE
        /\ IF g = TRUE THEN DropRow(e) ELSE PutRow(e, w)
    BY <2>5, <2>6, <2>7
  <2>9. StoreInv' /\ UNCHANGED <<blobs, metadata, call>> /\ Port!Keep(e, Shown(w))
    <3> HIDE DEF w, g
    <3> QED
      BY <1>0, <2>4, <2>5, <2>6, <2>8, ClearWritten DEF g
  <2>10. Port!ClearState
    BY <2>2, <2>4, <2>9 DEF Port!ClearState
  <2> QED
    BY <2>9, <2>10 DEF Kept, Port!PortNext
<1>2. CASE ClearLocalState
  <2>1. PICK e \in DOMAIN rows :
            LET updated == [rows[e] EXCEPT !.local = RowOf(<< >>, e).local] IN
            IF ~updated.remote.known /\ ~updated.dirty THEN DropRow(e) ELSE PutRow(e, updated)
    BY <1>2 DEF ClearLocalState
  <2> DEFINE o == rows[e]
             w == [o EXCEPT !.local = RowOf(<< >>, e).local]
             gone == (~w.remote.known /\ ~w.dirty)
  <2>2. GoodRow(o, nextId) /\ EntryStates[e] = Shown(o) /\ DOMAIN EntryStates = DOMAIN rows
    BY Facts
  <2>3. RowOf(<< >>, e).local = RowOf(<< >>, 0).local /\ RowOf(<< >>, 0).local.known = FALSE
    BY DEF RowOf
  <2>4. GoodRow(w, nextId) /\ Shown(w) = [EntryStates[e] EXCEPT !.local = None]
    <3>1. w = [o EXCEPT !.local = RowOf(<< >>, 0).local]
      BY <2>3
    <3> HIDE DEF o, w
    <3> QED
      BY <1>0, <2>2, <3>1, LocalForgotten
  <2>5. w.local.known = FALSE /\ w.remote = o.remote /\ w.dirty = o.dirty /\ w.pending = o.pending
    BY <2>2, <2>3 DEF GoodRow, Row
  <2>6. (IF gone THEN TRUE ELSE FALSE) \in BOOLEAN /\ w.remote.known \in BOOLEAN /\ w.dirty \in BOOLEAN
    BY <1>0, <2>4, ShownNone
  <2>7. IF gone THEN DropRow(e) ELSE PutRow(e, w)
    BY <2>1
  <2> DEFINE g == IF gone THEN TRUE ELSE FALSE
  <2>8. /\ g = TRUE <=> w.remote.known = FALSE /\ w.local.known = FALSE /\ w.dirty = FALSE
        /\ IF g = TRUE THEN DropRow(e) ELSE PutRow(e, w)
    BY <2>5, <2>6, <2>7
  <2>9. StoreInv' /\ UNCHANGED <<blobs, metadata, call>> /\ Port!Keep(e, Shown(w))
    <3> HIDE DEF w, g
    <3> QED
      BY <1>0, <2>4, <2>5, <2>6, <2>8, ClearWritten DEF g
  <2>10. Port!ClearState
    BY <2>2, <2>4, <2>9 DEF Port!ClearState
  <2> QED
    BY <2>9, <2>10 DEF Kept, Port!PortNext
<1> QED
  BY <1>1, <1>2

LEMMA UpsertKept == ASSUME StoreInv, UpsertEntry PROVE Kept
<1>0. nextId' = nextId /\ taken' = taken
  BY DEF UpsertEntry
<1>1. PICK e \in Entry, r \in RemoteRows :
          PutRow(e, CopyRemoteToBase([RowOf(<< >>, e) EXCEPT !.remote = Known(r), !.local = KnownLocal(r)]))
  BY DEF UpsertEntry
<1> DEFINE o == RowOf(<< >>, e)
           l == [path |-> r.path, hash |-> r.hash, deleted |-> r.deleted]
           a == [o EXCEPT !.remote = Known(r)]
           q == [a EXCEPT !.local = KnownLocal(l)]
           w == CopyRemoteToBase(q)
           x == [remote |-> r, base |-> Port!RemoteToBase(r), dirty |-> None,
                 local |-> [path |-> r.path, hash |-> r.hash, deleted |-> r.deleted]]
<1>2. /\ nextId \in Nat /\ Numbered' /\ nextId <= nextId' /\ r \in RemoteState
      /\ GoodRow(o, nextId) /\ Shown(o) = Port!NewState /\ o.pending = None
  <2>1. nextId \in Nat /\ Numbered' /\ nextId <= nextId' /\ r \in RemoteState
    BY <1>0, SameNumber, Callers
  <2>2. o.pending = None
    BY DEF RowOf
  <2> QED
    BY <2>1, <2>2, EmptyRow
<1>3. l \in LocalState /\ KnownLocal(l) = KnownLocal(r)
  BY <1>2 DEF LocalState, RemoteState, KnownLocal
<1>4. PutRow(e, w)
  BY <1>1, <1>3
<1> HIDE DEF o, l
<1>5. /\ GoodRow(a, nextId) /\ Shown(a) = [Port!NewState EXCEPT !.remote = r]
      /\ a.remote = Known(r) /\ a.pending = None
  BY <1>2, RemoteSet
<1> HIDE DEF a
<1>6. /\ GoodRow(q, nextId) /\ Shown(q) = [Shown(a) EXCEPT !.local = l]
      /\ q.remote = Known(r) /\ q.pending = None
  <2>1. q = [a EXCEPT !.local = KnownLocal(l)]
    OBVIOUS
  <2> HIDE DEF q
  <2> QED
    <3>1. /\ GoodRow(q, nextId) /\ Shown(q) = [Shown(a) EXCEPT !.local = l]
          /\ q.remote = a.remote /\ q.pending = a.pending
      <4>1. GoodRow(a, nextId) /\ nextId \in Nat /\ l \in LocalState
        BY <1>2, <1>3, <1>5
      <4> QED
        BY <2>1, <4>1, LocalSet
    <3> QED
      BY <1>5, <3>1
<1> HIDE DEF q
<1>7. w.pending = None
  BY <1>6 DEF CopyRemoteToBase, GoodRow, Row
<1> HIDE DEF w
<1> DEFINE k == [path |-> q.remote.path, rev |-> q.remote.rev,
                 hash |-> q.remote.hash, deleted |-> q.remote.deleted]
<1>8. GoodRow(w, nextId) /\ Shown(w) = [Shown(q) EXCEPT !.base = k]
  BY <1>2, <1>6, BaseCopied DEF w
<1>9. k = Port!RemoteToBase(r)
  BY <1>6 DEF Known, Port!RemoteToBase
<1> HIDE DEF k
<1>10. Shown(w) = x
  <2>1. Shown(a) = [remote |-> r, base |-> Port!NewState.base, local |-> None, dirty |-> None]
    BY <1>5 DEF Port!NewState
  <2>2. Shown(q) = [remote |-> r, base |-> Port!NewState.base, local |-> l, dirty |-> None]
    BY <1>6, <2>1
  <2>3. Shown(w) = [remote |-> r, base |-> k, local |-> l, dirty |-> None]
    BY <1>8, <2>2
  <2> QED
    BY <1>9, <2>3 DEF l
<1>11. StoreInv' /\ UNCHANGED <<blobs, metadata, call>> /\ Port!Puts(e, x)
  <2>1. Comes(w.pending, rows, taken, e, nextId)
    BY <1>7 DEF Follows, Comes
  <2> HIDE DEF x
  <2> QED
    BY <1>0, <1>2, <1>4, <1>8, <1>10, <2>1, PutWritten
<1>12. Port!UpsertEntry
  <2>1. r \in Port!RemoteRows
    BY Callers
  <2> QED
    BY <1>11, <2>1 DEF Port!UpsertEntry
<1> QED
  BY <1>11, <1>12 DEF Kept, Port!PortNext

LEMMA DeleteKept == ASSUME StoreInv, DeleteEntry PROVE Kept
<1>1. PICK e \in DOMAIN rows : DropRow(e)
  BY DEF DeleteEntry
<1>2. nextId' = nextId /\ taken' = taken
  BY DEF DeleteEntry
<1>3. StoreInv' /\ UNCHANGED <<blobs, metadata, call>> /\ Port!Removes(e)
  BY <1>1, <1>2, DropWritten
<1>4. DOMAIN EntryStates = DOMAIN rows
  BY Facts
<1> QED
  BY <1>3, <1>4 DEF Kept, Port!PortNext, Port!DeleteEntry

\* The base of a new mutation is one that a row or a mutation has.
LEMMA BaseMade ==
    ASSUME StoreInv, NEW e \in Entry, NEW b \in Bases(e)
    PROVE  b.rev \in Nat /\ b.hash \in Hash \cup {None}
<1> DEFINE o == RowOf(rows, e)
<1>1. o.remote \in RemoteSide /\ o.base \in BaseSide
  <2>1. nextId \in Nat /\ GoodRow(o, nextId)
    BY Facts
  <2> QED
    BY <2>1, RowParts
<1>2. taken # None => taken.mutation \in Mutation
  BY DEF StoreInv, GoodTaken, Readable
<1>3. \/ b = [rev |-> o.remote.rev, hash |-> o.remote.hash]
      \/ b = [rev |-> o.base.rev, hash |-> o.base.hash]
      \/ taken # None /\ b = [rev |-> taken.mutation.rev, hash |-> taken.mutation.baseHash]
  BY DEF Bases
<1> HIDE DEF o
<1> QED
  BY <1>1, <1>2, <1>3 DEF RemoteSide, BaseSide, Mutation, Hashes

\* What the callers make is sound.
LEMMA Made ==
    ASSUME StoreInv, NEW e \in Entry, NEW id \in 1..MaxId, NEW m \in NewMutations(id, e)
    PROVE  /\ m \in Mutation /\ m.id = id /\ m.forRev = m.rev + 1
           /\ [path |-> m.path, hash |-> m.hash, deleted |-> m.op = "delete"] \in LocalRows
<1>2. PICK op \in {"upsert", "delete"}, p \in Path, h \in Hash, b \in Bases(e) :
          m = [id |-> id, op |-> op, status |-> "pending", path |-> p,
               hash |-> IF op = "delete" THEN None ELSE h,
               rev |-> b.rev, forRev |-> b.rev + 1, baseHash |-> b.hash]
  BY DEF NewMutations, MutationsFrom
<1>3. id \in Nat /\ b.rev \in Nat /\ b.hash \in Hash \cup {None}
  BY BaseMade, SqliteStoreAssumption
<1>5. m \in Mutation /\ m.id = id /\ m.forRev = m.rev + 1
  BY <1>2, <1>3 DEF Mutation
<1>8. [path |-> m.path, hash |-> m.hash, deleted |-> m.op = "delete"] \in LocalRows
  <2>1. CASE op = "delete"
    <3>1. m.hash = None /\ m.path \in Path /\ m.op = "delete"
      BY <1>2, <2>1
    <3>2. [path |-> m.path, hash |-> m.hash, deleted |-> TRUE] \in
             [path : Path, hash : HashOf(TRUE), deleted : {TRUE}]
      BY <3>1 DEF HashOf
    <3>3. [path |-> m.path, hash |-> m.hash, deleted |-> TRUE] \in LocalRows
      BY <3>2 DEF LocalRows
    <3>4. (m.op = "delete") = TRUE
      BY <3>1
    <3> QED
      BY <3>3, <3>4
  <2>2. CASE op = "upsert"
    <3>1. m.hash \in Hash /\ m.path \in Path /\ m.op = "upsert"
      BY <1>2, <2>2
    <3>2. [path |-> m.path, hash |-> m.hash, deleted |-> FALSE] \in
             [path : Path, hash : HashOf(FALSE), deleted : {FALSE}]
      BY <3>1 DEF HashOf
    <3>3. [path |-> m.path, hash |-> m.hash, deleted |-> FALSE] \in LocalRows
      BY <3>2 DEF LocalRows
    <3>4. (m.op = "delete") = FALSE
      BY <3>1
    <3> QED
      BY <3>3, <3>4
  <2> QED
    BY <2>1, <2>2
<1> QED
  BY <1>5, <1>8

\* A step tells of the mutation of the state it puts or refuses.
LEMMA ToldOf == ASSUME NEW e, NEW s, Port!Puts(e, s) PROVE s.dirty \in Port!Told
<1>1. CASE EntryStates' = Port!PutEntry(EntryStates, e, s)
  <2>1. e \in DOMAIN EntryStates' /\ EntryStates'[e] = s
    BY <1>1 DEF Port!PutEntry
  <2> QED
    BY <2>1 DEF Port!Told
<1>2. CASE \E f \in DOMAIN EntryStates \ {e} : result' = Port!Clash(e, s, f, EntryStates[f])
  <2>1. result'.error = "path" /\ result'.state = s
    BY <1>2 DEF Port!Clash
  <2> QED
    BY <2>1 DEF Port!Told
<1> QED
  BY <1>1, <1>2 DEF Port!Puts

\* A readable mutation is given to an entry that is known or not: put, or refused for a path.
LEMMA Marks ==
    ASSUME StoreInv, nextId <= nextId', Numbered', taken' \in {taken, None}, NEW e \in Entry, NEW m,
           Readable(m, nextId'), Comes(m, rows, taken, e, nextId), PutRow(e, ToDirty(RowOf(rows, e), m))
    PROVE  Kept
<1> DEFINE o == RowOf(rows, e)
           w == ToDirty(o, m)
           x == Port!Dirtied(Port!StateOf(e), m)
<1>1. nextId \in Nat /\ nextId' \in Nat
  BY SqliteStoreAssumption DEF StoreInv, Numbered
<1>2. GoodRow(o, nextId') /\ Shown(o) = Port!StateOf(e)
  BY <1>1, Facts, RowLater
<1>3. PutRow(e, w)
  OBVIOUS
<1> HIDE DEF o
<1>4. GoodRow(w, nextId') /\ Shown(w) = x /\ w.pending = m
  BY <1>1, <1>2, MadeDirty
<1>5. x.dirty = m
  <2>1. Shown(w).dirty = w.pending
    BY <1>1, <1>4, ShownNone
  <2> QED
    BY <1>4, <2>1
<1> HIDE DEF w, x
<1>6. StoreInv' /\ UNCHANGED <<blobs, metadata, call>> /\ Port!Puts(e, x)
  BY <1>1, <1>3, <1>4, PutWritten
<1>7. m \in Port!Told
  BY <1>5, <1>6, ToldOf
<1>8. Port!Readable(m)
  BY DEF Readable, Port!Readable, Port!Mutations, Mutation
<1>9. Port!MarkEntryDirty
  BY <1>6, <1>7, <1>8 DEF Port!MarkEntryDirty, x
<1> QED
  BY <1>6, <1>9 DEF Kept, Port!PortNext

LEMMA MarkKept == ASSUME StoreInv, MarkEntryDirty PROVE Kept
<1>1. PICK e \in Entry, required \in BOOLEAN : \E m \in NewMutations(nextId, e) :
          IF required /\ BaseIsMissing(m) THEN Write(Raised, BaseMissing(m))
          ELSE PutRow(e, ToDirty(RowOf(rows, e), m))
  BY DEF MarkEntryDirty
<1>2. PICK m \in NewMutations(nextId, e) :
          IF required /\ BaseIsMissing(m) THEN Write(Raised, BaseMissing(m))
          ELSE PutRow(e, ToDirty(RowOf(rows, e), m))
  BY <1>1
<1>3. nextId \in 1..MaxId /\ nextId' = nextId + 1 /\ nextId \in Nat /\ nextId' \in Nat /\ Numbered'
      /\ nextId <= nextId' /\ nextId < nextId' /\ taken' = taken
  BY SqliteStoreAssumption DEF MarkEntryDirty, StoreInv, Numbered
<1>4. m \in Mutation /\ m.id = nextId /\ m.forRev = m.rev + 1
  BY <1>3, Made
<1>5. CASE BaseIsMissing(m) /\ Write(Raised, BaseMissing(m))
  <2>1. /\ StoreInv' /\ UNCHANGED <<blobs, metadata, call>>
        /\ result' = BaseMissing(m) /\ EntryStates' = EntryStates
    BY <1>3, <1>5, Written
  <2>2. ~Port!BaseIsCached(m)
    BY <1>5 DEF BaseIsMissing, Port!BaseIsCached
  <2>3. result' = Port!BaseMissing(m) /\ result'.error = "base" /\ result'.mutation = m
    BY <2>1 DEF BaseMissing, Port!BaseMissing
  <2>4. m \in Port!Told
    BY <2>3 DEF Port!Told
  <2>5. Port!Readable(m)
    BY <1>4 DEF Port!Readable, Port!Mutations, Mutation
  <2>6. Port!Refuses(Port!BaseMissing(m))
    BY <2>1, <2>3 DEF Port!Refuses
  <2>7. Port!MarkEntryDirty
    BY <2>1, <2>2, <2>4, <2>5, <2>6 DEF Port!MarkEntryDirty
  <2> QED
    BY <2>1, <2>7 DEF Kept, Port!PortNext
<1>6. CASE PutRow(e, ToDirty(RowOf(rows, e), m))
  <2>1. Readable(m, nextId')
    BY <1>3, <1>4 DEF Readable
  <2>2. Comes(m, rows, taken, e, nextId)
    BY <1>3, <1>4 DEF Follows, Comes
  <2> QED
    BY <1>3, <1>6, <2>1, <2>2, Marks
<1> QED
  BY <1>2, <1>5, <1>6

LEMMA TakeKept == ASSUME StoreInv, TakeDirty PROVE Kept
<1>1. PICK e \in DOMAIN rows : Pending(rows[e]) # None /\ taken' = [entry |-> e, mutation |-> rows[e].pending]
  BY DEF TakeDirty
<1>2. UNCHANGED <<rows, blobs, metadata, call, result, nextId>>
  BY DEF TakeDirty
<1> DEFINE m == rows[e].pending
<1>3. nextId \in Nat /\ GoodRow(rows[e], nextId) /\ e \in Entry /\ RowOf(rows, e) = rows[e]
  BY Facts
<1>4. m # None /\ Readable(m, nextId)
  <2>1. Pending(rows[e]) = m /\ m \in Mutation \cup {None}
    BY <1>3, RowParts
  <2> QED
    BY <1>1, <1>3, <2>1 DEF Readable, GoodRow, GoodPending
<1>5. taken' # None /\ taken'.entry = e /\ taken'.mutation = m
      /\ taken' = [entry |-> taken'.entry, mutation |-> taken'.mutation]
  <2>1. m \in Mutation
    BY <1>4 DEF Readable
  <2>2. taken' = [entry |-> e, mutation |-> m]
    BY <1>1
  <2> HIDE DEF m
  <2> QED
    BY <1>3, <2>1, <2>2, SqliteStoreAssumption
<1> HIDE DEF m
<1>6. GoodTaken(rows, taken', nextId)
  BY <1>3, <1>4, <1>5 DEF GoodTaken, m
<1>7. ASSUME NEW f, NEW k, Has(rows, taken', f, k) PROVE Has(rows, taken, f, k)
  BY <1>3, <1>4, <1>5, <1>7 DEF Has, m
<1>8. GoodCall(call, rows, taken', nextId)
  <2>1. ASSUME NEW item, NEW plan, GoodPlan(item, plan, rows, taken, nextId)
        PROVE  GoodPlan(item, plan, rows, taken', nextId)
    BY <1>7, <2>1 DEF GoodPlan
  <2>2. GoodCall(call, rows, taken, nextId)
    BY DEF StoreInv
  <2> QED
    BY <2>1, <2>2 DEF GoodCall
<1>9. StoreInv'
  <2>1. GoodTable(rows, nextId)' /\ Numbered'
    BY <1>2 DEF StoreInv, Numbered
  <2> QED
    BY <1>2, <1>6, <1>8, <2>1 DEF StoreInv
<1>10. EntryStates' = EntryStates
  BY <1>2 DEF EntryStates
<1> QED
  BY <1>2, <1>9, <1>10 DEF Kept, Port!portVars

LEMMA StatusSet ==
    ASSUME NEW m \in Mutation, NEW st \in {"pending", "blocked"}, NEW p, p = [m EXCEPT !.status = st]
    PROVE  /\ p \in Mutation /\ p.id = m.id /\ p.path = m.path /\ p.rev = m.rev /\ p.forRev = m.forRev
           /\ p.status = st
  BY DEF Mutation

LEMMA BlockKept == ASSUME StoreInv, UpdateDirtyEntry PROVE Kept
<1>0. nextId' = nextId /\ taken' = None /\ taken # None
  BY DEF UpdateDirtyEntry
<1> DEFINE o == taken.mutation
           e == taken.entry
<1>1. PICK status \in {o.status, "blocked"} :
          PutRow(e, ToDirty(RowOf(rows, e), [o EXCEPT !.status = status]))
  BY DEF UpdateDirtyEntry
<1> DEFINE m == [o EXCEPT !.status = status]
<1>2. /\ nextId \in Nat /\ Numbered' /\ nextId <= nextId' /\ e \in Entry /\ Readable(o, nextId)
  BY <1>0, SameNumber DEF StoreInv, GoodTaken
<1>3. PutRow(e, ToDirty(RowOf(rows, e), m))
  BY <1>1
<1> HIDE DEF e
<1>4. Readable(m, nextId) /\ m.id = o.id /\ m.path = o.path /\ o # None
  <2>1. status \in {"pending", "blocked"} /\ o \in Mutation
    BY <1>2 DEF Readable, Mutation
  <2>2. m \in Mutation /\ m.id = o.id /\ m.path = o.path /\ m.rev = o.rev /\ m.forRev = o.forRev
    BY <2>1, StatusSet
  <2> HIDE DEF m, o
  <2> QED
    BY <1>2, <2>1, <2>2, SqliteStoreAssumption DEF Readable
<1> HIDE DEF m
<1>5. Comes(m, rows, taken, e, nextId)
  BY <1>0, <1>4 DEF Comes, Follows, e
<1> QED
  BY <1>0, <1>2, <1>3, <1>4, <1>5, Marks

LEMMA CleanKept == ASSUME StoreInv, MarkEntryClean PROVE Kept
<1>0. nextId' = nextId /\ taken' = taken
  BY DEF MarkEntryClean
<1>1. PICK e \in DOMAIN rows : PutRow(e, ClearPending(rows[e]))
  BY DEF MarkEntryClean
<1> DEFINE o == rows[e]
           w == ClearPending(o)
           x == [EntryStates[e] EXCEPT !.dirty = None]
<1>2. /\ nextId \in Nat /\ Numbered' /\ nextId <= nextId' /\ e \in Entry /\ RowOf(rows, e) = o
      /\ GoodRow(o, nextId) /\ Shown(o) = EntryStates[e] /\ e \in DOMAIN EntryStates
  BY <1>0, SameNumber, Facts
<1>3. GoodRow(w, nextId) /\ Shown(w) = x /\ w.pending = None
  <2>1. GoodRow(w, nextId) /\ Shown(w) = [Shown(o) EXCEPT !.dirty = None] /\ w.pending = None
    <3> HIDE DEF o
    <3> QED
      BY <1>2, PendingCleared
  <2> QED
    BY <1>2, <2>1
<1>4. StoreInv' /\ UNCHANGED <<blobs, metadata, call>> /\ Port!Puts(e, x)
  <2>1. Comes(w.pending, rows, taken, e, nextId)
    BY <1>3 DEF Follows, Comes
  <2>2. PutRow(e, w)
    BY <1>1
  <2> HIDE DEF w, x, o
  <2> QED
    BY <1>0, <1>2, <1>3, <2>1, <2>2, PutWritten
<1>5. Port!MarkEntryClean
  BY <1>2, <1>4 DEF Port!MarkEntryClean
<1> QED
  BY <1>4, <1>5 DEF Kept, Port!PortNext

LEMMA BlobKept == ASSUME StoreInv, PutBlob PROVE Kept
<1>1. /\ UNCHANGED <<rows, metadata, call, nextId, taken>> /\ result' = NoError
      /\ \E h \in Hash : blobs' = blobs \cup {h}
  BY DEF PutBlob
<1>2. EntryStates' = EntryStates
  BY <1>1 DEF EntryStates
<1>3. Port!PutBlob
  BY <1>1, <1>2 DEF Port!PutBlob, Port!Done, NoError, Port!NoError
<1>4. GoodTable(rows, nextId)' /\ GoodCall(call, rows, taken, nextId)' /\ GoodTaken(rows, taken, nextId)' /\ Numbered'
  BY <1>1 DEF StoreInv, Numbered
<1>5. StoreInv'
  BY <1>1, <1>4 DEF StoreInv
<1> QED
  BY <1>3, <1>5 DEF Kept, Port!PortNext

LEMMA ConnectionKept == ASSUME StoreInv, WriteSyncConnection \/ SetCursor PROVE Kept
<1>1. /\ UNCHANGED <<rows, blobs, call, nextId, taken>>
      /\ \/ result' = NoError /\ metadata' \in 0..MaxRev
         \/ metadata = None /\ result' = [error |-> "not connected"] /\ UNCHANGED metadata
  BY DEF WriteSyncConnection, SetCursor
<1>2. EntryStates' = EntryStates
  BY <1>1 DEF EntryStates
<1>3. Port!WriteSyncConnection \/ Port!SetCursorWithout
  BY <1>1, <1>2 DEF Port!WriteSyncConnection, Port!SetCursorWithout, Port!Done, NoError, Port!NoError, Port!Unconnected
<1>4. GoodTable(rows, nextId)' /\ GoodCall(call, rows, taken, nextId)' /\ GoodTaken(rows, taken, nextId)' /\ Numbered'
  BY <1>1 DEF StoreInv, Numbered
<1>5. StoreInv'
  BY <1>1, <1>4 DEF StoreInv
<1> QED
  BY <1>3, <1>5 DEF Kept, Port!PortNext

LEMMA UnblockedRow ==
    ASSUME NEW n \in Nat, NEW r, GoodRow(r, n), Keyed(r), r.pending # None,
           NEW q, q = Normalized([r EXCEPT !.pending.status = "pending"])
    PROVE  /\ GoodRow(q, n) /\ Keyed(q) /\ q.remoteKey = r.remoteKey /\ q.localKey = r.localKey
           /\ q.pending.id = r.pending.id /\ q.pending.path = r.pending.path
           /\ Shown(q) = [Shown(r) EXCEPT !.dirty.status = "pending"]
<1> DEFINE p == [r.pending EXCEPT !.status = "pending"]
           w == [r EXCEPT !.pending = p]
           s == Shown(r)
<1>1. r \in Row /\ r.pending \in Mutation /\ GoodPending(r, n)
  BY DEF GoodRow, Row
<1>2. /\ p \in Mutation /\ p.id = r.pending.id /\ p.path = r.pending.path
      /\ p.rev = r.pending.rev /\ p.forRev = r.pending.forRev
  BY <1>1, StatusSet
<1>3. w = [r EXCEPT !.pending.status = "pending"]
  OBVIOUS
<1>4. p # None
  BY <1>2, SqliteStoreAssumption
<1>5. s.dirty = r.pending
  BY ShownNone
<1>6. [s EXCEPT !.dirty.status = "pending"] = [s EXCEPT !.dirty = p]
  BY <1>5
<1> HIDE DEF p, s
<1>7. /\ w \in Row /\ w.remote = r.remote /\ w.base = r.base /\ w.local = r.local /\ w.pending = p
      /\ w.dirty = r.dirty
  BY <1>1, <1>2 DEF Row
<1> HIDE DEF w
<1>8. GoodRow(w, n)
  BY <1>2, <1>4, <1>7 DEF GoodRow, GoodPending
<1>9. q = Normalized(w)
  BY <1>3
<1>10. /\ GoodRow(q, n) /\ Keyed(q) /\ Shown(q) = Shown(w) /\ q.pending = p
  BY <1>7, <1>8, <1>9, NormalizedRow
<1>11. q.remote = r.remote /\ q.local = r.local
  BY <1>7, <1>9 DEF Normalized, Row
<1>12. q.remoteKey = r.remoteKey /\ q.localKey = r.localKey
  BY <1>10, <1>11 DEF Keyed
<1>13. Shown(w) = [s EXCEPT !.dirty = p]
  <2>1. Shown(w) = [remote |-> s.remote, base |-> s.base, local |-> s.local, dirty |-> p]
    <3>1. Pending(w) = p
      BY <1>8, RowParts, <1>7
    <3> QED
      BY <1>7, <3>1 DEF Shown, s
  <2>2. s = [remote |-> s.remote, base |-> s.base, local |-> s.local, dirty |-> s.dirty]
    BY ShownShape DEF s
  <2>3. [s EXCEPT !.dirty = p] = [remote |-> s.remote, base |-> s.base, local |-> s.local, dirty |-> p]
    BY <2>2
  <2> QED
    BY <2>1, <2>3
<1> QED
  BY <1>2, <1>6, <1>10, <1>12, <1>13 DEF s

LEMMA UnblockKept == ASSUME StoreInv, UnblockDirtyEntriesByReason PROVE Kept
<1> DEFINE q(e) == Normalized([rows[e] EXCEPT !.pending.status = "pending"])
           t == [e \in DOMAIN rows |-> IF e \in Blocked THEN q(e) ELSE rows[e]]
           es == [e \in DOMAIN EntryStates |->
                     IF e \in Port!Listed("blocked") THEN [EntryStates[e] EXCEPT !.dirty.status = "pending"]
                     ELSE EntryStates[e]]
<1>1. Write(t, NoError) /\ nextId' = nextId /\ taken' = taken
  BY DEF UnblockDirtyEntriesByReason
<1>2. nextId \in Nat /\ Numbered' /\ nextId <= nextId' /\ GoodTable(rows, nextId)
  BY <1>1, SameNumber DEF StoreInv
<1>3. ASSUME NEW e \in Blocked
      PROVE  /\ GoodRow(q(e), nextId) /\ Keyed(q(e)) /\ q(e).remoteKey = rows[e].remoteKey
             /\ q(e).localKey = rows[e].localKey
             /\ q(e).pending.id = rows[e].pending.id /\ q(e).pending.path = rows[e].pending.path
             /\ Shown(q(e)) = [Shown(rows[e]) EXCEPT !.dirty.status = "pending"]
  <2>1. e \in DOMAIN rows /\ rows[e].pending # None
    BY DEF Blocked
  <2>2. GoodRow(rows[e], nextId) /\ Keyed(rows[e])
    BY <1>2, <2>1 DEF GoodTable
  <2> DEFINE r == rows[e]
             w == q(e)
  <2>3. w = Normalized([r EXCEPT !.pending.status = "pending"])
    OBVIOUS
  <2> HIDE DEF w, r
  <2>4. /\ GoodRow(w, nextId) /\ Keyed(w) /\ w.remoteKey = r.remoteKey /\ w.localKey = r.localKey
        /\ w.pending.id = r.pending.id /\ w.pending.path = r.pending.path
        /\ Shown(w) = [Shown(r) EXCEPT !.dirty.status = "pending"]
    BY <1>2, <2>1, <2>2, <2>3, UnblockedRow DEF r
  <2> QED
    BY <2>4 DEF w, r
<1>4. /\ DOMAIN t = DOMAIN rows /\ Blocked \subseteq DOMAIN rows
      /\ \A e \in DOMAIN rows : t[e] = IF e \in Blocked THEN q(e) ELSE rows[e]
  BY DEF Blocked
<1>5. t = [e \in DOMAIN t |-> t[e]]
  OBVIOUS
<1> HIDE DEF t, q
<1>6. \A e \in DOMAIN t : /\ GoodRow(t[e], nextId) /\ Keyed(t[e])
                          /\ t[e].remoteKey = rows[e].remoteKey /\ t[e].localKey = rows[e].localKey
  BY <1>2, <1>3, <1>4 DEF GoodTable
<1>7. GoodTable(t, nextId)
  <2>1. \A e, f \in DOMAIN t : e # f => ~Collides(t[e], t[f])
    BY <1>2, <1>4, <1>6 DEF GoodTable, Collides
  <2> QED
    BY <1>2, <1>4, <1>5, <1>6, <2>1 DEF GoodTable
<1>8. Steady(rows, t, taken, nextId)
  <2> SUFFICES ASSUME NEW e \in Entry
               PROVE  Follows(RowOf(t, e).pending, RowOf(rows, e).pending, nextId)
    BY ComesOfRow DEF Steady
  <2>1. CASE e \in Blocked
    <3>1. RowOf(t, e) = q(e) /\ RowOf(rows, e) = rows[e] /\ rows[e].pending # None
      BY <1>4, <2>1 DEF RowOf, Blocked
    <3> QED
      BY <1>3, <2>1, <3>1 DEF Follows
  <2>2. CASE e \notin Blocked
    <3>1. RowOf(t, e) = RowOf(rows, e)
      BY <1>4, <2>2 DEF RowOf
    <3> QED
      BY <3>1, FollowsItself
  <2> QED
    BY <2>1, <2>2
<1>9. ShownAll(t) = es
  <2>1. DOMAIN EntryStates = DOMAIN rows /\ \A e \in DOMAIN rows : EntryStates[e] = Shown(rows[e])
    BY DEF EntryStates
  <2>2. \A e \in DOMAIN rows : e \in Port!Listed("blocked") <=> e \in Blocked
    <3>1. \A e \in DOMAIN rows : EntryStates[e].dirty = rows[e].pending
      BY <1>2, <2>1, ShownNone DEF GoodTable
    <3> QED
      BY <2>1, <3>1 DEF Port!Listed, Blocked
  <2>3. ASSUME NEW e \in DOMAIN rows
        PROVE  Shown(t[e]) = IF e \in Port!Listed("blocked")
                             THEN [EntryStates[e] EXCEPT !.dirty.status = "pending"] ELSE EntryStates[e]
    <3>1. CASE e \in Blocked
      BY <1>3, <1>4, <2>1, <2>2, <3>1
    <3>2. CASE e \notin Blocked
      BY <1>4, <2>1, <2>2, <3>2
    <3> QED
      BY <3>1, <3>2
  <2> QED
    BY <1>4, <2>1, <2>3 DEF ShownAll
<1>10. StoreInv' /\ UNCHANGED <<blobs, metadata, call>> /\ result' = NoError /\ EntryStates' = es
  <2>1. t # Raised
    BY <1>7, NotRaised DEF GoodTable
  <2> HIDE DEF es
  <2> QED
    BY <1>1, <1>2, <1>7, <1>8, <1>9, <2>1, Written
<1>11. Port!UnblockDirtyEntriesByReason
  BY <1>10 DEF Port!UnblockDirtyEntriesByReason, Port!Done, NoError, Port!NoError
<1> QED
  BY <1>10, <1>11 DEF Kept, Port!PortNext

\* An update that keeps its row makes of it what the port allows.
LEMMA RowMadeFits ==
    ASSUME StoreInv, NEW e \in Entry, NEW id \in 1..MaxId, nextId <= id, NEW k \in Nat, id < k,
           NEW u \in UpdatesOf(e, id), u.kind # "delete", NEW w, w = RowMade(RowOf(rows, e), u)
    PROVE  /\ GoodRow(w, k) /\ Follows(w.pending, RowOf(rows, e).pending, nextId)
           /\ Port!Becomes(Port!StateOf(e), Shown(w))
<1> DEFINE o == RowOf(rows, e)
           s == Port!StateOf(e)
           mk == IF u.kind = "clean" THEN ClearPending(o)
                 ELSE IF u.dirty # NoMutation THEN ToDirty(o, u.dirty) ELSE o
           Marked(x) == /\ x.remote = s.remote /\ x.local = s.local
                        /\ \/ x.dirty \in {s.dirty, None} /\ x.base = s.base
                           \/ Port!Readable(x.dirty) /\ x.base = Port!DirtyBase(s, x.dirty)
           Fits(q) == /\ GoodRow(q, k) /\ Follows(q.pending, o.pending, nextId)
                      /\ Port!Becomes(s, Shown(q))
<1>1. w = IF u.local = None THEN mk ELSE [mk EXCEPT !.local = KnownLocal(u.local)]
  BY DEF RowMade
<1>2. nextId \in Nat /\ id \in Nat /\ nextId <= k /\ GoodRow(o, k) /\ Shown(o) = s
  <2>1. nextId \in Nat /\ id \in Nat /\ nextId <= k
    BY SqliteStoreAssumption DEF StoreInv, Numbered
  <2>2. GoodRow(o, nextId) /\ Shown(o) = s
    BY Facts
  <2>3. GoodRow(o, k)
    <3> HIDE DEF o
    <3> QED
      BY <2>1, <2>2, RowLater
  <2> QED
    BY <2>1, <2>2, <2>3
<1>3. s = [remote |-> s.remote, base |-> s.base, local |-> s.local, dirty |-> s.dirty]
  <2> HIDE DEF s, o
  <2> QED
    BY <1>2, ShownShape
<1>4. ASSUME NEW x, Marked(x) PROVE Port!Becomes(s, x)
  <2> HIDE DEF s
  <2> QED
    BY <1>4 DEF Port!Becomes
<1>5. ASSUME NEW x, Marked(x), NEW l \in LocalRows, NEW y, y = [x EXCEPT !.local = l],
             x = [remote |-> x.remote, base |-> x.base, local |-> x.local, dirty |-> x.dirty]
      PROVE  Port!Becomes(s, y)
  <2>1. y = [remote |-> x.remote, base |-> x.base, local |-> l, dirty |-> x.dirty]
    BY <1>5, StateExcept
  <2>2. l \in Port!LocalRows
    BY Callers
  <2> HIDE DEF s
  <2> QED
    BY <1>5, <2>1, <2>2 DEF Port!Becomes
<1> HIDE DEF o, s, mk, Marked
<1>6. ASSUME u \in Settling(e) PROVE Fits(w)
  <2>1. u.kind = "clean" /\ u.local = None
    BY <1>6 DEF Settling, Update
  <2>2. w = ClearPending(o)
    BY <1>1, <2>1 DEF mk
  <2>3. GoodRow(w, k) /\ Shown(w) = [Shown(o) EXCEPT !.dirty = None] /\ w.pending = None
    BY <1>2, <2>2, PendingCleared
  <2>4. Shown(w) = [remote |-> s.remote, base |-> s.base, local |-> s.local, dirty |-> None]
    BY <1>2, <1>3, <2>3, StateExcept
  <2>5. Marked(Shown(w))
    BY <2>4 DEF Marked
  <2> QED
    BY <1>4, <2>3, <2>5 DEF Follows
<1>7. ASSUME u \in Keeping(e) PROVE Fits(w)
  <2>1. PICK l \in LocalRows : u = Update(e, "keep", NoMutation, l)
    BY <1>7 DEF Keeping
  <2>2. u.kind = "keep" /\ u.dirty = NoMutation /\ u.local = l
    BY <2>1 DEF Update
  <2>3. l # None /\ l \in LocalState
    BY Callers, SqliteStoreAssumption
  <2>4. w = [o EXCEPT !.local = KnownLocal(l)]
    BY <1>1, <2>2, <2>3 DEF mk
  <2>5. GoodRow(w, k) /\ Shown(w) = [Shown(o) EXCEPT !.local = l] /\ w.pending = o.pending
    BY <1>2, <2>3, <2>4, LocalSet
  <2>6. Marked(s)
    BY DEF Marked
  <2>7. Port!Becomes(s, Shown(w))
    BY <1>2, <1>3, <1>5, <2>5, <2>6
  <2> QED
    BY <2>5, <2>7, FollowsItself
<1>8. ASSUME u \in Marking(e, id) PROVE Fits(w)
  <2>1. PICK kind \in DirtyKinds, m \in NewMutations(id, e) : u = Update(e, kind, m, Found(m))
    BY <1>8 DEF Marking
  <2> DEFINE l == Found(m)
             q == ToDirty(o, m)
  <2>2. u.kind \in {"dirty", "dirty with its base"} /\ u.dirty = m /\ u.local = l
    BY <2>1 DEF Update, DirtyKinds
  <2>3. m \in Mutation /\ m.id = id /\ m.forRev = m.rev + 1 /\ l \in LocalRows
    BY Made DEF Found
  <2> HIDE DEF l
  <2>4. l # None /\ l \in LocalState /\ m # NoMutation
    BY <2>3, Callers, SqliteStoreAssumption DEF NoMutation
  <2>5. mk = q
    BY <2>2, <2>4 DEF mk
  <2>6. GoodRow(q, k) /\ Shown(q) = Port!Dirtied(s, m) /\ q.pending = m
    <3>1. Readable(m, k)
      BY <1>2, <2>3 DEF Readable
    <3>2. q = ToDirty(o, m)
      OBVIOUS
    <3> HIDE DEF q
    <3>3. GoodRow(q, k) /\ Shown(q) = Port!Dirtied(Shown(o), m) /\ q.pending = m
      BY <1>2, <3>1, <3>2, MadeDirty
    <3> QED
      BY <1>2, <3>3
  <2> HIDE DEF q
  <2>7. w = [q EXCEPT !.local = KnownLocal(l)]
    BY <1>1, <2>2, <2>4, <2>5
  <2>8. GoodRow(w, k) /\ Shown(w) = [Shown(q) EXCEPT !.local = l] /\ w.pending = q.pending
    BY <2>4, <2>6, <2>7, LocalSet
  <2>9. Marked(Shown(q))
    <3> DEFINE b == Port!DirtyBase(s, m)
    <3>1. Shown(q) = [s EXCEPT !.dirty = m, !.base = b]
      BY <2>6 DEF Port!Dirtied
    <3> HIDE DEF b
    <3>2. Shown(q) = [remote |-> s.remote, base |-> b, local |-> s.local, dirty |-> m]
      BY <1>3, <3>1, StateExcept
    <3>3. Port!Readable(m)
      BY <2>3 DEF Port!Readable, Port!Mutations, Mutation
    <3> QED
      BY <3>2, <3>3 DEF Marked, b
  <2>10. Port!Becomes(s, Shown(w))
    BY <1>5, <2>3, <2>8, <2>9, ShownShape
  <2>11. Follows(w.pending, o.pending, nextId)
    BY <2>3, <2>6, <2>8 DEF Follows
  <2> QED
    BY <2>8, <2>10, <2>11
<1> QED
  BY <1>6, <1>7, <1>8 DEF UpdatesOf, o, s

\* What the rows show is what the reconcile may have made of what they showed.
Shows(rs) == \A x \in DOMAIN rs : Port!Becomes(Port!StateOf(x), Shown(rs[x]))

LEMMA RowsShow == StoreInv => Shows(rows)
<1> SUFFICES ASSUME StoreInv, NEW x \in DOMAIN rows PROVE Port!Becomes(Port!StateOf(x), Shown(rows[x]))
  BY DEF Shows
<1>1. Shown(rows[x]) = Port!StateOf(x)
  BY Facts
<1> QED
  BY <1>1 DEF Port!Becomes

LEMMA UpdateEntry ==
    ASSUME NEW e, NEW id, NEW u \in UpdatesOf(e, id) PROVE u.entry = e
  BY DEF UpdatesOf, Settling, Keeping, Marking, Update

LEMMA UpdateChanges ==
    ASSUME StoreInv, NEW e \in Entry, NEW id \in 1..MaxId, nextId <= id, NEW k \in Nat, id < k,
           NEW u \in UpdatesOf(e, id), NEW rs, GoodTable(rs, k), Shows(rs), RowOf(rs, e) = RowOf(rows, e),
           NEW t, t = Updated(rs, u), t # Raised
    PROVE  /\ GoodTable(t, k) /\ Shows(t)
           /\ \A f \in Entry : f # e => RowOf(t, f) = RowOf(rs, f)
           /\ Follows(RowOf(t, e).pending, RowOf(rows, e).pending, nextId)
<1> DEFINE w == RowMade(RowOf(rows, e), u)
<1>1. t = IF u.kind = "delete" THEN Drop(rs, e) ELSE Put(rs, e, w)
  BY UpdateEntry DEF Updated
<1>2. CASE u.kind = "delete"
  <2>1. GoodTable(t, k) /\ DOMAIN t = DOMAIN rs \ {e} /\ \A f \in DOMAIN t : t[f] = rs[f]
    BY <1>1, <1>2, DropTable
  <2>2. RowOf(t, e).pending = None
    BY <2>1 DEF RowOf
  <2>3. \A f : f # e => RowOf(t, f) = RowOf(rs, f)
    BY <2>1 DEF RowOf
  <2> QED
    BY <2>1, <2>2, <2>3 DEF Follows, Shows
<1>3. CASE u.kind # "delete"
  <2>1. t = Put(rs, e, w)
    BY <1>1, <1>3
  <2>2. /\ GoodRow(w, k) /\ Follows(w.pending, RowOf(rows, e).pending, nextId)
        /\ Port!Becomes(Port!StateOf(e), Shown(w))
    BY <1>3, RowMadeFits
  <2> HIDE DEF w
  <2>3. /\ GoodTable(t, k) /\ DOMAIN t = DOMAIN rs \cup {e}
        /\ \A f \in DOMAIN t : t[f] = IF f = e THEN Normalized(w) ELSE rs[f]
    <3>1. k \in Nat /\ GoodTable(rs, k) /\ e \in Entry /\ GoodRow(w, k) /\ t = Put(rs, e, w) /\ t # Raised
      BY <2>1, <2>2
    <3>2. PutDone(t, k, rs, e, w)
      BY ONLY <3>1, PutRows
    <3> QED
      BY <3>2 DEF PutDone
  <2>4. Normalized(w).pending = w.pending /\ Shown(Normalized(w)) = Shown(w)
    BY <2>2, NormalizedRow
  <2>5. RowOf(t, e) = Normalized(w) /\ \A f : f # e => RowOf(t, f) = RowOf(rs, f)
    BY <2>3 DEF RowOf
  <2>6. Shows(t)
    BY <2>2, <2>3, <2>4 DEF Shows
  <2> QED
    BY <2>2, <2>3, <2>4, <2>5, <2>6
<1> QED
  BY <1>2, <1>3

\* An update throws for its base, or for a path of another row.
LEMMA UpdateRefused ==
    ASSUME StoreInv, NEW e \in Entry, NEW id \in 1..MaxId, nextId <= id, NEW k \in Nat, id < k,
           NEW u \in UpdatesOf(e, id), NEW rs, GoodTable(rs, k), RowOf(rs, e) = RowOf(rows, e),
           Updated(rs, u) = Raised
    PROVE  \/ \E m : Port!Readable(m) /\ ~Port!BaseIsCached(m) /\ Refusal(rs, u) = Port!BaseMissing(m)
           \/ \E f \in DOMAIN rs \ {e} : \E s :
                 /\ Refusal(rs, u) = Port!Clash(e, s, f, Shown(rs[f]))
                 /\ Port!Shares(s, Shown(rs[f])) /\ Port!Becomes(Port!StateOf(e), s)
<1> DEFINE w == RowMade(RowOf(rows, e), u)
<1>1. u.entry = e
  BY UpdateEntry
<1>2. CASE Unfounded(u)
  <2>1. u \in Marking(e, id)
    <3>1. u.kind = "dirty with its base"
      BY <1>2 DEF Unfounded
    <3>2. \A x \in Settling(e) \cup Keeping(e) : x.kind \in {"delete", "clean", "keep"}
      BY DEF Settling, Keeping, Update
    <3> QED
      BY <3>1, <3>2 DEF UpdatesOf
  <2>2. PICK kind \in DirtyKinds, m \in NewMutations(id, e) : u = Update(e, kind, m, Found(m))
    BY <2>1 DEF Marking
  <2>3. u.dirty = m /\ BaseIsMissing(m)
    BY <1>2, <2>2 DEF Update, Unfounded
  <2>4. m \in Mutation /\ m.forRev = m.rev + 1
    BY Made
  <2>5. Port!Readable(m) /\ ~Port!BaseIsCached(m)
    BY <2>3, <2>4 DEF Port!Readable, Port!Mutations, Mutation, BaseIsMissing, Port!BaseIsCached
  <2>6. Refusal(rs, u) = Port!BaseMissing(m)
    BY <1>2, <2>3 DEF Refusal, BaseMissing, Port!BaseMissing
  <2> QED
    BY <2>5, <2>6
<1>3. CASE ~Unfounded(u)
  <2>1. rs # Raised /\ DOMAIN Drop(rs, e) \subseteq Entry
    <3>1. rs # Raised
      BY NotRaised DEF GoodTable
    <3> QED
      BY <3>1 DEF GoodTable, Drop
  <2>2. u.kind # "delete" /\ Put(rs, e, w) = Raised
    BY <1>1, <1>3, <2>1, NotRaised DEF Updated
  <2>3. GoodRow(w, k) /\ Port!Becomes(Port!StateOf(e), Shown(w))
    BY <2>2, RowMadeFits
  <2>4. Refusal(rs, u) = ClashOf(rs, e, w)
    BY <1>1, <1>3 DEF Refusal
  <2> HIDE DEF w
  <2>5. PICK f \in DOMAIN rs \ {e} : /\ Port!Shares(Shown(w), Shown(rs[f]))
                                     /\ ClashOf(rs, e, w) = Port!Clash(e, Shown(w), f, Shown(rs[f]))
    BY <2>2, <2>3, PutRaises
  <2> QED
    BY <2>3, <2>4, <2>5
<1> QED
  BY <1>2, <1>3

\* A refused update is the port's refused call.
LEMMA RefusedUpdate ==
    ASSUME StoreInv, NEW e \in Entry, NEW id \in 1..MaxId, nextId <= id, NEW k \in Nat, id < k,
           NEW u \in UpdatesOf(e, id), NEW rs, GoodTable(rs, k), Shows(rs), RowOf(rs, e) = RowOf(rows, e),
           Updated(rs, u) = Raised, result' = Refusal(rs, u),
           UNCHANGED <<EntryStates, blobs, metadata, call>>
    PROVE  Port!RefuseReconcile
<1>1. ASSUME NEW m, Port!Readable(m), ~Port!BaseIsCached(m), result' = Port!BaseMissing(m)
      PROVE  Port!RefuseReconcile
  <2>1. result'.error = "base" /\ result'.mutation = m
    BY <1>1 DEF Port!BaseMissing
  <2>2. m \in Port!Told
    BY <2>1 DEF Port!Told
  <2> QED
    BY <1>1, <2>2 DEF Port!RefuseReconcile
<1>2. ASSUME NEW f \in DOMAIN rs \ {e}, NEW s, result' = Port!Clash(e, s, f, Shown(rs[f])),
             Port!Shares(s, Shown(rs[f])), Port!Becomes(Port!StateOf(e), s)
      PROVE  Port!RefuseReconcile
  <2>1. f \in Entry /\ f # e /\ Port!Becomes(Port!StateOf(f), Shown(rs[f]))
    BY DEF GoodTable, Shows
  <2>2. result'.error = "path" /\ result'.state = s /\ result'.has = Shown(rs[f])
    BY <1>2 DEF Port!Clash
  <2> QED
    BY <1>2, <2>1, <2>2 DEF Port!RefuseReconcile
<1> QED
  BY <1>1, <1>2, UpdateRefused

LEMMA ReconcileKept == ASSUME StoreInv, ApplyReconcileEntryUpdates PROVE Kept
<1>1. PICK e \in Entry, f \in Entry : e # f /\
          \E u \in UpdatesOf(e, nextId), v \in UpdatesOf(f, nextId + 1) :
             Write(Updated(Updated(rows, u), v),
                   IF Updated(rows, u) = Raised THEN Refusal(rows, u) ELSE Refusal(Updated(rows, u), v))
  BY DEF ApplyReconcileEntryUpdates
<1>2. PICK u \in UpdatesOf(e, nextId), v \in UpdatesOf(f, nextId + 1) :
             Write(Updated(Updated(rows, u), v),
                   IF Updated(rows, u) = Raised THEN Refusal(rows, u) ELSE Refusal(Updated(rows, u), v))
  BY <1>1
<1>3. /\ nextId \in 1..MaxId /\ nextId + 1 \in 1..MaxId /\ nextId' = nextId + 2 /\ nextId \in Nat
      /\ nextId' \in Nat /\ Numbered' /\ nextId <= nextId' /\ nextId < nextId' /\ nextId + 1 < nextId'
      /\ nextId <= nextId + 1 /\ nextId <= nextId /\ taken' = taken
  BY SqliteStoreAssumption DEF ApplyReconcileEntryUpdates, StoreInv, Numbered
<1> DEFINE t1 == Updated(rows, u)
           t == Updated(t1, v)
           why == IF t1 = Raised THEN Refusal(rows, u) ELSE Refusal(t1, v)
<1>4. Write(t, why) /\ t1 = Updated(rows, u) /\ t = Updated(t1, v)
  BY <1>2
<1>5. t1 = Raised => t = Raised /\ why = Refusal(rows, u)
  BY DEF Updated
<1>6. t1 # Raised => why = Refusal(t1, v)
  OBVIOUS
<1> HIDE DEF t1, t, why
<1>7. GoodTable(rows, nextId') /\ Shows(rows)
  BY <1>3, RowsShow, TableLater DEF StoreInv
<1>8. ASSUME t1 # Raised
      PROVE  /\ GoodTable(t1, nextId') /\ Shows(t1) /\ RowOf(t1, f) = RowOf(rows, f)
             /\ \A x \in Entry : x # e => RowOf(t1, x) = RowOf(rows, x)
             /\ Follows(RowOf(t1, e).pending, RowOf(rows, e).pending, nextId)
  <2>1. /\ GoodTable(t1, nextId') /\ Shows(t1)
        /\ \A x \in Entry : x # e => RowOf(t1, x) = RowOf(rows, x)
        /\ Follows(RowOf(t1, e).pending, RowOf(rows, e).pending, nextId)
    BY <1>3, <1>4, <1>7, <1>8, UpdateChanges
  <2> QED
    BY <1>1, <2>1
<1>9. ASSUME t # Raised
      PROVE  GoodTable(t, nextId') /\ Steady(rows, t, taken, nextId) /\ Shows(t)
  <2>1. t1 # Raised
    BY <1>5, <1>9
  <2>2. /\ GoodTable(t, nextId') /\ Shows(t)
        /\ \A x \in Entry : x # f => RowOf(t, x) = RowOf(t1, x)
        /\ Follows(RowOf(t, f).pending, RowOf(rows, f).pending, nextId)
    BY <1>3, <1>4, <1>8, <1>9, <2>1, UpdateChanges
  <2>3. \A x \in Entry : Follows(RowOf(t, x).pending, RowOf(rows, x).pending, nextId)
    BY <1>1, <1>8, <2>1, <2>2, FollowsItself
  <2> QED
    BY <2>2, <2>3, ComesOfRow DEF Steady
<1>10. /\ StoreInv' /\ UNCHANGED <<blobs, metadata, call>>
       /\ \/ t = Raised /\ result' = why /\ EntryStates' = EntryStates
          \/ t # Raised /\ result' = NoError /\ EntryStates' = ShownAll(t)
  BY <1>3, <1>4, <1>9, Written
<1>11. ASSUME t = Raised PROVE Port!RefuseReconcile
  <2>1. CASE t1 = Raised
    BY <1>3, <1>4, <1>5, <1>7, <1>10, <1>11, <2>1, RefusedUpdate
  <2>2. CASE t1 # Raised
    BY <1>3, <1>4, <1>6, <1>8, <1>10, <1>11, <2>2, RefusedUpdate
  <2> QED
    BY <2>1, <2>2
<1>12. ASSUME t # Raised PROVE Port!ApplyReconcileEntryUpdates
  <2> DEFINE all == ShownAll(t)
  <2>1. GoodTable(t, nextId') /\ Shows(t) /\ EntryStates' = all /\ result' = NoError
    BY <1>9, <1>10, <1>12
  <2>2. \A x, y \in DOMAIN all : x # y => ~Port!Shares(all[x], all[y])
    BY <1>3, <2>1, TableApart
  <2>3. DOMAIN all \subseteq Entry /\ \A x \in DOMAIN all : Port!Becomes(Port!StateOf(x), all[x])
    BY <2>1 DEF ShownAll, GoodTable, Shows
  <2> HIDE DEF all
  <2> QED
    BY <1>10, <2>1, <2>2, <2>3 DEF Port!ApplyReconcileEntryUpdates, Port!Done, NoError, Port!NoError
<1> QED
  BY <1>10, <1>11, <1>12 DEF Kept, Port!PortNext

LEMMA PushKept == ASSUME StoreInv, PushBatch PROVE Kept
<1>1. PICK es \in SeqOf(Queued, Cardinality(Queued)) :
          /\ es # << >>
          /\ \A i, j \in DOMAIN es : i < j => rows[es[i]].pending.id < rows[es[j]].pending.id
          /\ call' = [NoCall EXCEPT !.phase = "sent", !.items = [i \in DOMAIN es |-> Item(es[i])]]
  BY DEF PushBatch
<1>2. PICK n \in Nat : es \in [1..n -> Queued]
  <2>1. Cardinality(Queued) \in Nat \/ Cardinality(Queued) \notin Nat
    OBVIOUS
  <2>2. es \in UNION {[1..m -> Queued] : m \in 0..Cardinality(Queued)}
    BY <1>1 DEF SeqOf
  <2>3. PICK m \in 0..Cardinality(Queued) : es \in [1..m -> Queued]
    BY <2>2
  <2>4. m \in Nat
    BY <2>3
  <2> QED
    BY <2>3, <2>4
<1>3. call = NoCall /\ UNCHANGED <<rows, blobs, metadata, taken, result, nextId>>
  BY DEF PushBatch
<1>4. nextId \in Nat /\ GoodTable(rows, nextId) /\ Numbered
  BY DEF StoreInv, Numbered
<1> DEFINE items == [i \in DOMAIN es |-> Item(es[i])]
<1>5. DOMAIN es = 1..n /\ n # 0 /\ \A i \in 1..n : es[i] \in DOMAIN rows /\ rows[es[i]].pending \in Mutation
  <2>1. \A i \in 1..n : es[i] \in DOMAIN rows /\ rows[es[i]].pending # None
    BY <1>2 DEF Queued
  <2>2. \A i \in 1..n : rows[es[i]].pending \in Mutation
    BY <1>4, <2>1 DEF GoodTable, GoodRow, GoodPending
  <2>3. DOMAIN es = 1..n
    BY <1>2
  <2>4. n # 0
    <3> SUFFICES ASSUME n = 0 PROVE FALSE
      OBVIOUS
    <3>1. DOMAIN es = {} /\ es \in [{} -> Queued]
      BY <1>2, <2>3
    <3>2. es = << >>
      BY <3>1
    <3> QED
      BY <1>1, <3>2
  <2> QED
    BY <2>1, <2>2, <2>3, <2>4
<1>6. \A i, j \in 1..n : es[i] = es[j] => i = j
  <2> SUFFICES ASSUME NEW i \in 1..n, NEW j \in 1..n, es[i] = es[j], i # j PROVE FALSE
    OBVIOUS
  <2>1. i < j \/ j < i
    OBVIOUS
  <2>2. rows[es[i]].pending.id \in Nat
    BY <1>5 DEF Mutation
  <2> QED
    BY <1>1, <1>5, <2>1, <2>2
<1>7. items \in Seq(Accepting) /\ Len(items) = n
      /\ \A i \in 1..n : items[i].entry = es[i]
  <2>1. \A i \in 1..n : Item(es[i]) \in Accepting /\ Item(es[i]).entry = es[i]
    <3> SUFFICES ASSUME NEW i \in 1..n PROVE Item(es[i]) \in Accepting /\ Item(es[i]).entry = es[i]
      OBVIOUS
    <3> DEFINE m == rows[es[i]].pending
    <3>1. m \in Mutation /\ es[i] \in Entry
      BY <1>4, <1>5 DEF GoodTable
    <3>2. Item(es[i]) = [entry |-> es[i], mutation |-> m, path |-> m.path, rev |-> m.rev + 1]
      BY DEF Item
    <3> HIDE DEF m
    <3>3. m.path \in Path /\ m.rev + 1 \in Nat
      BY <3>1 DEF Mutation
    <3> QED
      BY <3>1, <3>2, <3>3 DEF Accepting
  <2>2. items = [i \in 1..n |-> Item(es[i])]
    BY <1>5
  <2>3. items \in [1..n -> Accepting]
    BY <2>1, <2>2
  <2> HIDE DEF items
  <2>4. items \in Seq(Accepting) /\ Len(items) = n
    BY <2>3
  <2> QED
    BY <2>1, <2>2, <2>4
<1>8. call' = [phase |-> "sent", items |-> items, plans |-> << >>, attempt |-> 0]
  BY <1>1 DEF NoCall
<1> HIDE DEF items
<1>9. items # << >>
  BY <1>5, <1>7
<1>10. GoodCall(call', rows', taken', nextId')
  <2>1. \A i, j \in 1..Len(items) : items[i].entry = items[j].entry => i = j
    BY <1>6, <1>7
  <2> QED
    BY <1>7, <1>8, <1>9, <2>1 DEF GoodCall
<1>11. GoodTable(rows, nextId)' /\ GoodTaken(rows, taken, nextId)' /\ Numbered'
  BY <1>3, <1>4 DEF StoreInv, Numbered
<1>12. StoreInv'
  BY <1>3, <1>10, <1>11 DEF StoreInv
<1>13. EntryStates' = EntryStates
  BY <1>3 DEF EntryStates
<1>14. Port!BeginBatch
  BY <1>3, <1>8, <1>9, <1>13 DEF Port!BeginBatch, NoCall
<1> QED
  BY <1>12, <1>14 DEF Kept, Port!PortNext

LEMMA PlanMade ==
    ASSUME StoreInv, NEW item \in Accepting
    PROVE  PlanFor(item) \in Plan \cup {None} /\ GoodPlan(item, PlanFor(item), rows, taken, nextId)
<1> DEFINE o == RowOf(rows, item.entry)
           m == o.pending
           p == PlanFor(item)
<1>1. nextId \in Nat /\ GoodRow(o, nextId)
  BY Facts
<1>2. Pending(o) = m /\ m \in Mutation \cup {None}
  <2> HIDE DEF o
  <2> QED
    BY <1>1, RowParts
<1>3. p = IF m = None \/ m.id = item.mutation.id THEN None
          ELSE [id |-> m.id, path |-> m.path, forRev |-> item.rev + 1]
  BY <1>2 DEF PlanFor
<1>4. item.rev + 1 \in Nat
  BY DEF Accepting
<1>5. CASE p = None
  BY <1>5 DEF GoodPlan
<1>6. CASE p # None
  <2>1. m \in Mutation /\ m # None /\ p = [id |-> m.id, path |-> m.path, forRev |-> item.rev + 1]
    BY <1>2, <1>3, <1>6
  <2>2. m.id < nextId /\ m.id \in Nat /\ m.path \in Path
    BY <1>1, <2>1 DEF GoodRow, GoodPending, Mutation
  <2> HIDE DEF p
  <2>3. p \in Plan /\ p.forRev = item.rev + 1 /\ p.id < nextId /\ p.path = m.path /\ p.id = m.id
    <3> HIDE DEF m
    <3> QED
      BY <1>4, <2>1, <2>2 DEF Plan
  <2>4. ASSUME NEW x, Has(rows, taken, item.entry, x), x.id = p.id PROVE x.path = p.path
    <3>1. CASE x = m
      BY <2>3, <3>1
    <3>2. CASE x # m
      <4>1. taken # None /\ taken.entry = item.entry /\ x = taken.mutation
        BY <2>4, <3>2 DEF Has
      <4>2. m # None /\ m.id = x.id => m.path = x.path
        BY <4>1 DEF StoreInv, GoodTaken
      <4> QED
        BY <2>1, <2>3, <2>4, <4>2
    <3> QED
      BY <3>1, <3>2
  <2> QED
    BY <2>3, <2>4 DEF GoodPlan, p
<1> QED
  BY <1>5, <1>6

LEMMA PlansMade ==
    ASSUME StoreInv
    PROVE  /\ Plans(call.items) \in Seq(Plan \cup {None}) /\ Len(Plans(call.items)) = Len(call.items)
           /\ \A i \in 1..Len(call.items) : GoodPlan(call.items[i], Plans(call.items)[i], rows, taken, nextId)
<1> DEFINE items == call.items
           n == Len(items)
           ps == Plans(items)
<1>1. items \in Seq(Accepting) /\ n \in Nat /\ DOMAIN items = 1..n
  BY DEF StoreInv, GoodCall
<1>2. \A i \in 1..n : items[i] \in Accepting
  BY <1>1
<1>3. ps = [i \in 1..n |-> PlanFor(items[i])]
  BY <1>1 DEF Plans
<1> HIDE DEF items, n, ps
<1>4. ps \in [1..n -> Plan \cup {None}]
  BY <1>2, <1>3, PlanMade
<1>5. ps \in Seq(Plan \cup {None}) /\ Len(ps) = n
  BY <1>1, <1>4
<1>6. \A i \in 1..n : GoodPlan(items[i], ps[i], rows, taken, nextId)
  BY <1>2, <1>3, PlanMade
<1> QED
  BY <1>5, <1>6 DEF items, n, ps

\* The plans are made, or made again: nothing the port knows of changes.
LEMMA Replanned ==
    ASSUME StoreInv, UNCHANGED <<rows, blobs, metadata, taken, result, nextId>>, call.items # << >>,
           NEW a \in Nat,
           call' = [phase |-> "planned", items |-> call.items, plans |-> Plans(call.items), attempt |-> a]
    PROVE  Kept
<1>1. GoodCall(call, rows, taken, nextId) /\ GoodTaken(rows, taken, nextId)
  BY DEF StoreInv
<1>2. GoodCall(call', rows', taken', nextId')
  BY <1>1, PlansMade DEF GoodCall
<1>3. GoodTable(rows, nextId)' /\ GoodTaken(rows, taken, nextId)' /\ Numbered'
  BY DEF StoreInv, Numbered
<1>4. StoreInv'
  BY <1>2, <1>3 DEF StoreInv
<1>5. EntryStates' = EntryStates /\ call'.items = call.items
  BY DEF EntryStates
<1> QED
  BY <1>4, <1>5 DEF Kept, Port!portVars

LEMMA PlanKept == ASSUME StoreInv, PlanBatch PROVE Kept
<1>1. /\ call.phase = "sent" /\ UNCHANGED <<rows, blobs, metadata, taken, result, nextId>>
      /\ call' = [call EXCEPT !.phase = "planned", !.plans = Plans(call.items), !.attempt = 1]
  BY DEF PlanBatch
<1>2. /\ call = [phase |-> call.phase, items |-> call.items, plans |-> call.plans, attempt |-> call.attempt]
      /\ call.items # << >>
  BY <1>1 DEF StoreInv, GoodCall
<1> DEFINE ps == Plans(call.items)
<1> HIDE DEF ps
<1>3. call' = [call EXCEPT !.phase = "planned", !.plans = ps, !.attempt = 1]
  BY <1>1 DEF ps
<1>4. call' = [phase |-> "planned", items |-> call.items, plans |-> ps, attempt |-> 1]
  BY <1>2, <1>3
<1> QED
  BY <1>1, <1>2, <1>4, Replanned DEF ps

\* What the server accepted becomes the remote state, and the local one where the file is
\* still as it was pushed.
RemoteOf(item) ==
    [path |-> item.path, rev |-> item.rev, hash |-> item.mutation.hash,
     deleted |-> item.mutation.op = "delete"]
LocalOf(item) == [path |-> item.path, hash |-> item.mutation.hash, deleted |-> FALSE]
FollowsFile(row, item) ==
    /\ item.mutation.op = "upsert"
    /\ row.local.known => row.local.hash = item.mutation.hash /\ row.local.path = item.path
WithRemote(row, item) ==
    [row EXCEPT !.remote = [known |-> TRUE, path |-> item.path, rev |-> item.rev,
                            hash |-> item.mutation.hash, deleted |-> item.mutation.op = "delete"]]
WithBoth(row, item) ==
    IF ~FollowsFile(row, item) THEN WithRemote(row, item)
    ELSE [WithRemote(row, item) EXCEPT
             !.local = [known |-> TRUE, path |-> item.path, hash |-> item.mutation.hash, deleted |-> FALSE]]

LEMMA Arrived ==
    ASSUME NEW item \in Accepting
    PROVE  RemoteOf(item) \in RemoteState /\ LocalOf(item) \in LocalState
<1>1. item.mutation \in Mutation /\ item.path \in Path /\ item.rev \in Nat
  BY DEF Accepting
<1>2. item.mutation.hash \in Hash \cup {None}
  BY <1>1 DEF Mutation
<1>3. (item.mutation.op = "delete") \in BOOLEAN
  OBVIOUS
<1> QED
  BY <1>1, <1>2, <1>3 DEF RemoteOf, LocalOf, RemoteState, LocalState

LEMMA BothSet ==
    ASSUME NEW n \in Nat, NEW o, GoodRow(o, n), NEW item \in Accepting, NEW q, q = WithBoth(o, item)
    PROVE  /\ GoodRow(q, n) /\ q.remote = Known(RemoteOf(item)) /\ q.pending = o.pending
           /\ Shown(q) = [remote |-> RemoteOf(item), base |-> o.base,
                          local |-> IF FollowsFile(o, item) THEN LocalOf(item) ELSE Shown(o).local,
                          dirty |-> o.pending]
<1> DEFINE r == RemoteOf(item)
           l == LocalOf(item)
           w == WithRemote(o, item)
<1>1. r \in RemoteState /\ l \in LocalState
  BY Arrived
<1>2. w = [o EXCEPT !.remote = Known(r)]
  <2>1. Known(r) = [known |-> TRUE, path |-> item.path, rev |-> item.rev,
                    hash |-> item.mutation.hash, deleted |-> item.mutation.op = "delete"]
    BY DEF Known, RemoteOf
  <2> QED
    BY <2>1 DEF WithRemote
<1> HIDE DEF w, r
<1>3. /\ GoodRow(w, n) /\ Shown(w) = [Shown(o) EXCEPT !.remote = r]
      /\ w.remote = Known(r) /\ w.base = o.base /\ w.pending = o.pending
  BY <1>1, <1>2, RemoteSet
<1>4. Shown(o) = [remote |-> Shown(o).remote, base |-> o.base, local |-> Shown(o).local, dirty |-> o.pending]
  BY RowParts
<1>5. Shown(w) = [remote |-> r, base |-> o.base, local |-> Shown(o).local, dirty |-> o.pending]
  BY <1>3, <1>4
<1>6. CASE ~FollowsFile(o, item)
  <2>1. q = w
    BY <1>6 DEF WithBoth, w
  <2> QED
    BY <1>3, <1>5, <1>6, <2>1 DEF r
<1>7. CASE FollowsFile(o, item)
  <2>1. KnownLocal(l) = [known |-> TRUE, path |-> item.path, hash |-> item.mutation.hash, deleted |-> FALSE]
    BY DEF KnownLocal, LocalOf
  <2>2. q = [w EXCEPT !.local = KnownLocal(l)]
    BY <1>7, <2>1 DEF WithBoth, w
  <2> HIDE DEF l
  <2>3. GoodRow(q, n) /\ Shown(q) = [Shown(w) EXCEPT !.local = l] /\ q.remote = w.remote /\ q.pending = w.pending
    <3>1. GoodRow(w, n) /\ l \in LocalState
      BY <1>1, <1>3
    <3> QED
      BY <2>2, <3>1, LocalSet
  <2>4. Shown(q) = [remote |-> r, base |-> o.base, local |-> l, dirty |-> o.pending]
    <3> DEFINE y == Shown(w)
               z == Shown(q)
    <3>1. y = [remote |-> r, base |-> o.base, local |-> Shown(o).local, dirty |-> o.pending]
      BY <1>5
    <3>2. z = [y EXCEPT !.local = l]
      BY <2>3
    <3> HIDE DEF y, z
    <3>3. z = [remote |-> r, base |-> o.base, local |-> l, dirty |-> o.pending]
      BY <3>1, <3>2
    <3> QED
      BY <3>3 DEF z
  <2> QED
    BY <1>3, <1>7, <2>3, <2>4 DEF r, l
<1> QED
  BY <1>6, <1>7

\* The mutation that is newer than the accepted one, for the accepted revision.
Rebased(m, item, plan) ==
    [m EXCEPT !.rev = item.rev, !.baseHash = item.mutation.hash, !.path = plan.path, !.forRev = plan.forRev]

RebasedFor(m, item) ==
    [m EXCEPT !.rev = item.rev, !.baseHash = item.mutation.hash, !.forRev = item.rev + 1]

LEMMA RebasedSound ==
    ASSUME NEW n \in Nat, NEW item \in Accepting, NEW m \in Mutation, m.id < n,
           NEW plan \in Plan, plan.path = m.path, plan.forRev = item.rev + 1,
           NEW q, q = Rebased(m, item, plan)
    PROVE  /\ Readable(q, n) /\ q.rev = item.rev /\ q.baseHash = item.mutation.hash
           /\ q = RebasedFor(m, item)
<1> DEFINE rev == item.rev
           h == item.mutation.hash
           p == plan.path
           k == plan.forRev
<1>1. item.mutation \in Mutation /\ rev \in Nat /\ k \in Nat /\ p \in Path /\ p = m.path /\ k = rev + 1
  BY DEF Accepting, Plan
<1>2. h \in Hash \cup {None}
  BY <1>1 DEF Mutation
<1>3. q = [m EXCEPT !.rev = rev, !.baseHash = h, !.path = p, !.forRev = k]
  BY DEF Rebased
<1> DEFINE x == [m EXCEPT !.rev = rev, !.baseHash = h, !.forRev = rev + 1]
<1>4. x = RebasedFor(m, item)
  BY DEF RebasedFor
<1>11. x = [m EXCEPT !.rev = rev, !.baseHash = h, !.forRev = rev + 1]
  OBVIOUS
<1> HIDE DEF rev, h, p, k, x
<1>5. /\ q = [id |-> m.id, op |-> m.op, status |-> m.status, path |-> p, hash |-> m.hash,
              rev |-> rev, forRev |-> k, baseHash |-> h]
  BY <1>3 DEF Mutation
<1>6. x = [id |-> m.id, op |-> m.op, status |-> m.status, path |-> m.path, hash |-> m.hash,
           rev |-> rev, forRev |-> rev + 1, baseHash |-> h]
  BY <1>11 DEF Mutation
<1>7. q \in Mutation
  BY <1>1, <1>2, <1>5 DEF Mutation
<1>8. Readable(q, n) /\ q.rev = rev /\ q.baseHash = h
  BY <1>1, <1>5, <1>7 DEF Readable
<1>9. q = x
  BY <1>1, <1>5, <1>6
<1>10. q.rev = item.rev /\ q.baseHash = item.mutation.hash
  BY <1>8 DEF rev, h
<1> QED
  BY <1>4, <1>8, <1>9, <1>10

LEMMA AcceptedFits ==
    ASSUME StoreInv, NEW item \in Accepting, NEW plan \in Plan \cup {None},
           GoodPlan(item, plan, rows, taken, nextId), ~MustRetry(item, plan),
           NEW q, q = AcceptedRow(RowOf(rows, item.entry), item, plan)
    PROVE  GoodRow(q, nextId) /\ Shown(q) = Port!Accepted(Port!StateOf(item.entry), item)
<1> DEFINE o == RowOf(rows, item.entry)
           s == Port!StateOf(item.entry)
           m == item.mutation
           u == WithBoth(o, item)
           current == Pending(u)
           r == RemoteOf(item)
           b == Port!RemoteToBase(r)
           L == IF FollowsFile(o, item) THEN LocalOf(item) ELSE s.local
           settled == s.dirty = None \/ s.dirty.id = m.id
           d == RebasedFor(s.dirty, item)
<1>1. nextId \in Nat /\ GoodRow(o, nextId) /\ Shown(o) = s
  BY Facts
<1>2. q = IF current = None THEN CopyRemoteToBase(u)
          ELSE IF current.id = m.id THEN CopyRemoteToBase(ClearPending(u))
          ELSE ToDirty(u, Rebased(current, item, plan))
  BY DEF AcceptedRow, WithBoth, WithRemote, FollowsFile, Rebased
<1>3. Pending(o) = o.pending /\ s.dirty = o.pending /\ o.pending \in Mutation \cup {None}
      /\ (s.local = None <=> o.local.known = FALSE) /\ o.local \in LocalSide
  <2> HIDE DEF o, s
  <2>1. Shown(o).dirty = o.pending /\ (Shown(o).local = None <=> o.local.known = FALSE)
    BY <1>1, ShownNone
  <2>2. Pending(o) = o.pending /\ o.pending \in Mutation \cup {None} /\ o.local \in LocalSide
    BY <1>1, RowParts
  <2> QED
    BY <1>1, <2>1, <2>2
<1>4. /\ GoodRow(u, nextId) /\ u.remote = Known(r) /\ u.pending = o.pending
      /\ Shown(u) = [remote |-> r, base |-> o.base, local |-> L, dirty |-> o.pending]
  <2> HIDE DEF o, u, s
  <2>1. u = WithBoth(o, item)
    BY DEF u
  <2>2. /\ GoodRow(u, nextId) /\ u.remote = Known(r) /\ u.pending = o.pending
        /\ Shown(u) = [remote |-> r, base |-> o.base,
                       local |-> IF FollowsFile(o, item) THEN LocalOf(item) ELSE Shown(o).local,
                       dirty |-> o.pending]
    BY <1>1, <2>1, BothSet
  <2> QED
    BY <1>1, <2>2
<1>5. current = o.pending
  <2> HIDE DEF u, o
  <2>1. Pending(u) = u.pending
    BY <1>1, <1>4, RowParts
  <2> QED
    BY <1>4, <2>1
<1>6. FollowsFile(o, item) <=> /\ m.op = "upsert"
                               /\ s.local # None => s.local.hash = m.hash /\ s.local.path = item.path
  <2> HIDE DEF o, s
  <2>1. o.local.known \in BOOLEAN
    BY <1>3 DEF LocalSide
  <2>2. o.local.known = TRUE => s.local.hash = o.local.hash /\ s.local.path = o.local.path
    BY <1>1 DEF Shown
  <2> QED
    BY <1>3, <2>1, <2>2 DEF FollowsFile
<1>7. Port!Accepted(s, item) = [remote |-> r, base |-> b, local |-> L,
                                dirty |-> IF settled THEN None ELSE d]
  <2>1. Port!Accepted(s, item) =
          [remote |-> r, base |-> Port!RemoteToBase(r),
           local |-> IF /\ m.op = "upsert"
                        /\ s.local # None => s.local.hash = m.hash /\ s.local.path = item.path
                     THEN LocalOf(item) ELSE s.local,
           dirty |-> IF settled THEN None ELSE d]
    BY DEF Port!Accepted, RemoteOf, LocalOf, RebasedFor
  <2> HIDE DEF o, s, d, r, settled
  <2> QED
    BY <1>6, <2>1
<1>8. b = [path |-> u.remote.path, rev |-> u.remote.rev, hash |-> u.remote.hash, deleted |-> u.remote.deleted]
  <2> HIDE DEF u
  <2> QED
    BY <1>4 DEF Port!RemoteToBase, Known
<1> HIDE DEF current, u, r, b, L
<1>9. CASE current = None
  <2>1. q = CopyRemoteToBase(u) /\ u.pending = None /\ settled
    BY <1>2, <1>3, <1>4, <1>5, <1>9
  <2>2. GoodRow(q, nextId) /\ Shown(q) = [Shown(u) EXCEPT !.base = b]
    BY <1>1, <1>4, <1>8, <2>1, BaseCopied
  <2>3. Shown(q) = [remote |-> r, base |-> b, local |-> L, dirty |-> None]
    <3> DEFINE v == Shown(u)
               z == Shown(q)
    <3>1. v = [remote |-> r, base |-> o.base, local |-> L, dirty |-> None]
      <4> HIDE DEF o
      <4> QED
        BY <1>4, <1>5, <1>9
    <3>2. z = [v EXCEPT !.base = b]
      BY <2>2
    <3> HIDE DEF v, z, o
    <3>3. z = [remote |-> r, base |-> b, local |-> L, dirty |-> None]
      BY <3>1, <3>2
    <3> QED
      BY <3>3 DEF z
  <2> HIDE DEF settled, d, o, s
  <2> QED
    BY <1>7, <2>1, <2>2, <2>3 DEF s
<1>10. CASE current # None /\ current.id = m.id
  <2> DEFINE c == ClearPending(u)
  <2>1. q = CopyRemoteToBase(c) /\ settled
    BY <1>2, <1>3, <1>5, <1>10
  <2>2. c = ClearPending(u)
    OBVIOUS
  <2> HIDE DEF c
  <2>3. /\ GoodRow(c, nextId) /\ Shown(c) = [Shown(u) EXCEPT !.dirty = None]
        /\ c.remote = u.remote /\ c.pending = None
    BY <1>1, <1>4, <2>2, PendingCleared
  <2>4. Shown(c) = [remote |-> r, base |-> o.base, local |-> L, dirty |-> None]
    <3> HIDE DEF o
    <3> QED
      BY <1>4, <2>3
  <2>5. GoodRow(q, nextId) /\ Shown(q) = [Shown(c) EXCEPT !.base = b]
    <3>1. b = [path |-> c.remote.path, rev |-> c.remote.rev, hash |-> c.remote.hash,
               deleted |-> c.remote.deleted]
      BY <1>8, <2>3
    <3>2. GoodRow(c, nextId) /\ c.pending = None /\ q = CopyRemoteToBase(c)
      BY <2>1, <2>3
    <3> QED
      BY <1>1, <3>1, <3>2, BaseCopied
  <2>6. Shown(q) = [remote |-> r, base |-> b, local |-> L, dirty |-> None]
    <3> DEFINE v == Shown(c)
               z == Shown(q)
    <3>1. v = [remote |-> r, base |-> o.base, local |-> L, dirty |-> None]
      BY <2>4
    <3>2. z = [v EXCEPT !.base = b]
      BY <2>5
    <3> HIDE DEF v, z, o
    <3>3. z = [remote |-> r, base |-> b, local |-> L, dirty |-> None]
      BY <3>1, <3>2
    <3> QED
      BY <3>3 DEF z
  <2> HIDE DEF settled, d, o, s
  <2> QED
    BY <1>7, <2>1, <2>5, <2>6 DEF s
<1>11. CASE current # None /\ current.id # m.id
  <2> DEFINE n == Rebased(current, item, plan)
  <2>1. q = ToDirty(u, n) /\ ~settled /\ current \in Mutation
    BY <1>2, <1>3, <1>5, <1>11
  <2>2. plan \in Plan /\ plan # None /\ plan.id = current.id
    <3>1. MustRetry(item, plan) <=> (current # None /\ current.id # m.id /\ (plan = None \/ plan.id # current.id))
      <4>1. Pending(o) = current
        BY <1>3, <1>5
      <4> QED
        BY <4>1 DEF MustRetry
    <3> QED
      BY <1>11, <3>1
  <2>3. plan.path = current.path /\ plan.forRev = item.rev + 1
    <3>1. Has(rows, taken, item.entry, current)
      BY <1>5, <1>11 DEF Has
    <3> QED
      BY <2>2, <3>1 DEF GoodPlan
  <2>4. current.id < nextId
    <3> HIDE DEF o
    <3> QED
      BY <1>1, <1>5, <1>11 DEF GoodRow, GoodPending
  <2>5. n = Rebased(current, item, plan)
    OBVIOUS
  <2> HIDE DEF n
  <2>6. /\ Readable(n, nextId) /\ n.rev = item.rev /\ n.baseHash = m.hash
        /\ n = RebasedFor(current, item)
    BY <1>1, <2>1, <2>2, <2>3, <2>4, <2>5, RebasedSound
  <2>7. n = d
    BY <1>3, <1>5, <2>6
  <2>8. GoodRow(q, nextId) /\ Shown(q) = Port!Dirtied(Shown(u), n)
    BY <1>1, <1>4, <2>1, <2>6, MadeDirty
  <2>9. Shown(q) = [remote |-> r, base |-> b, local |-> L, dirty |-> n]
    <3> DEFINE v == Shown(u)
               e == [path |-> IF v.remote = None THEN v.base.path ELSE v.remote.path,
                     deleted |-> IF v.remote = None THEN v.base.deleted ELSE v.remote.deleted,
                     rev |-> n.rev, hash |-> n.baseHash]
    <3>1. v.remote = r /\ r # None
      <4>1. r # None
        BY Arrived, SqliteStoreAssumption DEF r
      <4> QED
        BY <1>4, <4>1
    <3>2. e = b
      BY <2>6, <3>1 DEF b, r, RemoteOf, Port!RemoteToBase
    <3>3. Shown(q) = [v EXCEPT !.dirty = n, !.base = e]
      BY <2>8 DEF Port!Dirtied, Port!DirtyBase
    <3>4. v = [remote |-> r, base |-> o.base, local |-> L, dirty |-> o.pending]
      BY <1>4
    <3> HIDE DEF v, e, o
    <3>5. v = [remote |-> v.remote, base |-> v.base, local |-> v.local, dirty |-> v.dirty]
      BY <3>4
    <3>6. Shown(q) = [remote |-> v.remote, base |-> e, local |-> v.local, dirty |-> n]
      BY <3>3, <3>5, StateExcept
    <3> QED
      BY <3>2, <3>4, <3>6
  <2> HIDE DEF settled, d, o, s
  <2> QED
    BY <1>7, <2>1, <2>7, <2>8, <2>9 DEF s
<1> QED
  BY <1>9, <1>10, <1>11

\* How the items of a batch are applied, one after another.
NextRow(items, plans, i) == AcceptedRow(RowOf(rows, items[i].entry), items[i], plans[i])
Applies(f, items, plans) ==
    f = [i \in 0..Len(items) |->
            IF i = 0 THEN rows ELSE Put(f[i - 1], items[i].entry, NextRow(items, plans, i))]

LEMMA LeastIndex ==
    ASSUME NEW S \in SUBSET Nat, S # {}
    PROVE  \E m \in S : \A k \in S : m <= k
<1>1. PICK m \in S : \A k \in S : ~(<<k, m>> \in OpToRel(<, Nat))
  BY WFMin, NatLessThanWellFounded
<1>2. \A k \in S : ~(k < m)
  BY <1>1 DEF OpToRel
<1> QED
  BY <1>2

LEMMA AppliesExists ==
    ASSUME NEW S, NEW items \in Seq(S), NEW plans
    PROVE  \E f : Applies(f, items, plans)
<1> DEFINE L == Len(items)
           Upto(f, n) == f = [k \in 0..n |->
               IF k = 0 THEN rows ELSE Put(f[k - 1], items[k].entry, NextRow(items, plans, k))]
           Bad == {n \in 0..L : ~\E f : Upto(f, n)}
<1>0. L \in Nat
  OBVIOUS
<1> SUFFICES Bad = {}
  <2>1. L \in 0..L /\ \A f : Upto(f, L) => Applies(f, items, plans)
    BY <1>0 DEF Applies
  <2> HIDE DEF L, Upto
  <2> QED
    BY <2>1
<1> SUFFICES ASSUME Bad # {} PROVE FALSE
  OBVIOUS
<1>1. PICK n \in Bad : \A k \in Bad : n <= k
  <2>1. Bad \in SUBSET Nat
    BY <1>0
  <2> HIDE DEF Bad
  <2> QED
    BY <2>1, LeastIndex
<1>2. CASE n = 0
  <2> DEFINE g == [k \in 0..0 |-> rows]
  <2>1. Upto(g, 0)
    OBVIOUS
  <2> QED
    BY <1>2, <2>1
<1>3. CASE n # 0
  <2>1. n \in Nat /\ n <= L /\ n - 1 \in 0..L /\ ~(n <= n - 1)
    BY <1>0, <1>3
  <2>2. PICK f : Upto(f, n - 1)
    BY <1>1, <2>1
  <2> DEFINE v == Put(f[n - 1], items[n].entry, NextRow(items, plans, n))
             g == [k \in 0..n |-> IF k = n THEN v ELSE f[k]]
  <2>3. 0..n = 0..(n - 1) \cup {n} /\ \A k \in 0..(n - 1) : k # n
    BY <2>1
  <2>4. \A k \in 0..(n - 1) : g[k] = f[k]
    BY <2>3
  <2>5. \A k \in 0..(n - 1) : k # 0 => k - 1 \in 0..(n - 1)
    BY <2>1
  <2>6. ASSUME NEW k \in 0..n
        PROVE  g[k] = IF k = 0 THEN rows ELSE Put(g[k - 1], items[k].entry, NextRow(items, plans, k))
    <3>1. CASE k = n
      <4>1. g[k] = v /\ g[k - 1] = f[k - 1] /\ k # 0
        BY <1>3, <2>1, <2>4, <3>1
      <4> QED
        BY <3>1, <4>1
    <3>2. CASE k # n
      <4>1. k \in 0..(n - 1)
        BY <2>3, <3>2
      <4>2. f[k] = IF k = 0 THEN rows ELSE Put(f[k - 1], items[k].entry, NextRow(items, plans, k))
        BY <2>2, <4>1
      <4> QED
        BY <2>4, <2>5, <4>1, <4>2
    <3> QED
      BY <3>1, <3>2
  <2>7. Upto(g, n)
    <3>1. g = [k \in 0..n |-> g[k]]
      OBVIOUS
    <3> HIDE DEF g
    <3> QED
      BY <2>6, <3>1
  <2> QED
    BY <2>7
<1> QED
  BY <1>2, <1>3

\* The rows when the first i items have been applied.
AfterItems(rs, i) ==
    /\ GoodTable(rs, nextId)
    /\ DOMAIN rs = DOMAIN rows \cup {call.items[j].entry : j \in 1..i}
    /\ \A j \in 1..i :
          Shown(rs[call.items[j].entry]) = Port!Accepted(Port!StateOf(call.items[j].entry), call.items[j])
    /\ \A e \in DOMAIN rows : (\A j \in 1..i : call.items[j].entry # e) => rs[e] = rows[e]

LEMMA AcceptedTable ==
    ASSUME StoreInv, call.phase = "planned", ~Outdated(call.items, call.plans),
           NEW f, f = AcceptedRows(call.items, call.plans)
    PROVE  /\ \A i \in 0..Len(call.items) :
                 f[i] = IF i = 0 THEN rows
                        ELSE Put(f[i - 1], call.items[i].entry, NextRow(call.items, call.plans, i))
           /\ \A i \in 1..Len(call.items) :
                 /\ GoodRow(NextRow(call.items, call.plans, i), nextId)
                 /\ Shown(NextRow(call.items, call.plans, i))
                       = Port!Accepted(Port!StateOf(call.items[i].entry), call.items[i])
           /\ \A i \in 0..Len(call.items) : f[i] # Raised => AfterItems(f[i], i)
<1> DEFINE items == call.items
           plans == call.plans
           n == Len(items)
           Before(rs, i) ==
             /\ GoodTable(rs, nextId)
             /\ DOMAIN rs = DOMAIN rows \cup {items[j].entry : j \in 1..i}
             /\ \A j \in 1..i : Shown(rs[items[j].entry]) = Port!Accepted(Port!StateOf(items[j].entry), items[j])
             /\ \A e \in DOMAIN rows : (\A j \in 1..i : items[j].entry # e) => rs[e] = rows[e]
           Good(i) == f[i] # Raised => Before(f[i], i)
           Bad == {i \in 0..n : ~Good(i)}
<1>1. /\ items \in Seq(Accepting) /\ n \in Nat /\ DOMAIN items = 1..n /\ DOMAIN plans = 1..n
      /\ \A i, j \in 1..n : items[i].entry = items[j].entry => i = j
      /\ \A i \in 1..n : /\ items[i] \in Accepting /\ plans[i] \in Plan \cup {None}
                         /\ GoodPlan(items[i], plans[i], rows, taken, nextId)
  BY DEF StoreInv, GoodCall
<1>2. nextId \in Nat /\ GoodTable(rows, nextId)
  BY DEF StoreInv, Numbered
<1>3. \A i \in 1..n : ~MustRetry(items[i], plans[i])
  BY <1>1 DEF Outdated
<1>4. f = CHOOSE g : Applies(g, items, plans)
  BY Zenon DEF AcceptedRows, Applies, NextRow
<1>5. Applies(f, items, plans)
  <2> HIDE DEF items, plans
  <2> QED
    BY <1>1, <1>4, AppliesExists
<1>6. \A i \in 0..n : f[i] = IF i = 0 THEN rows ELSE Put(f[i - 1], items[i].entry, NextRow(items, plans, i))
  BY <1>5 DEF Applies
<1>9. \A i \in 0..n : AfterItems(f[i], i) <=> Before(f[i], i)
  BY DEF AfterItems
<1>10. ASSUME NEW i \in 1..n
       PROVE  LET w == NextRow(items, plans, i) e == items[i].entry IN
              e \in Entry /\ GoodRow(w, nextId) /\ Shown(w) = Port!Accepted(Port!StateOf(e), items[i])
  <2> DEFINE item == items[i]
             plan == plans[i]
             w == NextRow(items, plans, i)
  <2>1. /\ item \in Accepting /\ plan \in Plan \cup {None} /\ GoodPlan(item, plan, rows, taken, nextId)
        /\ ~MustRetry(item, plan)
    BY <1>1, <1>3
  <2>2. w = AcceptedRow(RowOf(rows, item.entry), item, plan)
    BY DEF NextRow
  <2>3. item.entry \in Entry
    BY <2>1 DEF Accepting
  <2> HIDE DEF item, plan, w
  <2>4. GoodRow(w, nextId) /\ Shown(w) = Port!Accepted(Port!StateOf(item.entry), item)
    BY <2>1, <2>2, AcceptedFits
  <2> QED
    BY <2>3, <2>4 DEF item, w
<1> HIDE DEF items, plans, n
<1>7. Bad = {}
  <2> SUFFICES ASSUME Bad # {} PROVE FALSE
    OBVIOUS
  <2>1. PICK i \in Bad : \A k \in Bad : i <= k
    <3>1. Bad \in SUBSET Nat
      BY <1>1
    <3> HIDE DEF Bad
    <3> QED
      BY <3>1, LeastIndex
  <2>2. i # 0
    <3>1. f[0] = rows /\ 1..0 = {}
      BY <1>1, <1>6
    <3>2. Before(rows, 0)
      BY <1>2, <3>1
    <3> HIDE DEF Before
    <3> QED
      BY <3>1, <3>2
  <2>3. /\ i \in Nat /\ i \in 1..n /\ i - 1 \in 0..n /\ ~(i <= i - 1) /\ i \in 0..n
        /\ 1..i = 1..(i - 1) \cup {i} /\ \A k \in 1..(i - 1) : k \in 1..n /\ k # i
    BY <1>1, <2>1, <2>2
  <2>4. Good(i - 1) /\ ~Good(i)
    <3> HIDE DEF Good
    <3> QED
      BY <2>1, <2>3
  <2> DEFINE e == items[i].entry
             w == NextRow(items, plans, i)
             g == f[i - 1]
             h == f[i]
  <2>5. h = Put(g, e, w) /\ h # Raised
    BY <1>6, <2>2, <2>3, <2>4
  <2>6. g # Raised
    BY <2>5 DEF Put
  <2>7. Before(g, i - 1)
    BY <2>4, <2>6
  <2>8. e \in Entry /\ GoodRow(w, nextId) /\ Shown(w) = Port!Accepted(Port!StateOf(e), items[i])
    BY <1>10, <2>3
  <2>9. /\ GoodTable(h, nextId) /\ DOMAIN h = DOMAIN g \cup {e}
        /\ \A x \in DOMAIN h : h[x] = IF x = e THEN Normalized(w) ELSE g[x]
    <3>1. GoodTable(g, nextId)
      BY <2>7
    <3>2. nextId \in Nat /\ e \in Entry /\ GoodRow(w, nextId) /\ h = Put(g, e, w) /\ h # Raised
      BY <1>2, <2>5, <2>8
    <3> HIDE DEF Before, g, h, e, w
    <3>3. PutDone(h, nextId, g, e, w)
      BY ONLY <3>1, <3>2, PutRows
    <3> QED
      BY <3>3 DEF PutDone
  <2>10. Shown(Normalized(w)) = Shown(w)
    <3> HIDE DEF w
    <3> QED
      BY <1>2, <2>8, NormalizedRow
  <2> HIDE DEF g, h, w
  <2>11. DOMAIN h = DOMAIN rows \cup {items[j].entry : j \in 1..i}
    <3>1. {items[j].entry : j \in 1..i} = {items[j].entry : j \in 1..(i - 1)} \cup {e}
      BY <2>3
    <3> QED
      BY <2>7, <2>9, <3>1
  <2>12. ASSUME NEW j \in 1..i
         PROVE  Shown(h[items[j].entry]) = Port!Accepted(Port!StateOf(items[j].entry), items[j])
    <3>1. items[j].entry \in DOMAIN h
      BY <2>11
    <3>2. CASE j = i
      <4>1. items[j].entry = e
        BY <3>2
      <4>2. Shown(h[e]) = Shown(Normalized(w))
        BY <2>9, <3>1, <4>1
      <4> QED
        BY <2>8, <2>10, <3>2, <4>2
    <3>3. CASE j # i
      <4>1. j \in 1..(i - 1) /\ j \in 1..n /\ items[j].entry # e
        BY <1>1, <2>3, <3>3
      <4>2. h[items[j].entry] = g[items[j].entry]
        BY <2>9, <3>1, <4>1
      <4> QED
        BY <2>7, <4>1, <4>2
    <3> QED
      BY <3>2, <3>3
  <2>13. ASSUME NEW x \in DOMAIN rows, \A j \in 1..i : items[j].entry # x PROVE h[x] = rows[x]
    <3>1. x # e /\ x \in DOMAIN h /\ \A j \in 1..(i - 1) : items[j].entry # x
      BY <2>3, <2>11, <2>13
    <3> QED
      BY <2>7, <2>9, <3>1
  <2>14. Before(h, i)
    BY <2>9, <2>11, <2>12, <2>13
  <2> HIDE DEF Before
  <2> QED
    BY <2>4, <2>14 DEF h
<1>8. \A i \in 0..n : f[i] # Raised => AfterItems(f[i], i)
  <2> SUFFICES ASSUME NEW i \in 0..n, f[i] # Raised PROVE AfterItems(f[i], i)
    OBVIOUS
  <2>1. Good(i)
    <3> HIDE DEF Good
    <3> QED
      BY <1>7
  <2> HIDE DEF Before
  <2> QED
    BY <1>9, <2>1
<1> QED
  BY <1>6, <1>8, <1>10 DEF items, plans, n

LEMMA AcceptedItem ==
    ASSUME StoreInv, NEW i \in 1..Len(call.items)
    PROVE  Port!AcceptedOf(call.items[i].entry)
              = Port!Accepted(Port!StateOf(call.items[i].entry), call.items[i])
<1> DEFINE e == call.items[i].entry
           c == CHOOSE j \in Port!ItemsOf(e) : TRUE
<1>1. /\ DOMAIN call.items = 1..Len(call.items)
      /\ \A j, k \in 1..Len(call.items) : call.items[j].entry = call.items[k].entry => j = k
  BY DEF StoreInv, GoodCall
<1>2. Port!ItemsOf(e) = {j \in 1..Len(call.items) : call.items[j].entry = e}
  BY <1>1 DEF Port!ItemsOf
<1>3. i \in Port!ItemsOf(e)
  BY <1>2
<1>4. c \in Port!ItemsOf(e)
  BY <1>3
<1>5. c = i
  BY <1>1, <1>2, <1>4
<1>6. Port!ItemsOf(e) # {}
  BY <1>3
<1> QED
  BY <1>5, <1>6 DEF Port!AcceptedOf

LEMMA UnacceptedItem ==
    ASSUME StoreInv, NEW e \in DOMAIN rows, \A i \in 1..Len(call.items) : call.items[i].entry # e
    PROVE  Port!AcceptedOf(e) = Shown(rows[e]) /\ Port!StateOf(e) = Shown(rows[e])
<1>1. DOMAIN call.items = 1..Len(call.items)
  BY DEF StoreInv, GoodCall
<1>2. Port!ItemsOf(e) = {}
  BY <1>1 DEF Port!ItemsOf
<1>3. EntryStates[e] = Shown(rows[e]) /\ e \in DOMAIN EntryStates
  BY DEF EntryStates
<1> QED
  BY <1>2, <1>3 DEF Port!AcceptedOf, Port!StateOf

\* An acceptance that raises does so for a path: of another entry, or of one accepted before.
LEMMA BatchClash ==
    ASSUME StoreInv, call.phase = "planned", ~Outdated(call.items, call.plans),
           NEW rs, rs = AcceptedRows(call.items, call.plans), rs[Len(call.items)] = Raised
    PROVE  \E i \in 1..Len(call.items) : LET e == call.items[i].entry IN
              \E f \in DOMAIN rows \cup {call.items[j].entry : j \in 1..Len(call.items)} :
                 /\ f # e
                 /\ \E t \in {Port!StateOf(f), Port!AcceptedOf(f)} :
                      /\ Port!Shares(Port!AcceptedOf(e), t)
                      /\ ClashIn(rs, call.items, call.plans) = Port!Clash(e, Port!AcceptedOf(e), f, t)
<1> DEFINE items == call.items
           plans == call.plans
           n == Len(items)
           Bad == {j \in 0..n : rs[j] = Raised}
           i == CHOOSE j \in DOMAIN items : rs[j] = Raised /\ rs[j - 1] # Raised
<1>1. /\ n \in Nat /\ DOMAIN items = 1..n /\ nextId \in Nat /\ GoodTable(rows, nextId)
      /\ \A j \in 1..n : items[j].entry \in Entry
  <2>1. items \in Seq(Accepting) /\ GoodTable(rows, nextId) /\ nextId \in Nat
    BY DEF StoreInv, GoodCall, Numbered
  <2>2. \A a \in Accepting : a.entry \in Entry
    BY DEF Accepting
  <2> HIDE DEF items
  <2> QED
    BY <2>1, <2>2 DEF n
<1>2. /\ \A j \in 0..n : rs[j] = IF j = 0 THEN rows ELSE Put(rs[j - 1], items[j].entry, NextRow(items, plans, j))
      /\ \A j \in 1..n : GoodRow(NextRow(items, plans, j), nextId)
                         /\ Shown(NextRow(items, plans, j)) = Port!Accepted(Port!StateOf(items[j].entry), items[j])
      /\ \A j \in 0..n : rs[j] # Raised => AfterItems(rs[j], j)
  BY AcceptedTable
<1>3. \A j \in 1..n : Port!AcceptedOf(items[j].entry) = Port!Accepted(Port!StateOf(items[j].entry), items[j])
  BY AcceptedItem
<1>4. \A x \in DOMAIN rows : (\A j \in 1..n : items[j].entry # x) =>
          Port!AcceptedOf(x) = Shown(rows[x]) /\ Port!StateOf(x) = Shown(rows[x])
  BY UnacceptedItem
<1>5. \A x \in DOMAIN rows : Port!StateOf(x) = Shown(rows[x])
  BY Facts
<1>6. ClashIn(rs, items, plans) = ClashOf(rs[i - 1], items[i].entry, NextRow(items, plans, i))
  BY DEF ClashIn, NextRow
<1>7. rs[n] = Raised
  OBVIOUS
<1>8. \A g, j : AfterItems(g, j) <=>
        /\ GoodTable(g, nextId)
        /\ DOMAIN g = DOMAIN rows \cup {items[l].entry : l \in 1..j}
        /\ \A l \in 1..j : Shown(g[items[l].entry]) = Port!Accepted(Port!StateOf(items[l].entry), items[l])
        /\ \A e \in DOMAIN rows : (\A l \in 1..j : items[l].entry # e) => g[e] = rows[e]
  BY DEF AfterItems
<1> HIDE DEF items, plans, n, i
<1>9. PICK m \in Bad : \A k \in Bad : m <= k
  <2>1. Bad \in SUBSET Nat /\ Bad # {}
    BY <1>1, <1>7
  <2> HIDE DEF Bad
  <2> QED
    BY <2>1, LeastIndex
<1>10. m \in 1..n /\ rs[m - 1] # Raised
  <2>1. rs[0] # Raised
    <3>1. rows # Raised
      BY <1>1, NotRaised DEF GoodTable
    <3> QED
      BY <1>1, <1>2, <3>1
  <2>2. m \in 1..n /\ m - 1 \in 0..n /\ ~(m <= m - 1)
    BY <1>1, <1>9, <2>1
  <2> QED
    BY <1>9, <2>2
<1>11. i \in 1..n /\ rs[i] = Raised /\ rs[i - 1] # Raised
  BY <1>1, <1>9, <1>10 DEF i
<1> DEFINE g == rs[i - 1]
           e == items[i].entry
           w == NextRow(items, plans, i)
<1>12. /\ i # 0 /\ i \in 0..n /\ i - 1 \in 0..n /\ i \in 1..n
       /\ \A j \in 1..(i - 1) : j \in 1..n
  BY <1>1, <1>11
<1>13. AfterItems(g, i - 1) /\ Put(g, e, w) = Raised
  BY <1>2, <1>11, <1>12
<1>14. GoodRow(w, nextId) /\ Shown(w) = Port!AcceptedOf(e) /\ e \in Entry
  BY <1>1, <1>2, <1>3, <1>12
<1>15. ClashIn(rs, items, plans) = ClashOf(g, e, w)
  BY <1>6
<1>16. /\ GoodTable(g, nextId)
       /\ DOMAIN g = DOMAIN rows \cup {items[l].entry : l \in 1..(i - 1)}
       /\ \A l \in 1..(i - 1) : Shown(g[items[l].entry]) = Port!Accepted(Port!StateOf(items[l].entry), items[l])
       /\ \A x \in DOMAIN rows : (\A l \in 1..(i - 1) : items[l].entry # x) => g[x] = rows[x]
  BY <1>8, <1>13
<1> HIDE DEF g, w
<1>17. PICK f \in DOMAIN g \ {e} : /\ Port!Shares(Shown(w), Shown(g[f]))
                                   /\ ClashOf(g, e, w) = Port!Clash(e, Shown(w), f, Shown(g[f]))
  <2> HIDE DEF e
  <2> QED
    BY <1>1, <1>13, <1>14, <1>16, PutRaises
<1>18. Shown(g[f]) \in {Port!StateOf(f), Port!AcceptedOf(f)}
       /\ f \in DOMAIN rows \cup {items[j].entry : j \in 1..n}
  <2>1. CASE \E l \in 1..(i - 1) : items[l].entry = f
    BY <1>3, <1>12, <1>16, <2>1
  <2>2. CASE ~\E l \in 1..(i - 1) : items[l].entry = f
    <3>1. f \in DOMAIN rows /\ g[f] = rows[f]
      BY <1>16, <1>17, <2>2
    <3> QED
      BY <1>5, <3>1
  <2> QED
    BY <2>1, <2>2
<1> QED
  BY <1>12, <1>14, <1>15, <1>17, <1>18 DEF items, plans, n

\* One that was overtaken too often gives up for a mutation that is newer than the accepted one.
LEMMA BatchOvertaken ==
    ASSUME StoreInv, Outdated(call.items, call.plans)
    PROVE  \E i \in DOMAIN call.items : LET s == Port!StateOf(call.items[i].entry) IN
              /\ s.dirty # None /\ s.dirty.id # call.items[i].mutation.id
              /\ Overtaken(call.items) = Port!Overtaken(call.items[i].entry)
<1> DEFINE items == call.items
           Newer(j) == LET m == Pending(RowOf(rows, items[j].entry)) IN
                       m # None /\ m.id # items[j].mutation.id
           i == CHOOSE j \in DOMAIN items : Newer(j)
<1>1. \E j \in DOMAIN items : Newer(j)
  BY DEF Outdated, MustRetry
<1>2. Overtaken(items) = Port!Overtaken(items[i].entry)
  BY DEF Overtaken, Port!Overtaken
<1>3. \A j : Pending(RowOf(rows, items[j].entry)) = Port!StateOf(items[j].entry).dirty
  <2> SUFFICES ASSUME NEW e PROVE Pending(RowOf(rows, e)) = Port!StateOf(e).dirty
    OBVIOUS
  <2>1. nextId \in Nat /\ GoodRow(RowOf(rows, e), nextId) /\ Shown(RowOf(rows, e)) = Port!StateOf(e)
    BY Facts
  <2>2. Pending(RowOf(rows, e)) = RowOf(rows, e).pending
    BY <2>1, RowParts
  <2>3. Shown(RowOf(rows, e)).dirty = RowOf(rows, e).pending
    BY <2>1, ShownNone
  <2> QED
    BY <2>1, <2>2, <2>3
<1>4. i \in DOMAIN items /\ Newer(i)
  <2> HIDE DEF Newer
  <2> QED
    BY <1>1
<1> HIDE DEF i
<1> QED
  BY <1>2, <1>3, <1>4

LEMMA BatchEnds ==
    ASSUME StoreInv, call' = NoCall, UNCHANGED <<rows, blobs, metadata, taken, nextId>>
    PROVE  StoreInv' /\ EntryStates' = EntryStates /\ call'.items = << >>
<1>1. GoodTable(rows, nextId)' /\ GoodTaken(rows, taken, nextId)' /\ Numbered'
  BY DEF StoreInv, Numbered
<1>2. GoodCall(call', rows', taken', nextId')
  BY DEF GoodCall, NoCall
<1>3. StoreInv'
  BY <1>1, <1>2 DEF StoreInv
<1> QED
  BY <1>3 DEF EntryStates, NoCall

LEMMA BatchKept == ASSUME StoreInv, ApplyBatch PROVE Kept
<1> DEFINE items == call.items
           plans == call.plans
           rs == AcceptedRows(items, plans)
           n == Len(items)
           t == rs[n]
<1>1. call.phase = "planned" /\ UNCHANGED <<metadata, taken, nextId>>
  BY DEF ApplyBatch
<1>2. /\ call = [phase |-> call.phase, items |-> items, plans |-> plans, attempt |-> call.attempt]
      /\ items \in Seq(Accepting) /\ items # << >> /\ call.attempt \in Nat /\ n \in Nat /\ DOMAIN items = 1..n
  BY <1>1 DEF StoreInv, GoodCall
<1>3. CASE Outdated(items, plans) /\ Retry
  <2>1. /\ call' = [call EXCEPT !.plans = Plans(items), !.attempt = @ + 1]
        /\ UNCHANGED <<rows, blobs, result>>
    BY <1>3 DEF Retry
  <2> DEFINE ps == Plans(items)
             a == call.attempt + 1
  <2>2. call' = [call EXCEPT !.plans = ps, !.attempt = a] /\ a \in Nat
    BY <1>2, <2>1
  <2> HIDE DEF ps, a
  <2>3. call' = [phase |-> "planned", items |-> items, plans |-> ps, attempt |-> a]
    BY <1>1, <1>2, <2>2
  <2> QED
    BY <1>1, <1>2, <2>1, <2>2, <2>3, Replanned DEF ps
<1>4. CASE Outdated(items, plans) /\ GiveUp(Overtaken(items))
  <2>1. call' = NoCall /\ result' = Overtaken(items) /\ UNCHANGED <<rows, blobs>>
    BY <1>4 DEF GiveUp
  <2>2. StoreInv' /\ EntryStates' = EntryStates /\ call'.items = << >>
    BY <1>1, <2>1, BatchEnds
  <2>3. PICK i \in DOMAIN items : LET s == Port!StateOf(items[i].entry) IN
              /\ s.dirty # None /\ s.dirty.id # items[i].mutation.id
              /\ Overtaken(items) = Port!Overtaken(items[i].entry)
    BY <1>4, BatchOvertaken
  <2>4. Port!RefuseBatch
    BY <1>1, <1>2, <2>1, <2>2, <2>3 DEF Port!RefuseBatch
  <2> QED
    BY <2>2, <2>4 DEF Kept, Port!PortNext
<1>6. CASE ~Outdated(items, plans) /\ t = Raised /\ GiveUp(ClashIn(rs, items, plans))
  <2>1. call' = NoCall /\ result' = ClashIn(rs, items, plans) /\ UNCHANGED <<rows, blobs>>
    BY <1>6 DEF GiveUp
  <2>2. StoreInv' /\ EntryStates' = EntryStates /\ call'.items = << >>
    BY <1>1, <2>1, BatchEnds
  <2>3. PICK i \in 1..Len(call.items) : LET e == call.items[i].entry IN
              \E f \in DOMAIN rows \cup {call.items[j].entry : j \in 1..Len(call.items)} :
                 /\ f # e
                 /\ \E s \in {Port!StateOf(f), Port!AcceptedOf(f)} :
                      /\ Port!Shares(Port!AcceptedOf(e), s)
                      /\ ClashIn(rs, call.items, call.plans) = Port!Clash(e, Port!AcceptedOf(e), f, s)
    <3>1. rs = AcceptedRows(call.items, call.plans) /\ ~Outdated(call.items, call.plans)
          /\ rs[Len(call.items)] = Raised
      BY <1>6
    <3> HIDE DEF rs
    <3> QED
      BY <1>1, <3>1, BatchClash
  <2> HIDE DEF rs, t
  <2>4. DOMAIN EntryStates = DOMAIN rows
    BY DEF EntryStates
  <2>5. Port!RefuseBatch
    BY <1>1, <1>2, <2>1, <2>2, <2>3, <2>4 DEF Port!RefuseBatch
  <2> QED
    BY <2>2, <2>5 DEF Kept, Port!PortNext
<1>5. CASE ~Outdated(items, plans) /\ t # Raised
  <2>1. /\ call' = NoCall /\ result' = NoError /\ rows' = t
        /\ \E S \in SUBSET ({i.mutation.hash : i \in ToSet(items)} \ {None}) : blobs' = blobs \cup S
    BY <1>5 DEF ApplyBatch
  <2>2. /\ GoodTable(t, nextId)
        /\ DOMAIN t = DOMAIN rows \cup {items[j].entry : j \in 1..n}
        /\ \A j \in 1..n : Shown(t[items[j].entry]) = Port!Accepted(Port!StateOf(items[j].entry), items[j])
        /\ \A e \in DOMAIN rows : (\A j \in 1..n : items[j].entry # e) => t[e] = rows[e]
    <3>1. rs = AcceptedRows(call.items, call.plans) /\ ~Outdated(call.items, call.plans) /\ t # Raised
      BY <1>5
    <3>2. n \in 0..n
      BY <1>2
    <3> HIDE DEF rs
    <3>3. AfterItems(t, n)
      BY <1>1, <3>1, <3>2, AcceptedTable
    <3> QED
      BY <3>3 DEF AfterItems
  <2> HIDE DEF t
  <2>3. PICK S \in SUBSET ({i.mutation.hash : i \in ToSet(items)} \ {None}) : blobs' = blobs \cup S
    BY <2>1
  <2>4. \A x \in S : x # None /\ \E j \in 1..n : x = items[j].mutation.hash
    <3>1. ToSet(items) = {items[j] : j \in 1..n}
      BY <1>2 DEF ToSet
    <3> HIDE DEF items, n
    <3> QED
      BY <3>1
  <2>5. \A j \in 1..n : items[j].mutation.hash \in Hash \cup {None}
    <3>1. \A j \in 1..n : items[j] \in Accepting
      BY <1>2
    <3> HIDE DEF items, n
    <3> QED
      BY <3>1 DEF Accepting, Mutation
  <2> HIDE DEF items, n
  <2>6. blobs' \subseteq Hash
    BY <2>3, <2>4, <2>5 DEF StoreInv
  <2>7. StoreInv'
    <3>1. GoodTable(rows, nextId)'
      BY <1>1, <2>1, <2>2
    <3>2. GoodCall(call', rows', taken', nextId')
      BY <2>1 DEF GoodCall, NoCall
    <3>3. GoodTaken(rows', taken', nextId')
      <4>1. GoodTaken(rows, taken, nextId) /\ nextId \in Nat /\ GoodTable(rows, nextId)
        BY DEF StoreInv, Numbered
      <4>2. SUFFICES ASSUME taken # None PROVE GoodTaken(t, taken, nextId)
        BY <1>1, <2>1 DEF GoodTaken
      <4> DEFINE e == taken.entry
                 m == RowOf(t, e).pending
                 old == RowOf(rows, e).pending
      <4>3. e \in Entry /\ (old # None /\ old.id = taken.mutation.id => old.path = taken.mutation.path)
        BY <4>1, <4>2 DEF GoodTaken
      <4>4. m = None \/ (old # None /\ m.id = old.id /\ m.path = old.path)
        <5>1. CASE e \in DOMAIN rows /\ \A j \in 1..n : items[j].entry # e
          BY <2>2, <5>1 DEF RowOf
        <5>2. CASE \E j \in 1..n : items[j].entry = e
          <6>1. PICK j \in 1..n : items[j].entry = e
            BY <5>2
          <6>2. e \in DOMAIN t /\ RowOf(t, e) = t[e] /\ GoodRow(t[e], nextId)
            BY <2>2, <6>1 DEF RowOf, GoodTable
          <6>3. m = Port!Accepted(Port!StateOf(e), items[j]).dirty
            <7>1. Shown(t[e]).dirty = t[e].pending
              BY <4>1, <6>2, ShownNone
            <7> QED
              BY <2>2, <6>1, <6>2, <7>1
          <6>4. Port!StateOf(e).dirty = old /\ old \in Mutation \cup {None}
            <7>1. GoodRow(RowOf(rows, e), nextId) /\ Shown(RowOf(rows, e)) = Port!StateOf(e)
              BY Facts
            <7> QED
              BY <4>1, <7>1, ShownNone, RowParts
          <6> HIDE DEF old, m
          <6>5. m = None \/ (old # None /\ m = RebasedFor(old, items[j]))
            BY <6>3, <6>4 DEF Port!Accepted, RebasedFor
          <6>6. old # None => RebasedFor(old, items[j]).id = old.id /\ RebasedFor(old, items[j]).path = old.path
            BY <6>4 DEF RebasedFor, Mutation
          <6> QED
            BY <6>5, <6>6
        <5>3. CASE e \notin DOMAIN t
          BY <5>3 DEF RowOf
        <5> QED
          BY <2>2, <5>1, <5>2, <5>3
      <4> HIDE DEF m, old, e
      <4>5. m # None /\ m.id = taken.mutation.id => m.path = taken.mutation.path
        BY <4>3, <4>4
      <4> QED
        BY <4>1, <4>2, <4>5 DEF GoodTaken, m, e
    <3> QED
      BY <1>1, <2>6, <3>1, <3>2, <3>3 DEF StoreInv, Numbered
  <2>8. EntryStates' = [e \in DOMAIN EntryStates \cup {items[i].entry : i \in DOMAIN items} |-> Port!AcceptedOf(e)]
    <3>1. EntryStates' = [e \in DOMAIN t |-> Shown(t[e])]
      BY <2>1 DEF EntryStates
    <3>2. DOMAIN t = DOMAIN EntryStates \cup {items[i].entry : i \in DOMAIN items}
      BY <1>2, <2>2 DEF EntryStates
    <3>3. ASSUME NEW e \in DOMAIN t PROVE Shown(t[e]) = Port!AcceptedOf(e)
      <4>1. CASE \E j \in 1..n : items[j].entry = e
        <5>1. PICK j \in 1..n : items[j].entry = e
          BY <4>1
        <5>2. Port!AcceptedOf(items[j].entry) = Port!Accepted(Port!StateOf(items[j].entry), items[j])
          BY AcceptedItem DEF items, n
        <5> QED
          BY <2>2, <5>1, <5>2
      <4>2. CASE \A j \in 1..n : items[j].entry # e
        <5>1. e \in DOMAIN rows /\ t[e] = rows[e]
          BY <2>2, <4>2
        <5>2. Port!AcceptedOf(e) = Shown(rows[e])
          BY <4>2, <5>1, UnacceptedItem DEF items, n
        <5> QED
          BY <5>1, <5>2
      <4> QED
        BY <4>1, <4>2
    <3> QED
      BY <3>1, <3>2, <3>3
  <2>11. \A e, f \in DOMAIN EntryStates' : e # f => ~Port!Shares(EntryStates'[e], EntryStates'[f])
    <3>1. EntryStates' = ShownAll(t)
      BY <2>1 DEF EntryStates, ShownAll
    <3>2. nextId \in Nat
      BY DEF StoreInv, Numbered
    <3> QED
      BY <2>2, <3>1, <3>2, TableApart
  <2>9. \E T \in SUBSET {items[i].mutation.hash : i \in DOMAIN items} : blobs' = blobs \cup (T \ {None})
    <3>1. S \in SUBSET {items[i].mutation.hash : i \in DOMAIN items} /\ S \ {None} = S
      BY <1>2, <2>4
    <3> QED
      BY <2>3, <3>1
  <2>10. Port!BatchApplied
    <3>1. call'.items = << >>
      BY <2>1 DEF NoCall
    <3> QED
      BY <1>1, <1>2, <2>1, <2>8, <2>9, <2>11, <3>1
         DEF Port!BatchApplied, Port!Done, NoError, Port!NoError, items
  <2> QED
    BY <2>7, <2>10 DEF Kept, Port!PortNext
<1>7. \/ Outdated(items, plans) /\ (Retry \/ GiveUp(Overtaken(items)))
      \/ ~Outdated(items, plans) /\ t = Raised /\ GiveUp(ClashIn(rs, items, plans))
      \/ ~Outdated(items, plans) /\ t # Raised
  BY DEF ApplyBatch
<1> QED
  BY <1>3, <1>4, <1>5, <1>6, <1>7

LEMMA StoreStarts == StoreInit => StoreInv /\ Port!PortInit
<1> SUFFICES ASSUME StoreInit PROVE StoreInv /\ Port!PortInit
  OBVIOUS
<1>1. /\ rows = << >> /\ blobs = {} /\ metadata = None /\ call = NoCall /\ taken = None
      /\ result = NoError /\ nextId = 1
  BY DEF StoreInit
<1>2. GoodTable(rows, nextId)
  <2>1. DOMAIN rows = {} /\ rows = [e \in DOMAIN rows |-> rows[e]]
    BY <1>1
  <2> QED
    BY <2>1 DEF GoodTable
<1>3. GoodCall(call, rows, taken, nextId) /\ GoodTaken(rows, taken, nextId)
  BY <1>1 DEF GoodCall, GoodTaken, NoCall
<1>4. Numbered
  BY <1>1, SqliteStoreAssumption DEF Numbered
<1>5. EntryStates = << >> /\ call.items = << >>
  BY <1>1 DEF EntryStates, NoCall
<1> QED
  BY <1>1, <1>2, <1>3, <1>4, <1>5 DEF StoreInv, Port!PortInit, NoError, Port!NoError

LEMMA StoreSteps == ASSUME StoreInv, [StoreNext]_storeVars PROVE Kept
<1>1. CASE UNCHANGED storeVars
  <2>1. UNCHANGED <<rows, blobs, metadata, call, taken, result, nextId>>
    BY <1>1 DEF storeVars
  <2>2. EntryStates' = EntryStates
    BY <2>1 DEF EntryStates
  <2>3. /\ GoodTable(rows, nextId)' /\ GoodCall(call, rows, taken, nextId)'
        /\ GoodTaken(rows, taken, nextId)' /\ Numbered'
    BY <2>1 DEF StoreInv, Numbered
  <2>4. StoreInv'
    BY <2>1, <2>3 DEF StoreInv
  <2> QED
    BY <2>1, <2>2, <2>4 DEF Kept, Port!portVars
<1>2. CASE StoreNext
  BY <1>2, EnsureKept, RemoteKept, LocalKept, ClearKept, UpsertKept, DeleteKept, MarkKept, TakeKept, BlockKept,
     UnblockKept, CleanKept, ReconcileKept, BlobKept, ConnectionKept, PushKept, PlanKept, BatchKept
     DEF StoreNext
<1> QED
  BY <1>1, <1>2

-----------------------------------------------------------------------------
(* What holds of the store. *)

LEMMA StoreTypes == StoreInv => StoreTypeOK
<1> SUFFICES ASSUME StoreInv PROVE StoreTypeOK
  OBVIOUS
<1>1. nextId \in Nat /\ GoodTable(rows, nextId) /\ GoodCall(call, rows, taken, nextId) /\ Numbered
      /\ blobs \subseteq Hash /\ metadata \in {None} \cup 0..MaxRev
  BY DEF StoreInv, Numbered
<1>2. ASSUME NEW e \in DOMAIN rows
      PROVE  LET r == rows[e] IN
          /\ r.dirty <=> r.pending # None
          /\ r.remoteKey \in Path \cup {None} /\ r.localKey \in Path \cup {None}
          /\ ~r.remote.known => r.remote.rev = 0 /\ r.remote.path = None
          /\ r.dirty => r.pending.id < nextId /\ r.pending.rev = r.base.rev
  <2> DEFINE r == rows[e]
  <2>1. GoodRow(r, nextId)
    BY <1>1, <1>2 DEF GoodTable
  <2> HIDE DEF r
  <2>2. r.dirty \in BOOLEAN /\ r.remoteKey \in Path \cup {None} /\ r.localKey \in Path \cup {None}
        /\ r.remote.known \in BOOLEAN
    BY <2>1 DEF GoodRow, Row, Names, RemoteSide
  <2>3. r.remote.known = FALSE => r.remote.rev = 0 /\ r.remote.path = None
    BY <2>1 DEF GoodRow, NoRemote
  <2>4. /\ r.dirty = TRUE <=> r.pending # None
        /\ r.dirty = TRUE => r.pending.id < nextId /\ r.pending.rev = r.base.rev
    BY <2>1 DEF GoodRow, GoodPending
  <2> QED
    BY <2>2, <2>3, <2>4 DEF r
<1>3. /\ call.phase = "planned" <=> Len(call.plans) > 0
      /\ call.phase = "planned" => Len(call.plans) = Len(call.items)
  <2>1. CASE call.phase = "planned"
    <3>1. call.items \in Seq(Accepting) /\ call.items # << >> /\ Len(call.plans) = Len(call.items)
      BY <1>1, <2>1 DEF GoodCall
    <3>2. Len(call.items) > 0
      BY <3>1
    <3> QED
      BY <2>1, <3>1, <3>2
  <2>2. CASE call.phase # "planned"
    <3>1. call.plans = << >>
      BY <1>1, <2>2 DEF GoodCall
    <3> QED
      BY <2>2, <3>1
  <2> QED
    BY <2>1, <2>2
<1>4. taken # None => taken.entry \in Entry /\ taken.mutation.id < nextId
  BY DEF StoreInv, GoodTaken, Readable
<1> QED
  BY <1>1, <1>2, <1>3, <1>4 DEF StoreTypeOK, GoodTable, Numbered

LEMMA StoreOpens == StoreInv => MetadataOpens
<1> SUFFICES ASSUME StoreInv, NEW e \in DOMAIN rows, rows[e].dirty
             PROVE  rows[e].pending.forRev = rows[e].pending.rev + 1
  BY DEF MetadataOpens
<1> DEFINE r == rows[e]
<1>1. GoodRow(r, nextId)
  BY DEF StoreInv, GoodTable
<1> HIDE DEF r
<1>2. r.dirty \in BOOLEAN
  BY <1>1 DEF GoodRow, Row
<1>3. r.dirty = TRUE
  BY <1>2 DEF r
<1> QED
  BY <1>1, <1>3 DEF GoodRow, GoodPending, r

LEMMA AtMostOne ==
    ASSUME NEW S, \A x, y \in S : x = y
    PROVE  Cardinality(S) <= 1
<1>1. CASE S = {}
  BY <1>1, FS_EmptySet
<1>2. CASE S # {}
  <2>1. PICK x \in S : TRUE
    BY <1>2
  <2>2. S = {x}
    BY <2>1
  <2>3. Cardinality(S) = 1
    BY <2>2, FS_Singleton
  <2> QED
    BY <2>3
<1> QED
  BY <1>1, <1>2

LEMMA StoreAgrees == StoreInv => QueriesAgree
<1> SUFFICES ASSUME StoreInv PROVE QueriesAgree
  OBVIOUS
<1>1. nextId \in Nat /\ GoodTable(rows, nextId)
  BY DEF StoreInv, Numbered
<1>2. DOMAIN EntryStates = DOMAIN rows /\ \A e \in DOMAIN rows : EntryStates[e] = Shown(rows[e])
  BY DEF EntryStates
<1>3. ASSUME NEW e \in DOMAIN rows
      PROVE  LET r == rows[e] s == EntryStates[e] IN
           /\ \A p \in Path : r.localKey = p <=> Port!Visible(s.local, p)
           /\ \A p \in Path : r.remoteKey = p <=> Port!Visible(s.remote, p)
           /\ \A p \in Path : (~r.local.known \/ r.local.path = p) <=> (s.local = None \/ s.local.path = p)
           /\ s.dirty = r.pending /\ Pending(r) = r.pending
           /\ ~RowDeleted(r) <=> (Port!Shown(s) # None /\ ~Port!Shown(s).deleted)
           /\ (r.remote.known /\ r.remote.rev > 0) <=> (s.remote # None /\ s.remote.rev > 0)
  <2> DEFINE r == rows[e]
             s == EntryStates[e]
  <2>1. GoodRow(r, nextId) /\ Keyed(r) /\ s = Shown(r)
    BY <1>1, <1>2 DEF GoodTable
  <2> HIDE DEF r, s
  <2>2. /\ \A p \in Path : r.localKey = p <=> Port!Visible(s.local, p)
        /\ \A p \in Path : r.remoteKey = p <=> Port!Visible(s.remote, p)
        /\ \A p \in Path : (~r.local.known \/ r.local.path = p) <=> (s.local = None \/ s.local.path = p)
        /\ s.dirty = r.pending /\ Pending(r) = r.pending
        /\ ~RowDeleted(r) <=> (Port!Shown(s) # None /\ ~Port!Shown(s).deleted)
        /\ (r.remote.known /\ r.remote.rev > 0) <=> (s.remote # None /\ s.remote.rev > 0)
    BY <1>1, <2>1, RowAnswers
  <2> QED
    BY <2>2 DEF r, s
<1>4. ASSUME NEW p \in Path
      PROVE  OwnersOf(rows, p) = Port!EntryByPath(p) /\ Cardinality(OwnersOf(rows, p)) <= 1
  <2> DEFINE local == {e \in DOMAIN rows : rows[e].localKey = p}
             remote == {e \in DOMAIN rows : rows[e].remoteKey = p}
             holders == {e \in remote : ~rows[e].local.known \/ rows[e].local.path = p}
  <2>1. OwnersOf(rows, p) = IF local # {} THEN local ELSE holders
    BY DEF OwnersOf
  <2>2. local = {e \in DOMAIN EntryStates : Port!Visible(EntryStates[e].local, p)}
    BY <1>2, <1>3
  <2>3. remote = {e \in DOMAIN EntryStates : Port!Visible(EntryStates[e].remote, p)}
    BY <1>2, <1>3
  <2>4. holders = {e \in remote : EntryStates[e].local = None \/ EntryStates[e].local.path = p}
    BY <1>3
  <2>5. p # None
    BY SqliteStoreAssumption
  <2>6. \A e, f \in local : e = f
    BY <1>1, <2>5 DEF GoodTable, Collides
  <2>7. \A e, f \in holders : e = f
    BY <1>1, <2>5 DEF GoodTable, Collides
  <2>8. Port!EntryByPath(p) = IF local # {} THEN local ELSE holders
    BY <2>2, <2>3, <2>4 DEF Port!EntryByPath
  <2> HIDE DEF local, remote, holders
  <2>9. Cardinality(local) <= 1 /\ Cardinality(holders) <= 1
    BY <2>6, <2>7, AtMostOne
  <2> QED
    BY <2>1, <2>8, <2>9
<1>5. Queued = Port!Listed("pending") /\ Blocked = Port!Listed("blocked")
  BY <1>2, <1>3 DEF Queued, Blocked, Port!Listed
<1>6. Counted = Port!Counted
  BY <1>2, <1>3 DEF Counted, Port!Counted
<1>7. Completed = Port!Completed
  <2>1. \A e \in DOMAIN rows : e \in Completed <=>
            Pending(rows[e]) = None /\ ~RowDeleted(rows[e]) /\ rows[e].remote.known /\ rows[e].remote.rev > 0
    BY DEF Completed
  <2>2. \A e \in DOMAIN rows : e \in Port!Completed <=>
            e \in Port!Counted /\ EntryStates[e].remote # None /\ EntryStates[e].remote.rev > 0
            /\ EntryStates[e].dirty = None
    BY <1>6 DEF Port!Completed, Counted
  <2>3. \A e \in DOMAIN rows : e \in Port!Counted <=> Pending(rows[e]) # None \/ ~RowDeleted(rows[e])
    BY <1>6 DEF Counted
  <2>4. Completed \subseteq DOMAIN rows /\ Port!Completed \subseteq DOMAIN rows
    BY <1>6 DEF Completed, Counted, Port!Completed
  <2>5. \A e \in DOMAIN rows : e \in Completed <=> e \in Port!Completed
    BY <1>3, <2>1, <2>2, <2>3
  <2> QED
    BY <2>4, <2>5
<1> QED
  BY <1>4, <1>5, <1>6, <1>7 DEF QueriesAgree

LEMMA StoreInvariance == StoreInit /\ [][StoreNext]_storeVars => []StoreInv
<1>1. StoreInit => StoreInv
  BY StoreStarts
<1>2. StoreInv /\ [StoreNext]_storeVars => StoreInv'
  BY StoreSteps DEF Kept
<1> QED
  BY <1>1, <1>2, PTL

(* Rows, blobs, cursor and the call in progress are always what they can be: *)
(* a row's flags and its pending columns agree, a prepared call has a plan   *)
(* for every item (schema.ts, entry-record.ts).                              *)
THEOREM StoreTypeCorrect == StoreSpec => []StoreTypeOK
  BY StoreTypes, StoreInvariance, PTL DEF StoreSpec

(* The metadata of every pending mutation is encrypted for the revision it   *)
(* makes, through acceptances of older mutations and plans that race newer   *)
(* ones (planAcceptedPushApply, applyAcceptedPushToEntry).                   *)
THEOREM MetadataStaysReadable == StoreSpec => []MetadataOpens
  BY StoreOpens, StoreInvariance, PTL DEF StoreSpec

(* The SQLite store keeps the sync store's promise: every call has the       *)
(* effect the reference's has, or throws for a reason that is there and has  *)
(* none, and in between the queries by column answer as the reference's do.  *)
(* It is the port with MovesBase: a mutation the reconcile queues moves the  *)
(* base, which the reference leaves (in-memory-sync-store.ts,                *)
(* toDirtyRecord).                                                           *)
THEOREM StoreImplementsPort == StoreSpec => StoreKeepsPromise
<1>1. StoreInit => Port!PortInit
  BY StoreStarts
<1>2. StoreInv /\ [StoreNext]_storeVars => [Port!PortNext]_(Port!portVars)
  BY StoreSteps DEF Kept
<1> QED
  BY <1>1, <1>2, StoreAgrees, StoreInvariance, PTL DEF StoreSpec, StoreKeepsPromise, Port!PortSpec

-----------------------------------------------------------------------------
(* The three parts as one run explores them: they share no state, so what    *)
(* holds of each holds of them together (the processes of apps/cli/src).     *)
THEOREM HostTypeCorrect == Spec => []TypesOK
<1>1. Init => LockInit /\ WatchInit /\ StoreInit
  BY DEF Init
<1>2. [Next]_vars => [LockNext]_lockVars /\ [WatchNext]_watchVars /\ [StoreNext]_storeVars
  BY DEF Next, vars
<1> QED
  BY <1>1, <1>2, LockTypeInit, LockTypeNext, WatchTypeHolds, WatchInvariance, StoreTypes, StoreInvariance, PTL
     DEF Spec, TypesOK

=============================================================================
