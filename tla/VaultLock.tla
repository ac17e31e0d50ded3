----------------------------- MODULE VaultLock -----------------------------
(***************************************************************************)
(* The lock file that keeps two processes from synchronising one vault.    *)
(* It is created exclusively, and filled with its owner's pid in a second  *)
(* step.  A process that finds a file whose owner is dead, or that names   *)
(* no owner, moves the file aside and looks again at what it has moved.    *)
(*                                                                         *)
(* Files are inodes: a name may be taken away from a file while its owner  *)
(* still writes to it.  A process creates at most one lock file, so its    *)
(* inode carries its name.  A pid is not used again.                       *)
(***************************************************************************)
EXTENDS Naturals

CONSTANTS
    Contender,  \* processes that try to synchronise the vault
    Gone,       \* a process that died with the lock
    Nothing     \* no file, or no pid in it

ASSUME VaultLockAssumption ==
    Gone \notin Contender /\ Nothing \notin Contender /\ Gone # Nothing

VARIABLES
    named,    \* the inode that has the name of the lock file
    content,  \* the pid each inode holds
    aside,    \* the inode each contender has moved aside
    at,       \* where each contender is
    tries,    \* its attempts
    alive,    \* the processes that live
    breached  \* history: an owner's file was taken for stale, or lost its name to another

lockVars == <<named, content, aside, at, tries, alive, breached>>

Proc == Contender \cup {Gone}
MaxAttempts == 2
Place == {"open", "write", "look", "move", "check", "restore", "dropRestored",
          "drop", "holds", "refused", "gaveUp", "released", "dead"}

LockInit ==
    /\ named \in {Nothing, Gone}
    /\ content = [p \in Proc |-> IF p = named THEN Gone ELSE Nothing]
    /\ aside = [p \in Contender |-> Nothing]
    /\ at = [p \in Contender |-> "open"]
    /\ tries = [p \in Contender |-> 1]
    /\ alive = Contender /\ breached = FALSE

ReadPid(inode) == IF inode = Nothing THEN Nothing ELSE content[inode]

(* A process that has created the lock file and not given it up. *)
Owner(p) == p \in Contender /\ at[p] \in {"write", "holds"}

(* The name goes to a file while an owner's is aside. *)
Displaces(inode) == \E q \in Contender : aside[q] # inode /\ Owner(aside[q])

Goto(p, place) == at' = [at EXCEPT ![p] = place]

(* A lost race: try again, or give up. *)
OneTry(p) ==  \* Not the code: the loop ends one attempt early.
    Goto(p, "gaveUp") /\ UNCHANGED tries

NextTry(p) ==
    IF tries[p] < MaxAttempts
    THEN tries' = [tries EXCEPT ![p] = @ + 1] /\ Goto(p, "open")
    ELSE Goto(p, "gaveUp") /\ UNCHANGED tries

Open(p) ==
    /\ at[p] = "open"
    /\ IF named = Nothing
       THEN named' = p /\ breached' = (breached \/ Displaces(p)) /\ Goto(p, "write")
       ELSE Goto(p, "look") /\ UNCHANGED <<named, breached>>
    /\ UNCHANGED <<content, aside, tries, alive>>

WritePid(p) ==
    /\ at[p] = "write"
    /\ content' = [content EXCEPT ![p] = p]
    /\ Goto(p, "holds")
    /\ UNCHANGED <<named, aside, tries, alive, breached>>

Look(p) ==
    /\ at[p] = "look"
    /\ Goto(p, IF ReadPid(named) \in alive THEN "refused" ELSE "move")
    /\ UNCHANGED <<named, content, aside, tries, alive, breached>>

Move(p) ==
    /\ at[p] = "move"
    /\ IF named = Nothing
       THEN NextTry(p) /\ UNCHANGED <<named, aside>>
       ELSE /\ aside' = [aside EXCEPT ![p] = named]
            /\ named' = Nothing
            /\ Goto(p, "check") /\ UNCHANGED tries
    /\ UNCHANGED <<content, alive, breached>>

CheckNothing(p) ==  \* Not the code: what was moved is not looked at again.
    /\ at[p] = "check"
    /\ Goto(p, "drop")
    /\ UNCHANGED <<named, content, aside, tries, alive, breached>>

Check(p) ==
    /\ at[p] = "check"
    /\ Goto(p, IF ReadPid(aside[p]) \in alive THEN "restore" ELSE "drop")
    /\ breached' = (breached \/ (Owner(aside[p]) /\ ReadPid(aside[p]) = Nothing))
    /\ UNCHANGED <<named, content, aside, tries, alive>>

(* link() gives the file its name back unless another has taken it. *)
Restore(p) ==
    /\ at[p] = "restore"
    /\ named' = IF named = Nothing THEN aside[p] ELSE named
    /\ breached' = (breached \/ (named = Nothing /\ Displaces(aside[p])))
    /\ Goto(p, "dropRestored")
    /\ UNCHANGED <<content, aside, tries, alive>>

DropRestored(p) ==
    /\ at[p] = "dropRestored"
    /\ aside' = [aside EXCEPT ![p] = Nothing]
    /\ Goto(p, "refused")
    /\ UNCHANGED <<named, content, tries, alive, breached>>

DropAside(p) ==
    /\ at[p] = "drop"
    /\ aside' = [aside EXCEPT ![p] = Nothing]
    /\ NextTry(p)
    /\ UNCHANGED <<named, content, alive, breached>>

(* release() removes the name, whatever file has it by now. *)
Release(p) ==
    /\ at[p] = "holds"
    /\ named' = Nothing
    /\ Goto(p, "released")
    /\ UNCHANGED <<content, aside, tries, alive, breached>>

Die(p) ==
    /\ at[p] \notin {"refused", "gaveUp", "released", "dead"}
    /\ alive' = alive \ {p}
    /\ Goto(p, "dead")
    /\ UNCHANGED <<named, content, aside, tries, breached>>

Acquire(p) ==
    \/ Open(p) \/ WritePid(p) \/ Look(p) \/ Move(p) \/ Check(p)
    \/ Restore(p) \/ DropRestored(p) \/ DropAside(p)

LockNext == \E p \in Contender : Acquire(p) \/ Release(p) \/ Die(p)

LockSpec == LockInit /\ [][LockNext]_lockVars
-----------------------------------------------------------------------------
LockTypeOK ==
    /\ named \in Proc \cup {Nothing}
    /\ content \in [Proc -> Proc \cup {Nothing}]
    /\ aside \in [Contender -> Proc \cup {Nothing}]
    /\ at \in [Contender -> Place]
    /\ tries \in [Contender -> 1..MaxAttempts]
    /\ alive \subseteq Contender /\ breached \in BOOLEAN

(***************************************************************************)
(* Two live processes never both believe that the vault is theirs (class   *)
(* comment of VaultLock).  It fails: the file is empty for a moment, and a *)
(* contender takes it for stale; and a third contender may create the file *)
(* while another has a live owner's aside.                                 *)
(***************************************************************************)
OneHolder ==
    \A p, q \in Contender : at[p] = "holds" /\ at[q] = "holds" => p = q

(***************************************************************************)
(* These two windows are the only ones: as long as no owner's file was     *)
(* dropped while it was empty, nor another given the name while an owner's *)
(* was aside, one process at most has the lock, whoever finds a stale file *)
(* and moves away what has replaced it, releases or dies.                  *)
(***************************************************************************)
OneHolderUnlessBreached == breached \/ OneHolder

(***************************************************************************)
(* A stale file never locks everybody out: when all contenders have come   *)
(* to an end and none died on the way, one of them had the lock.           *)
(***************************************************************************)
SomebodyWins ==
    Contender # {} => \E p \in Contender : at[p] \notin {"refused", "gaveUp"}
=============================================================================
