------------------------------- MODULE MCHost -------------------------------
(***************************************************************************)
(* What the command line program adds, for TLC: the lock of the vault, the *)
(* watching of its files, and the SQLite store.  They share no state, so   *)
(* one run explores one of them at a time: part says which, and the others *)
(* stay as they began.                                                     *)
(***************************************************************************)
EXTENDS VaultLock, VaultWatch, SqliteStore

VARIABLE part

vars == <<part, lockVars, watchVars, storeVars>>

Init ==
    /\ part \in {"lock", "watch", "store"}
    /\ LockInit /\ WatchInit /\ StoreInit
    /\ part # "lock" => named = Nothing
    /\ part # "watch" => recorded = disk

Next ==
    \/ part = "lock" /\ LockNext /\ UNCHANGED <<part, watchVars, storeVars>>
    \/ part = "watch" /\ WatchNext /\ UNCHANGED <<part, lockVars, storeVars>>
    \/ part = "store" /\ StoreNext /\ UNCHANGED <<part, lockVars, watchVars>>

Spec == Init /\ [][Next]_vars /\ WatchFairness
-----------------------------------------------------------------------------
(* The types of the three parts. *)
TypesOK == LockTypeOK /\ WatchTypeOK /\ StoreTypeOK
=============================================================================
