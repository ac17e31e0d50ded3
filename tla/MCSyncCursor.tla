---------------------------- MODULE MCSyncCursor ----------------------------
(* Instances of SyncCursor for TLC. *)
EXTENDS SyncCursor, TLC

\* Entries differ only by their changes.
EntrySymmetry == Permutations(Entry)
=============================================================================
