----------------------------- MODULE MCEntrySync -----------------------------
(* Instances of EntrySync for TLC. *)
EXTENDS EntrySync, TLC

\* The contents are interchangeable wherever no file size limit names one.
ContentSymmetry == Permutations(Content)
=============================================================================
