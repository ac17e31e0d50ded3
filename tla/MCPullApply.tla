---------------------------- MODULE MCPullApply ----------------------------
(* The pull of several entries, for TLC.  Entries are alike. *)
EXTENDS PullApply, TLC

EntrySymmetry == Permutations(Entry)
=============================================================================
