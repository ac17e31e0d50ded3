--------------------------- MODULE MCAutoSyncLoop ---------------------------
(* Instances of AutoSyncLoop for TLC: every constant is a bound. *)
EXTENDS AutoSyncLoop
=============================================================================
