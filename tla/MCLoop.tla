------------------------------- MODULE MCLoop -------------------------------
(* Small instances of SyncLoop for TLC. *)
EXTENDS SyncLoop
=============================================================================
