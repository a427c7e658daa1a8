---------------------------- MODULE MCLifecycle ----------------------------
(* One placement; skip is left to the outcomes of the longer runs: it is     *)
(* complete under another name, and cancel is the second way to finish.      *)
EXTENDS ExecutionLifecycle

MCActions == {"start", "pause", "resume", "complete", "cancel", "reopen"}
MCOutcomes == {"pending", "completed"}

=============================================================================
