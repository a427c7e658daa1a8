----------------------------- MODULE MCWorkers -----------------------------
(* Small instances of WorkerRegistry for TLC. *)
EXTENDS WorkerRegistry

CONSTANTS writes, load

\* A storage write, a read of one topic, and a job that is neither.
KindsDef == {[lane |-> writes, topic |-> Nothing],
             [lane |-> Nothing, topic |-> load],
             [lane |-> Nothing, topic |-> Nothing]}
=============================================================================
