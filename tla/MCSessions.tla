----------------------------- MODULE MCSessions -----------------------------
(* The loop and one job of a page.                                           *)
EXTENDS NativeSessions, TLC

CONSTANTS loop, page

\* Threads are interchangeable: each may synchronize or make another call.
ThreadSymmetry == Permutations(Threads)
=============================================================================
