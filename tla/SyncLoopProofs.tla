--------------------------- MODULE SyncLoopProofs ---------------------------
(***************************************************************************)
(* What holds of SyncLoop for any records, edits and failures.             *)
(*                                                                         *)
(* A wake-up sets its flag before the nudge, and the loop clears the nudge *)
(* before it reads the flag: so from the beginning of a run to the end of  *)
(* the wait after it, who asked for a run is in the flag (Flagged), and in *)
(* the nudge or about to be (Coming), until the loop takes the nudge to    *)
(* read the flag.  The connection is closed after stop saw the loop's      *)
(* thread end, and a thread that ended stays so (Closing).                 *)
(***************************************************************************)
EXTENDS SyncLoop, FiniteSetTheorems, TLAPS

Nudging == ui \in {"nudge", "stop wakes", "stop nudges"}
Asleep == loop.at \in {"lock", "syncing", "plan", "look", "wait", "check", "count"}

Flagged == asked /\ (Asleep \/ loop.at = "woken") => wake
Coming ==
    /\ asked /\ Asleep => nudge \/ Nudging
    /\ stop /\ loop.at = "wait" => nudge \/ Nudging
Closing ==
    /\ stopped => loop.at = "ended"
    /\ closed => ui = "done" /\ job = "none" /\ loop.at = "ended"
IInv == TypeOK /\ Flagged /\ Coming /\ Closing

-----------------------------------------------------------------------------
LEMMA CountOK ==
    ASSUME pending \subseteq Records
    PROVE  Cardinality(pending) \in 0 .. Cardinality(Records)
  BY LoopAssumption, FS_Subset, FS_CardinalityType

LEMMA Bounded ==
    /\ 0 \in 0 .. MaxEdits /\ 0 \in 0 .. MaxFaults
    /\ \A n \in 0 .. MaxEdits : n < MaxEdits => n + 1 \in 0 .. MaxEdits
    /\ \A n \in 0 .. MaxFaults : n < MaxFaults => n + 1 \in 0 .. MaxFaults
  BY LoopAssumption

LEMMA InitInv == Init => IInv
  <1> SUFFICES ASSUME Init PROVE IInv
    OBVIOUS
  <1>1. loop \in LoopStates
    BY DEF Init, LoopStates, Activities
  <1>2. TypeOK
    <2>1. commits \in 0 .. MaxEdits /\ faults \in 0 .. MaxFaults
      BY Bounded DEF Init
    <2>2. run \in Runs /\ run.by = "nobody" /\ run.at = "none" /\ loop.at = "plan"
      BY DEF Init, NoRun, Runs
    <2> QED
      BY <1>1, <2>1, <2>2 DEF Init, TypeOK, Activities, UiStates
  <1>3. Flagged /\ Coming /\ Closing
    BY DEF Init, Flagged, Coming, Closing
  <1> QED
    BY <1>2, <1>3 DEF IInv

\* A commit keeps the loop where it is, and never takes a nudge away.
LEMMA ListenerKeeps ==
    ASSUME TypeOK, NEW next \in LoopStates, Listener(next)
    PROVE  /\ loop' \in LoopStates /\ loop'.at = next.at
           /\ edited' \in {"no", "just now", "settled"} /\ nudge' \in BOOLEAN /\ (nudge => nudge')
  <1>1. CASE stop
    BY <1>1 DEF Listener, TypeOK
  <1>2. CASE ~stop
    <2>1. loop' = [next EXCEPT !.edited = IF @ = "same" THEN "older" ELSE @]
      BY <1>2 DEF Listener
    <2>2. loop' \in LoopStates /\ loop'.at = next.at
      BY <2>1 DEF LoopStates
    <2> QED
      BY <1>2, <2>2 DEF Listener
  <1> QED
    BY <1>1, <1>2

\* What changes in a step of a run: its stage, the records, and the listener's fields.
LEMMA SameLoop ==
    ASSUME TypeOK
    PROVE  /\ loop \in LoopStates /\ edited \in {"no", "just now", "settled"} /\ nudge \in BOOLEAN
           /\ run \in Runs
  BY DEF TypeOK

-----------------------------------------------------------------------------
(* Runs and commits.                                                        *)

LEMMA RunTypes ==
    ASSUME IInv, RunStep \/ Fail \/ SyncNow \/ \E r \in Records : Edit(r)
    PROVE  TypeOK'
  <1> USE DEF IInv, records, events, closing, bounds
  <1>1. ASSUME NEW r \in Records, Edit(r) PROVE TypeOK'
    <2>1. /\ loop' \in LoopStates /\ loop'.at = loop.at
          /\ edited' \in {"no", "just now", "settled"} /\ nudge' \in BOOLEAN
      BY <1>1, SameLoop, ListenerKeeps DEF Edit
    <2>2. commits' \in 0 .. MaxEdits
      BY <1>1, Bounded DEF Edit, TypeOK
    <2> QED
      BY <1>1, <2>1, <2>2 DEF Edit, TypeOK
  <1>2. CASE TakeLock
    <2>1. CASE loop.at = "lock" /\ run' = [by |-> "loop", at |-> "prepare"] /\ At("syncing") /\ UNCHANGED job
      <3>1. loop' \in LoopStates /\ loop'.at = "syncing"
        BY <2>1, SameLoop DEF At, LoopStates
      <3> QED
        BY <1>2, <2>1, <3>1, ZenonT(60) DEF TakeLock, TypeOK, NoRun, Runs
    <2>2. CASE job = "lock" /\ run' = [by |-> "job", at |-> "prepare"] /\ job' = "syncing" /\ UNCHANGED loop
      BY <1>2, <2>2, ZenonT(60) DEF TakeLock, TypeOK, NoRun, Runs
    <2> QED
      BY <1>2, <2>1, <2>2 DEF TakeLock
  <1>3. CASE Prepare
    <2>1. /\ loop' \in LoopStates /\ loop'.at = loop.at
          /\ edited' \in {"no", "just now", "settled"} /\ nudge' \in BOOLEAN
      BY <1>3, SameLoop, ListenerKeeps DEF Prepare
    <2>2. run' \in Runs /\ run'.by = run.by /\ run'.at # "none" /\ run.at # "none"
      BY <1>3, SameLoop DEF Prepare, Step, Runs
    <2> QED
      BY <1>3, <2>1, <2>2 DEF Prepare, TypeOK
  <1>4. CASE Push
    <2>1. /\ loop' \in LoopStates /\ loop'.at = loop.at
          /\ edited' \in {"no", "just now", "settled"} /\ nudge' \in BOOLEAN
      BY <1>4, SameLoop, ListenerKeeps DEF Push
    <2>2. run' \in Runs /\ run'.by = run.by /\ run'.at # "none" /\ run.at # "none"
      BY <1>4, SameLoop DEF Push, Step, Runs
    <2>3. stuck' \subseteq pending' /\ unseen' \subseteq pending' /\ pending' \subseteq Records
      BY <1>4 DEF Push, LeftPending, TypeOK
    <2> QED
      BY <1>4, <2>1, <2>2, <2>3 DEF Push, TypeOK
  <1>5. CASE Pull
    <2>1. /\ loop' \in LoopStates /\ loop'.at = loop.at
          /\ edited' \in {"no", "just now", "settled"} /\ nudge' \in BOOLEAN
      BY <1>5, SameLoop, ListenerKeeps DEF Pull
    <2>2. run' \in Runs /\ run'.by = run.by /\ run'.at # "none" /\ run.at # "none"
      BY <1>5, SameLoop DEF Pull, Step, Runs
    <2> QED
      BY <1>5, <2>1, <2>2 DEF Pull, TypeOK
  <1>6. CASE Fail
    <2>1. /\ loop' \in LoopStates /\ loop'.at = loop.at
          /\ edited' \in {"no", "just now", "settled"} /\ nudge' \in BOOLEAN
      BY <1>6, SameLoop, ListenerKeeps DEF Fail
    <2>2. run' \in Runs /\ run'.by = run.by /\ run'.at # "none" /\ run.at # "none"
      BY <1>6, SameLoop DEF Fail, Step, Runs
    <2>3. faults' \in 0 .. MaxFaults
      BY <1>6, Bounded DEF Fail, TypeOK
    <2> QED
      BY <1>6, <2>1, <2>2, <2>3 DEF Fail, TypeOK
  <1>7. CASE Finish
    <2>1. left' \in {Unknown} \cup 0 .. Cardinality(Records)
      BY <1>7, CountOK DEF Finish, TypeOK
    <2>2. CASE run.by = "loop"
      <3>1. loop' \in LoopStates /\ loop'.at = "plan"
        BY <1>7, <2>2, SameLoop DEF Finish, At, LoopStates
      <3> QED
        BY <1>7, <2>1, <2>2, <3>1 DEF Finish, TypeOK, NoRun, Runs
    <2>3. CASE run.by # "loop"
      BY <1>7, <2>1, <2>3 DEF Finish, TypeOK, NoRun, Runs
    <2> QED
      BY <2>2, <2>3
  <1>8. CASE SyncNow
    <2>1. commits' \in 0 .. MaxEdits
      BY <1>8, Bounded DEF SyncNow, TypeOK
    <2> QED
      BY <1>8, <2>1 DEF SyncNow, TypeOK
  <1> QED
    BY <1>1, <1>2, <1>3, <1>4, <1>5, <1>6, <1>7, <1>8 DEF RunStep

-----------------------------------------------------------------------------
(* The loop, the clock and the UI thread.                                   *)

LEMMA LoopTypes ==
    ASSUME IInv, LoopStep \/ Expire \/ PollTime \/ Settle
    PROVE  TypeOK'
  <1> USE DEF IInv, records, events, closing, bounds
  <1>1. CASE Begin
    <2>1. loop' \in LoopStates /\ loop'.at \in {"ended", "lock"} /\ loop.at # "syncing"
      BY <1>1, SameLoop, ZenonT(60) DEF Begin, At, LoopStates
    <2> QED
      BY <1>1, <2>1 DEF Begin, TypeOK
  <1>2. CASE Plan
    <2>1. loop' \in LoopStates /\ loop'.at # "syncing" /\ loop.at # "syncing"
      BY <1>2, SameLoop DEF Plan, LoopStates, TypeOK
    <2> QED
      BY <1>2, <2>1, ZenonT(60) DEF Plan, TypeOK
  <1>3. CASE Look
    <2> DEFINE looking == ~loop.failing /\ activity # "minimized"
               local == IF looking /\ edited # "no" THEN "same" ELSE "no"
    <2>1. looking \in BOOLEAN /\ local \in {"same", "no"}
      OBVIOUS
    <2>2. \E at \in {"leave", "check", "wait"} :
            loop' = [loop EXCEPT !.looking = looking, !.edited = local, !.at = at]
      BY <1>3 DEF Look
    <2>3. loop' \in LoopStates /\ loop'.at # "syncing" /\ loop.at # "syncing"
      BY <1>3, <2>1, <2>2, SameLoop DEF Look, LoopStates
    <2> QED
      BY <1>3, <2>3, ZenonT(60) DEF Look, TypeOK
  <1>4. CASE TimedOut
    <2>1. loop' \in LoopStates /\ loop'.at # "syncing" /\ loop.at # "syncing"
      BY <1>4, SameLoop DEF TimedOut, At, LoopStates
    <2> QED
      BY <1>4, <2>1, ZenonT(60) DEF TimedOut, TypeOK
  <1>5. CASE Nudged
    <2>1. loop' \in LoopStates /\ loop'.at # "syncing" /\ loop.at # "syncing"
      BY <1>5, SameLoop DEF Nudged, At, LoopStates
    <2> QED
      BY <1>5, <2>1, ZenonT(60) DEF Nudged, TypeOK
  <1>6. CASE Woken
    <2>1. loop' \in LoopStates /\ loop'.at # "syncing" /\ loop.at # "syncing"
      BY <1>6, SameLoop, ZenonT(60) DEF Woken, At, LoopStates, TypeOK
    <2> QED
      BY <1>6, <2>1, ZenonT(60) DEF Woken, TypeOK
  <1>7. CASE Check
    <2>1. \E at \in {"leave", "count", "look"}, poll \in BOOLEAN :
            loop' = [loop EXCEPT !.at = at, !.edited = "no", !.poll = poll]
      BY <1>7, SameLoop DEF Check, LoopStates
    <2>2. loop' \in LoopStates /\ loop'.at # "syncing" /\ loop.at # "syncing"
      BY <1>7, <2>1, SameLoop DEF Check, LoopStates
    <2>3. edited' \in {"no", edited}
      BY <1>7 DEF Check
    <2> QED
      BY <1>7, <2>2, <2>3, ZenonT(60) DEF Check, TypeOK
  <1>8. CASE Count
    <2>1. loop' \in LoopStates /\ loop'.at # "syncing" /\ loop.at # "syncing"
      BY <1>8, SameLoop DEF Count, At, LoopStates
    <2> QED
      BY <1>8, <2>1, ZenonT(60) DEF Count, TypeOK
  <1>9. CASE Leave
    <2>1. loop' \in LoopStates /\ loop'.at # "syncing" /\ loop.at # "syncing"
      BY <1>9, SameLoop DEF Leave, At, LoopStates
    <2> QED
      BY <1>9, <2>1, ZenonT(60) DEF Leave, TypeOK
  <1>10. CASE Left
    <2>1. loop' \in LoopStates /\ loop'.at # "syncing" /\ loop.at # "syncing"
      BY <1>10, SameLoop DEF Left, LoopStates, Activities
    <2> QED
      BY <1>10, <2>1, ZenonT(60) DEF Left, TypeOK
  <1>11. CASE Expire \/ PollTime
    <2>1. loop' \in LoopStates /\ loop'.at = loop.at
      BY <1>11, SameLoop DEF Expire, PollTime, LoopStates
    <2> QED
      BY <1>11, <2>1 DEF Expire, PollTime, TypeOK
  <1>12. CASE Settle
    BY <1>12, ZenonT(60) DEF Settle, TypeOK
  <1> QED
    BY <1>1, <1>2, <1>3, <1>4, <1>5, <1>6, <1>7, <1>8, <1>9, <1>10, <1>11, <1>12 DEF LoopStep

LEMMA UiTypes ==
    ASSUME IInv, UiStep \/ Wake \/ Stop \/ \E a \in Activities : SetActivity(a)
    PROVE  TypeOK'
  <1> USE DEF IInv, records, events, closing, bounds, UiStates
  <1>1. CASE SetNudge \/ StopWakes \/ Stop
    BY <1>1 DEF SetNudge, StopWakes, Stop, TypeOK
  <1>2. CASE Join \/ Close
    BY <1>2 DEF Join, Joined, Close, TypeOK
  <1>3. ASSUME Wake \/ \E a \in Activities : SetActivity(a) PROVE TypeOK'
    <2>1. commits' \in 0 .. MaxEdits
      BY <1>3, Bounded DEF Wake, SetActivity, TypeOK
    <2> QED
      BY <1>3, <2>1 DEF Wake, SetActivity, TypeOK
  <1> QED
    BY <1>1, <1>2, <1>3 DEF UiStep

-----------------------------------------------------------------------------
(* Who asked is heard, and what is closed is not used.                      *)

Safe == Flagged /\ Coming /\ Closing

\* A step that leaves the flags and the UI thread alone, and the loop in its place.
LEMMA SafeInPlace ==
    ASSUME IInv, loop'.at = loop.at, nudge => nudge',
           UNCHANGED <<wake, stop, asked, ui, stopped, closed>>, job' = job \/ ui = "free"
    PROVE  Safe'
  BY DEF IInv, Safe, Flagged, Coming, Closing, Asleep, Nudging

LEMMA RunSafe ==
    ASSUME IInv, RunStep \/ Fail \/ SyncNow \/ \E r \in Records : Edit(r)
    PROVE  Safe'
  <1> USE DEF records, events, closing, bounds
  <1>0. TypeOK
    BY DEF IInv
  <1>1. ASSUME NEW r \in Records, Edit(r) PROVE Safe'
    <2>1. loop'.at = loop.at /\ (nudge => nudge')
      BY <1>0, <1>1, SameLoop, ListenerKeeps DEF Edit
    <2> QED
      BY <1>1, <2>1, SafeInPlace DEF Edit
  <1>2. CASE TakeLock
    <2>1. CASE loop.at = "lock" /\ At("syncing") /\ UNCHANGED job
      <3>1. loop'.at = "syncing"
        BY <1>0, <2>1, SameLoop DEF At, LoopStates
      <3> QED
        BY <1>2, <2>1, <3>1 DEF TakeLock, IInv, Safe, Flagged, Coming, Closing, Asleep, Nudging
    <2>2. CASE job = "lock" /\ job' = "syncing" /\ UNCHANGED loop
      BY <1>2, <2>2 DEF TakeLock, IInv, Safe, Flagged, Coming, Closing, Asleep, Nudging
    <2> QED
      BY <1>2, <2>1, <2>2 DEF TakeLock
  <1>3. CASE Prepare
    <2>1. loop'.at = loop.at /\ (nudge => nudge')
      BY <1>0, <1>3, SameLoop, ListenerKeeps DEF Prepare
    <2> QED
      BY <1>3, <2>1, SafeInPlace DEF Prepare
  <1>4. CASE Push
    <2>1. loop'.at = loop.at /\ (nudge => nudge')
      BY <1>0, <1>4, SameLoop, ListenerKeeps DEF Push
    <2> QED
      BY <1>4, <2>1, SafeInPlace DEF Push
  <1>5. CASE Pull
    <2>1. loop'.at = loop.at /\ (nudge => nudge')
      BY <1>0, <1>5, SameLoop, ListenerKeeps DEF Pull
    <2> QED
      BY <1>5, <2>1, SafeInPlace DEF Pull
  <1>6. CASE Fail
    <2>1. loop'.at = loop.at /\ (nudge => nudge')
      BY <1>0, <1>6, SameLoop, ListenerKeeps DEF Fail
    <2> QED
      BY <1>6, <2>1, SafeInPlace DEF Fail
  <1>7. CASE Finish
    <2>1. CASE run.by = "loop"
      <3>1. loop'.at = "plan" /\ loop.at = "syncing"
        BY <1>0, <1>7, <2>1, SameLoop DEF Finish, At, LoopStates, TypeOK
      <3> QED
        BY <1>7, <2>1, <3>1 DEF Finish, IInv, Safe, Flagged, Coming, Closing, Asleep, Nudging
    <2>2. CASE run.by # "loop"
      BY <1>7, <2>2 DEF Finish, IInv, Safe, Flagged, Coming, Closing, Asleep, Nudging
    <2> QED
      BY <2>1, <2>2
  <1>8. CASE SyncNow
    BY <1>8, SafeInPlace DEF SyncNow
  <1> QED
    BY <1>1, <1>2, <1>3, <1>4, <1>5, <1>6, <1>7, <1>8 DEF RunStep

\* Where the loop goes: to sleep only without stop, past a clear flag after it was nudged.
LEMMA LoopSafe ==
    ASSUME IInv, LoopStep \/ Expire \/ PollTime \/ Settle
    PROVE  Safe'
  <1> USE DEF records, events, closing, bounds
  <1>0. TypeOK /\ loop \in LoopStates
    BY DEF IInv, TypeOK
  <1>1. CASE Begin
    <2>1. loop'.at \in {"ended", "lock"} /\ loop.at = "begin" /\ (loop'.at = "lock" => ~asked')
      BY <1>0, <1>1 DEF Begin, At, LoopStates
    <2> QED
      BY <1>1, <2>1 DEF Begin, IInv, Safe, Flagged, Coming, Closing, Asleep, Nudging
  <1>2. CASE Plan
    <2>1. loop'.at = "look" /\ loop.at = "plan"
      BY <1>0, <1>2 DEF Plan, LoopStates
    <2> QED
      BY <1>2, <2>1 DEF Plan, IInv, Safe, Flagged, Coming, Closing, Asleep, Nudging
  <1>3. CASE Look
    <2>1. loop'.at \in {"leave", "check", "wait"} /\ loop.at = "look" /\ (stop => loop'.at = "leave")
      BY <1>0, <1>3 DEF Look, LoopStates
    <2> QED
      BY <1>3, <2>1 DEF Look, IInv, Safe, Flagged, Coming, Closing, Asleep, Nudging
  <1>4. CASE TimedOut
    <2>1. loop'.at = "check" /\ loop.at = "wait"
      BY <1>0, <1>4 DEF TimedOut, At, LoopStates
    <2> QED
      BY <1>4, <2>1 DEF TimedOut, IInv, Safe, Flagged, Coming, Closing, Asleep, Nudging
  <1>5. CASE Nudged
    <2>1. loop'.at = "woken" /\ loop.at = "wait"
      BY <1>0, <1>5 DEF Nudged, At, LoopStates
    <2> QED
      BY <1>5, <2>1 DEF Nudged, IInv, Safe, Flagged, Coming, Closing, Asleep, Nudging
  <1>6. CASE Woken
    <2>1. loop'.at \in {"leave", "look"} /\ loop.at = "woken" /\ (wake => loop'.at = "leave")
      BY <1>0, <1>6 DEF Woken, Wakes, At, LoopStates
    <2> QED
      BY <1>6, <2>1 DEF Woken, IInv, Safe, Flagged, Coming, Closing, Asleep, Nudging
  <1>7. CASE Check
    <2>1. loop'.at \in {"leave", "count", "look"} /\ loop.at = "check"
      BY <1>0, <1>7 DEF Check, LoopStates
    <2> QED
      BY <1>7, <2>1 DEF Check, IInv, Safe, Flagged, Coming, Closing, Asleep, Nudging
  <1>8. CASE Count
    <2>1. loop'.at \in {"leave", "look"} /\ loop.at = "count"
      BY <1>0, <1>8 DEF Count, At, LoopStates
    <2> QED
      BY <1>8, <2>1 DEF Count, IInv, Safe, Flagged, Coming, Closing, Asleep, Nudging
  <1>9. CASE Leave
    <2>1. loop'.at = "left" /\ loop.at = "leave"
      BY <1>0, <1>9 DEF Leave, At, LoopStates
    <2> QED
      BY <1>9, <2>1 DEF Leave, IInv, Safe, Flagged, Coming, Closing, Asleep, Nudging
  <1>10. CASE Left
    <2>1. loop'.at = "begin" /\ loop.at = "left"
      BY <1>0, <1>10 DEF Left, LoopStates
    <2> QED
      BY <1>10, <2>1 DEF Left, IInv, Safe, Flagged, Coming, Closing, Asleep, Nudging
  <1>11. CASE Expire \/ PollTime \/ Settle
    <2>1. loop'.at = loop.at
      BY <1>0, <1>11 DEF Expire, PollTime, Settle, LoopStates
    <2>2. UNCHANGED <<wake, stop, asked, ui, stopped, closed, job, nudge>>
      BY <1>11 DEF Expire, PollTime, Settle
    <2> QED
      BY <2>1, <2>2, SafeInPlace
  <1> QED
    BY <1>1, <1>2, <1>3, <1>4, <1>5, <1>6, <1>7, <1>8, <1>9, <1>10, <1>11 DEF LoopStep

LEMMA UiSafe ==
    ASSUME IInv, UiStep \/ Wake \/ Stop \/ \E a \in Activities : SetActivity(a)
    PROVE  Safe'
  <1> USE DEF IInv, Safe, Flagged, Coming, Closing, Nudging, records, events, closing, bounds
  <1>1. CASE SetNudge
    BY <1>1 DEF SetNudge, Asleep
  <1>2. CASE StopWakes
    BY <1>2 DEF StopWakes, Asleep
  <1>3. CASE Join
    BY <1>3 DEF Join, Joined, Asleep
  <1>4. CASE Close
    BY <1>4 DEF Close, Asleep, TypeOK
  <1>5. CASE Wake
    BY <1>5 DEF Wake, Asleep
  <1>6. CASE Stop
    BY <1>6 DEF Stop, Asleep
  <1>7. ASSUME NEW a \in Activities, SetActivity(a) PROVE Safe'
    BY <1>7 DEF SetActivity, Asleep
  <1> QED
    BY <1>1, <1>2, <1>3, <1>4, <1>5, <1>6, <1>7 DEF UiStep

-----------------------------------------------------------------------------
LEMMA StepInv == IInv /\ [Next]_vars => IInv'
  <1> SUFFICES ASSUME IInv, [Next]_vars PROVE IInv'
    OBVIOUS
  <1>1. CASE UNCHANGED vars
    <2>1. TypeOK'
      BY <1>1, ZenonT(60) DEF vars, IInv, TypeOK
    <2>2. Safe'
      BY <1>1, SafeInPlace DEF vars
    <2> QED
      BY <2>1, <2>2 DEF IInv, Safe
  <1>2. CASE Next
    <2>1. TypeOK'
      BY <1>2, RunTypes, LoopTypes, UiTypes DEF Next
    <2>2. Safe'
      BY <1>2, RunSafe, LoopSafe, UiSafe DEF Next
    <2> QED
      BY <2>1, <2>2 DEF IInv, Safe
  <1> QED
    BY <1>1, <1>2

LEMMA Invariance == Spec => []IInv
  BY InitInv, StepInv, PTL DEF Spec

\* Every step of the loop, of a run and of the UI thread keeps the types, and the sync lock
\* belongs to whom the threads say (app/sync/service.py), for any records, edits and failures.
THEOREM TypeCorrect == Spec => []TypeOK
  <1>1. IInv => TypeOK
    BY DEF IInv
  <1> QED
    BY <1>1, Invariance, PTL

\* No wake-up and no stop is slept through: whatever the loop cleared and read in between, the
\* nudge is set or about to be (_idle, wake, set_activity, stop).
THEOREM NeverSleepsThrough == Spec => []NoWakeLost
  <1>1. IInv => NoWakeLost
    BY DEF IInv, Coming, Asleep, Nudging, NoWakeLost
  <1> QED
    BY <1>1, Invariance, PTL

\* The connection is closed only when the loop's thread has ended and no job syncs, and nothing
\* begins after it (close, stop, app/ui/app_services.py).
THEOREM ClosesLast == Spec => []ClosedLast
  <1>1. ASSUME IInv PROVE ClosedLast
    <2>1. closed => run.by = "nobody"
      BY <1>1 DEF IInv, Closing, TypeOK, Runs
    <2>2. run.by = "nobody" => run = NoRun
      BY <1>1 DEF IInv, TypeOK, Runs, NoRun
    <2> QED
      BY <1>1, <2>1, <2>2 DEF IInv, Closing, ClosedLast
  <1> QED
    BY <1>1, Invariance, PTL

=============================================================================
