----------------------- MODULE SessionDecisionProofs -----------------------
(***************************************************************************)
(* A renewal or a restoring that is under way when the user signs out does *)
(* not bring the session back, for every number of threads, pairs, faults  *)
(* and resets.                                                             *)
(*                                                                         *)
(* What a thread obtained is known to nobody else until it is put into     *)
(* memory (Private).  The thread decides by comparing, so what it compares *)
(* with must not come back: the token it renews is neither in memory nor   *)
(* about to be (LateRenewal), and a restoring finds the account signed     *)
(* out, or another session, which no thread drops, since who could drop it *)
(* would have renewed it first and waits for the lock (LateRestoring).     *)
(*                                                                         *)
(* And the server never takes the device for a thief, unless an answer is  *)
(* lost or the device stops between spending a credential and saving the   *)
(* next one: the second half of the module.                                *)
(***************************************************************************)
EXTENDS NativeSessionsProofs

Entering == IF ui.at = "in" THEN ui.pair ELSE None    \* the pair a sign-in is about to establish
Passed(p) == p # memory.token /\ p # Entering
Drops(j) == j.at = "drop" \/ (j.at \in {"called", "asked"} /\ j.renewed)

JobShape(j) ==
    /\ j.at \in {"called", "asked", "renew", "drop"} \/ (j.at \in Renewing /\ ~j.restoring) => j.token # None
    /\ (j.got # None) <=> (j.at \in {"got", "saved"})
    /\ j.out => j.at \in Renewing
    /\ j.restoring => j.at \in Renewing
Shaped == \A t \in Threads : JobShape(job[t])

OneAtATime == \A s, t \in Threads : HoldsRenewLock(s) /\ HoldsRenewLock(t) => s = t
TokensIssued == IsIssued(memory.token) /\ \A t \in Threads : IsIssued(job[t].token)
EntryReady == ui.at = "in" => ui.pair # None

Private == \A t \in Threads : job[t].got # None =>
    Passed(job[t].got) /\ \A s \in Threads : job[s].token # job[t].got
LateRenewal == \A t \in Threads : job[t].out /\ ~job[t].restoring => Passed(job[t].token)
LateRestoring == \A t \in Threads : job[t].out /\ job[t].restoring =>
    /\ memory.token # None \/ ~active
    /\ \A s \in Threads : Drops(job[s]) => Passed(job[s].token)

\* A session is restored only when no thread has used one since the start of the process.
RestoredFirst ==
    /\ restorable => /\ memory.token = None
                     /\ \A t \in Threads : job[t].at = "idle" \/ (job[t].restoring /\ job[t].at # "saved")
    /\ \A s, t \in Threads : job[s].restoring => job[t].at # "again"

Base == Shaped /\ OneAtATime /\ TokensIssued /\ EntryReady
Decisions == Private /\ LateRenewal /\ LateRestoring
LInv == IInv /\ Base /\ RestoredFirst /\ Decisions

-----------------------------------------------------------------------------
LEMMA InitDecisions == Init => LInv
  <1> SUFFICES ASSUME Init PROVE LInv
    OBVIOUS
  <1>1. \A t \in Threads : job[t] = Idle
    BY DEF Init
  <1>2. Base
    BY <1>1 DEF Init, Base, Shaped, JobShape, Idle, Renewing, OneAtATime, HoldsRenewLock,
                TokensIssued, IsIssued, NoSession, EntryReady, Free
  <1>3. Decisions
    BY <1>1 DEF Decisions, Private, LateRenewal, LateRestoring, Idle
  <1>4. RestoredFirst
    BY <1>1 DEF Init, RestoredFirst, Idle, NoSession
  <1> QED
    BY <1>2, <1>3, <1>4, InitInv DEF LInv

LEMMA TypesNow ==
    ASSUME LInv
    PROVE  /\ job \in [Threads -> JobStates] /\ memory \in Sessions /\ ui \in UiStates /\ vault \in Ref
           /\ Entering \in Ref /\ memory.token \in Ref
           /\ \A t \in Threads : job[t].token \in Ref /\ job[t].got \in Ref /\ job[t].sent \in Ref
  <1>1. job \in [Threads -> JobStates] /\ memory \in Sessions /\ ui \in UiStates /\ vault \in Ref
    BY DEF LInv, IInv, TypeOK
  <1> QED
    BY <1>1 DEF JobStates, Sessions, UiStates, Entering, Ref

\* While the lock is free no thread has an answer to decide about.
LEMMA NobodyLate ==
    ASSUME LInv, RenewLockFree
    PROVE  \A t \in Threads : ~job[t].out /\ ~job[t].restoring /\ job[t].got = None
  BY DEF LInv, Base, Shaped, JobShape, RenewLockFree, HoldsRenewLock, Renewing

LEMMA OnlyTheHolder ==
    ASSUME LInv, NEW t \in Threads, HoldsRenewLock(t)
    PROVE  \A s \in Threads \ {t} : ~job[s].out /\ ~job[s].restoring /\ job[s].got = None /\ ~HoldsRenewLock(s)
  BY DEF LInv, Base, Shaped, JobShape, OneAtATime, HoldsRenewLock, Renewing

\* Once the lock is free there is nothing left to decide.
LEMMA AfterTheLock ==
    ASSUME LInv, NEW t \in Threads, HoldsRenewLock(t), NEW j \in JobStates, Goto(t, j),
           j.at \notin Renewing, ~j.out, j.got = None
    PROVE  Decisions'
  <1>1. \A s \in Threads : ~job'[s].out /\ job'[s].got = None
    BY OnlyTheHolder, TypesNow DEF Goto
  <1> QED
    BY <1>1 DEF Decisions, Private, LateRenewal, LateRestoring

StaysIssued(p) == p = None \/ pair'[p].family # None

LEMMA ThreadBase ==
    ASSUME LInv, NEW t \in Threads, NEW j \in JobStates, Goto(t, j), JobShape(j),
           \A p \in Ref : IsIssued(p) => StaysIssued(p),
           StaysIssued(j.token), StaysIssued(memory'.token), UNCHANGED ui,
           j.at \in Renewing => HoldsRenewLock(t) \/ RenewLockFree
    PROVE  Base'
  <1>1. job'[t] = j /\ \A s \in Threads \ {t} : job'[s] = job[s]
    BY TypesNow DEF Goto
  <1>2. Shaped'
    BY <1>1 DEF LInv, Base, Shaped, JobShape
  <1>3. OneAtATime'
    BY <1>1 DEF LInv, Base, OneAtATime, HoldsRenewLock, RenewLockFree
  <1>4. TokensIssued'
    <2>1. \A s \in Threads : IsIssued(job[s].token)
      BY DEF LInv, Base, TokensIssued
    <2>2. \A s \in Threads \ {t} : IsIssued(job[s].token)'
      BY <1>1, <2>1, TypesNow DEF IsIssued, StaysIssued
    <2>3. IsIssued(job[t].token)'
      BY <1>1 DEF IsIssued, StaysIssued
    <2> QED
      BY <2>2, <2>3 DEF TokensIssued, IsIssued, StaysIssued
  <1>5. EntryReady'
    BY DEF LInv, Base, EntryReady
  <1> QED
    BY <1>2, <1>3, <1>4, <1>5 DEF Base

\* A thread goes on with a token that was in use, or with none; what it drops it did not bring.
LEMMA ThreadQuiet ==
    ASSUME LInv, NEW t \in Threads, NEW j \in JobStates, Goto(t, j), UNCHANGED <<ui, active>>,
           memory'.token \in {memory.token, None},
           memory'.token # memory.token => memory.token = job[t].token /\ Drops(job[t]),
           j.got \in {None, job[t].got}, j.token \in {job[t].token, memory.token, None},
           j.out => job[t].out /\ j.restoring = job[t].restoring /\ j.token = job[t].token,
           Drops(j) => \/ Drops(job[t]) /\ j.token = job[t].token
                       \/ \A s \in Threads : ~(job[s].out /\ job[s].restoring)
    PROVE  Decisions'
  <1>1. job'[t] = j /\ \A s \in Threads \ {t} : job'[s] = job[s]
    BY TypesNow DEF Goto
  <1>2. Entering' = Entering
    BY DEF Entering
  <1>3. Private'
    BY <1>1, <1>2 DEF LInv, Decisions, Private, Passed
  <1>4. LateRenewal'
    <2> SUFFICES ASSUME NEW s \in Threads, job'[s].out, ~job'[s].restoring PROVE Passed(job[s].token)'
      BY DEF LateRenewal
    <2>1. job[s].out /\ ~job[s].restoring /\ job'[s].token = job[s].token
      BY <1>1
    <2>2. Passed(job[s].token) /\ job[s].token # None
      BY <2>1 DEF LInv, Decisions, LateRenewal, Base, Shaped, JobShape
    <2> QED
      BY <1>2, <2>1, <2>2 DEF Passed
  <1>5. LateRestoring'
    <2> SUFFICES ASSUME NEW s \in Threads, job'[s].out, job'[s].restoring
                 PROVE  /\ memory'.token # None \/ ~active'
                        /\ \A d \in Threads : Drops(job[d])' => Passed(job[d].token)'
      BY DEF LateRestoring
    <2>1. job[s].out /\ job[s].restoring
      BY <1>1
    <2>2. memory.token # None \/ ~active
      BY <2>1 DEF LInv, Decisions, LateRestoring
    <2>3. \A d \in Threads : Drops(job[d]) => Passed(job[d].token) /\ job[d].token # None
      BY <2>1 DEF LInv, Decisions, LateRestoring, Base, Shaped, JobShape, Drops
    <2>4. memory'.token = memory.token
      BY <2>3 DEF Passed
    <2>5. \A d \in Threads : Drops(job[d])' => Drops(job[d]) /\ job'[d].token = job[d].token
      BY <1>1, <2>1 DEF Drops
    <2> QED
      BY <1>2, <2>2, <2>3, <2>4, <2>5 DEF Passed
  <1> QED
    BY <1>3, <1>4, <1>5 DEF Decisions

\* The user, the server or the clock, as far as no session is taken or given.
LEMMA UiQuiet ==
    ASSUME LInv, UNCHANGED <<job, memory, active>>, Entering' \in {Entering, None}, EntryReady',
           \A p \in Ref : IsIssued(p) => IsIssued(p)'
    PROVE  Base' /\ Decisions'
  <1>1. Shaped' /\ OneAtATime'
    BY DEF LInv, Base, Shaped, JobShape, OneAtATime, HoldsRenewLock
  <1>2. TokensIssued'
    BY TypesNow DEF LInv, Base, TokensIssued, IsIssued
  <1>3. Private'
    BY DEF LInv, Decisions, Private, Passed
  <1>4. LateRenewal'
    BY DEF LInv, Decisions, LateRenewal, Passed, Base, Shaped, JobShape
  <1>5. LateRestoring'
    BY DEF LInv, Decisions, LateRestoring, Passed, Drops, Base, Shaped, JobShape
  <1> QED
    BY <1>1, <1>2, <1>3, <1>4, <1>5 DEF Base, Decisions

-----------------------------------------------------------------------------
LEMMA IssuedStays ==
    ASSUME LInv, Next
    PROVE  \A p \in Ref : IsIssued(p) => IsIssued(p)'
  <1>0. pair' \in [Pairs -> PairStates] /\ pair \in [Pairs -> PairStates]
    <2>1. IInv'
      BY StepInv DEF LInv
    <2> QED
      BY <2>1 DEF LInv, IInv, TypeOK
  <1> SUFFICES \A p \in Pairs : pair[p].family # None => pair'[p].family # None
    BY <1>0, HeldStaysIssued DEF LInv
  <1>1. CASE UNCHANGED pair
    BY <1>1
  <1>2. ASSUME NEW p \in Pairs, ExpireToken(p) PROVE \A q \in Pairs : pair'[q].family = pair[q].family
    BY <1>0, <1>2 DEF ExpireToken, PairStates
  <1>3. ASSUME NEW p \in Pairs, EndGrace(p) PROVE \A q \in Pairs : pair'[q].family = pair[q].family
    BY <1>0, <1>3 DEF EndGrace, PairStates
  <1>4. CASE Start
    <2>1. New \in Pairs /\ New # None /\ pair' = [pair EXCEPT ![New] = NewPair(New)]
      BY <1>4, NewIsNew, NoneIsNoPair DEF Start
    <2> QED
      BY <1>0, <2>1 DEF NewPair
  <1>5. ASSUME NEW t \in Threads, Exchange(t), Rotates(job[t].sent)
        PROVE  \A q \in Pairs : pair[q].family # None => pair'[q].family # None
    <2> DEFINE p == job[t].sent
    <2>1. p \in Pairs /\ pair[p].family \in Pairs
      <3>1. IssuedJob(job[t])
        BY DeviceNow DEF LInv
      <3>2. p # None /\ p \in Pairs /\ IsIssued(p)
        BY <1>5, <3>1 DEF Exchange, IssuedJob, JobStates, Renewing, Ref
      <3> QED
        BY <1>0, <3>2 DEF IsIssued, PairStates, Ref
    <2>2. CanIssue /\ Rotate(p)
      BY <1>5 DEF Exchange
    <2> QED
      BY <1>5, <2>1, <2>2, RotateKeeps DEF LInv
  <1>6. ASSUME NEW t \in Threads, Exchange(t), ~Rotates(job[t].sent) PROVE UNCHANGED pair
    BY <1>6 DEF Exchange, Reject
  <1>7. CASE ResetPassword \/ Restart \/ Establish \/ SignOut \/ Revoke \/ RevokeLost
             \/ \E keep \in BOOLEAN : SignIn(keep)
    BY <1>1, <1>7 DEF ResetPassword, Restart, Establish, SignOut, Revoke, RevokeLost, SignIn, server
  <1>8. ASSUME NEW t \in Threads,
               \/ BeginRestore(t) \/ Again(t) \/ TakeLock(t)
               \/ Request(t) \/ Answer(t) \/ DropToken(t) \/ BeginRenew(t) \/ Unreachable(t)
               \/ RenewRefused(t) \/ RestoreRefused(t) \/ SaveKept(t) \/ Renewed(t) \/ Restored(t)
        PROVE  UNCHANGED pair
    BY <1>8 DEF BeginRestore, Again, TakeLock, Request, Answer, DropToken, BeginRenew, Unreachable, RenewRefused,
                RestoreRefused, SaveKept, Renewed, Restored, server
  <1> QED
    BY <1>1, <1>2, <1>3, <1>4, <1>5, <1>6, <1>7, <1>8 DEF Next

-----------------------------------------------------------------------------
(* The user, the server and the clock.                                      *)

LEMMA UserDecides ==
    ASSUME LInv, Next,
           \/ \E p \in Pairs : ExpireToken(p) \/ EndGrace(p)
           \/ ResetPassword \/ Restart \/ \E keep \in BOOLEAN : SignIn(keep)
           \/ Start \/ Establish \/ SignOut \/ Revoke \/ RevokeLost
    PROVE  Base' /\ Decisions'
  <1>0. \A p \in Ref : IsIssued(p) => IsIssued(p)'
    BY IssuedStays
  <1>1. CASE ResetPassword \/ \E p \in Pairs : ExpireToken(p) \/ EndGrace(p)
    <2>1. UNCHANGED <<job, memory, active, ui>>
      BY <1>1 DEF ResetPassword, ExpireToken, EndGrace, kept
    <2> QED
      BY <1>0, <2>1, UiQuiet DEF Entering, EntryReady, LInv, Base
  <1>2. CASE Revoke \/ RevokeLost \/ \E keep \in BOOLEAN : SignIn(keep)
    <2>1. UNCHANGED <<job, memory, active>> /\ ui'.at # "in"
      BY <1>2 DEF Revoke, RevokeLost, SignIn, kept, Free
    <2> QED
      BY <1>0, <2>1, UiQuiet DEF Entering, EntryReady
  <1>3. CASE Start
    <2>1. UNCHANGED <<job, memory, active>> /\ New \in Pairs /\ New # None /\ pair[New].family = None
      BY <1>3, NewIsNew, NoneIsNoPair DEF Start, kept
    <2>2. ui'.at = "in" /\ ui'.pair = New
      BY <1>3, TypesNow DEF Start, UiStates
    <2>3. \A t \in Threads : job[t].token # New /\ job[t].got # New
      BY <2>1, DeviceNow DEF LInv, Base, TokensIssued, IsIssued, IssuedJob
    <2>4. Shaped' /\ OneAtATime'
      BY <2>1 DEF LInv, Base, Shaped, JobShape, OneAtATime, HoldsRenewLock
    <2>5. TokensIssued'
      BY <1>0, <2>1, TypesNow DEF LInv, Base, TokensIssued, IsIssued
    <2>6. EntryReady'
      BY <2>1, <2>2 DEF EntryReady
    <2>7. Decisions'
      BY <2>1, <2>2, <2>3 DEF LInv, Decisions, Private, LateRenewal, LateRestoring, Passed, Drops, Entering
    <2> QED
      BY <2>4, <2>5, <2>6, <2>7 DEF Base
  <1>4. CASE Establish
    <2>1. /\ UNCHANGED job /\ memory'.token = ui.pair /\ ui' = Free /\ ui.at = "in"
          /\ ui.pair \in Ref /\ IsIssued(ui.pair) /\ ui.pair # None
      BY <1>4, TypesNow, DeviceNow DEF Establish, LInv, Base, EntryReady, UiOK, UiStates
    <2>2. Entering = ui.pair /\ Entering' = None
      BY <2>1 DEF Entering, Free
    <2>3. Shaped' /\ OneAtATime'
      BY <2>1 DEF LInv, Base, Shaped, JobShape, OneAtATime, HoldsRenewLock
    <2>4. TokensIssued'
      BY <1>0, <2>1, TypesNow DEF LInv, Base, TokensIssued, IsIssued
    <2>5. EntryReady'
      BY <2>1 DEF EntryReady, Free
    <2>6. Private'
      BY <2>1, <2>2 DEF LInv, Decisions, Private, Passed
    <2>7. LateRenewal'
      BY <2>1, <2>2 DEF LInv, Decisions, LateRenewal, Passed, Base, Shaped, JobShape
    <2>8. LateRestoring'
      BY <2>1, <2>2 DEF LInv, Decisions, LateRestoring, Passed, Drops, Base, Shaped, JobShape
    <2> QED
      BY <2>3, <2>4, <2>5, <2>6, <2>7, <2>8 DEF Base, Decisions
  <1>5. CASE SignOut
    <2>1. memory'.token = None /\ ~active' /\ ui'.at = "out"
      BY <1>5 DEF SignOut, NoSession, Free
    <2>2. \A t \in Threads : /\ job'[t].at = job[t].at /\ job'[t].token = job[t].token
                            /\ job'[t].got = job[t].got /\ job'[t].restoring = job[t].restoring
                            /\ job'[t].renewed = job[t].renewed
                            /\ (job'[t].out <=> job[t].out \/ HoldsRenewLock(t))
      BY <1>5, TypesNow DEF SignOut, JobStates
    <2>3. Shaped'
      BY <2>2 DEF LInv, Base, Shaped, JobShape, HoldsRenewLock
    <2>4. OneAtATime'
      BY <2>2 DEF LInv, Base, OneAtATime, HoldsRenewLock
    <2>5. TokensIssued'
      BY <1>0, <2>1, <2>2, TypesNow DEF LInv, Base, TokensIssued, IsIssued
    <2>6. EntryReady' /\ Entering' = None
      BY <2>1 DEF EntryReady, Entering
    <2>7. Private'
      BY <2>1, <2>2, <2>6 DEF LInv, Decisions, Private, Passed
    <2>8. LateRenewal'
      BY <2>1, <2>2, <2>3, <2>6 DEF LateRenewal, Passed, Shaped, JobShape
    <2>9. LateRestoring'
      BY <2>1, <2>2, <2>3, <2>6 DEF LateRestoring, Passed, Drops, Shaped, JobShape
    <2> QED
      BY <2>3, <2>4, <2>5, <2>6, <2>7, <2>8, <2>9 DEF Base, Decisions
  <1>6. CASE Restart
    <2>1. memory'.token = None /\ ui' = Free /\ \A t \in Threads : job'[t] = Idle
      BY <1>6 DEF Restart, NoSession
    <2>2. Base'
      BY <2>1 DEF Base, Shaped, JobShape, Idle, Renewing, OneAtATime, HoldsRenewLock, TokensIssued, IsIssued,
                  EntryReady, Free
    <2>3. Decisions'
      BY <2>1 DEF Decisions, Private, LateRenewal, LateRestoring, Idle
    <2> QED
      BY <2>2, <2>3
  <1> QED
    BY <1>1, <1>2, <1>3, <1>4, <1>5, <1>6

-----------------------------------------------------------------------------
(* The threads.  First what Retry and GivenUp make of a thread.             *)

LEMMA RetryFields ==
    ASSUME LInv, NEW t \in Threads, NEW token \in Ref, token # None
    PROVE  LET j == Retry(t, token) IN
           /\ j \in JobStates /\ JobShape(j) /\ j.token \in {token, None} /\ j.got = None /\ ~j.out
           /\ j.at \notin Renewing
  <1>1. Retry(t, token) \in JobStates
    BY RetryIsIssued DEF LInv, IssuedJob
  <1>2. CASE job[t].syncs
    BY <1>1, <1>2 DEF Retry, Idle, JobShape, Renewing
  <1>3. CASE ~job[t].syncs
    BY <1>1, <1>3 DEF Retry, Idle, JobShape, Renewing
  <1> QED
    BY <1>2, <1>3

LEMMA GivenUpFields ==
    ASSUME LInv, NEW t \in Threads
    PROVE  LET j == GivenUp(t) IN
           /\ j \in JobStates /\ j.token = job[t].token /\ j.got = None /\ ~j.out /\ j.at = "drop"
           /\ (job[t].token # None => JobShape(j))
  <1>1. GivenUp(t) \in JobStates
    BY RetryIsIssued, TypesNow DEF LInv, IssuedJob
  <1> QED
    BY <1>1 DEF GivenUp, Idle, JobShape, Renewing

LEMMA IdleFields ==
    /\ Idle \in JobStates /\ Idle.token = None /\ Idle.got = None /\ ~Idle.out /\ Idle.at = "idle"
    /\ ~Idle.restoring /\ ~Idle.renewed
    /\ \A t \in Threads : JobShape(Idle)
  BY IdleIsIssued DEF IssuedJob, Idle, JobShape, Renewing

LEMMA IssuedNow ==
    ASSUME LInv, Next
    PROVE  /\ \A p \in Ref : IsIssued(p) => StaysIssued(p)
           /\ StaysIssued(None) /\ StaysIssued(memory.token)
           /\ \A t \in Threads : StaysIssued(job[t].token) /\ JobShape(job[t])
  <1>1. \A p \in Ref : IsIssued(p) => StaysIssued(p)
    BY IssuedStays DEF IsIssued, StaysIssued
  <1>2. IsIssued(memory.token) /\ \A t \in Threads : IsIssued(job[t].token) /\ JobShape(job[t])
    BY DEF LInv, Base, TokensIssued, Shaped
  <1> QED
    BY <1>1, <1>2, TypesNow DEF StaysIssued

\* A request begins with the token in memory and nothing else.
RequestFields(t, j) ==
    /\ j.at \in {"called", "asked"} /\ j.token = memory.token /\ j.got = None /\ j.sent = None
    /\ ~j.out /\ ~j.restoring /\ ~j.renewed

LEMMA RequestMade ==
    ASSUME LInv, NEW t \in Threads, Request(t)
    PROVE  \E j \in JobStates : Goto(t, j) /\ RequestFields(t, j)
  <1>1. CASE Goto(t, [Idle EXCEPT !.at = "asked", !.token = memory.token])
    <2> DEFINE j == [Idle EXCEPT !.at = "asked", !.token = memory.token]
    <2>1. j \in JobStates
      BY IdleIsIssued, TypesNow DEF IssuedJob
    <2>2. RequestFields(t, j)
      BY DEF Idle, RequestFields
    <2>3. Goto(t, j)
      BY <1>1, ZenonT(60)
    <2> HIDE DEF j
    <2> QED
      BY <2>1, <2>2, <2>3, ZenonT(60)
  <1>2. CASE Goto(t, [Idle EXCEPT !.at = "called", !.token = memory.token, !.syncs = TRUE])
    <2> DEFINE j == [Idle EXCEPT !.at = "called", !.token = memory.token, !.syncs = TRUE]
    <2>1. j \in JobStates
      BY IdleIsIssued, TypesNow DEF IssuedJob
    <2>2. RequestFields(t, j)
      BY DEF Idle, RequestFields
    <2>3. Goto(t, j)
      BY <1>2
    <2> HIDE DEF j
    <2> QED
      BY <2>1, <2>2, <2>3
  <1> QED
    BY <1>1, <1>2, SMTT(60) DEF Request

\* A run that takes the sync lock goes on as it is.
LEMMA LockTaken ==
    ASSUME LInv, NEW t \in Threads, TakeLock(t)
    PROVE  \E j \in JobStates :
             /\ Goto(t, j) /\ j.at = "asked" /\ j.token = job[t].token /\ j.got = None /\ j.sent = job[t].sent
             /\ ~j.out /\ ~j.restoring /\ j.token # None /\ (Drops(j) <=> Drops(job[t]))
  <1> DEFINE j == [job[t] EXCEPT !.at = "asked"]
  <1>1. /\ j \in JobStates /\ j.at = "asked" /\ j.token = job[t].token /\ j.got = job[t].got /\ j.sent = job[t].sent
        /\ j.out = job[t].out /\ j.restoring = job[t].restoring /\ j.renewed = job[t].renewed
    BY TypesNow DEF JobStates
  <1>2. Goto(t, j) /\ job[t].at = "called"
    BY DEF TakeLock
  <1> HIDE DEF j
  <1>3. job[t].got = None /\ ~job[t].out /\ ~job[t].restoring /\ job[t].token # None
    BY <1>2 DEF LInv, Base, Shaped, JobShape, Renewing
  <1>4. Drops(j) <=> Drops(job[t])
    BY <1>1, <1>2 DEF Drops
  <1> QED
    BY <1>1, <1>2, <1>3, <1>4

\* A thread that neither renews nor restores.
LEMMA CallerDecides ==
    ASSUME LInv, Next, \E t \in Threads : Again(t) \/ Request(t) \/ TakeLock(t) \/ Answer(t) \/ DropToken(t)
    PROVE  Base' /\ Decisions'
  <1>0. /\ \A p \in Ref : IsIssued(p) => StaysIssued(p)
        /\ StaysIssued(None) /\ StaysIssued(memory.token)
        /\ \A t \in Threads : StaysIssued(job[t].token) /\ JobShape(job[t])
    BY IssuedNow
  <1>1. ASSUME NEW t \in Threads, Again(t) PROVE Base' /\ Decisions'
    <2> DEFINE j == IF memory.token = None THEN Idle
                    ELSE [Idle EXCEPT !.at = "called", !.token = memory.token, !.renewed = TRUE, !.syncs = TRUE]
    <2>1. job[t].at = "again" /\ Goto(t, j) /\ UNCHANGED <<memory, ui, active>>
      BY <1>1, SMTT(60) DEF Again, kept
    <2>2. j \in JobStates
      BY IdleIsIssued, TypesNow DEF IssuedJob
    <2>3. j.token = memory.token /\ j.got = None /\ ~j.out /\ j.at \notin Renewing /\ JobShape(j)
      BY DEF Idle, Renewing, JobShape
    <2>4. \A s \in Threads : ~(job[s].out /\ job[s].restoring)
      BY <2>1 DEF LInv, RestoredFirst
    <2>5. StaysIssued(memory'.token)
      BY <1>0, <2>1
    <2>6. StaysIssued(j.token)
      BY <1>0, <2>3
    <2> HIDE DEF j
    <2>7. Base'
      BY <1>0, <2>1, <2>2, <2>3, <2>5, <2>6, ThreadBase
    <2>8. Decisions'
      BY <2>1, <2>2, <2>3, <2>4, ThreadQuiet
    <2> QED
      BY <2>7, <2>8
  <1>2. ASSUME NEW t \in Threads, Request(t) PROVE Base' /\ Decisions'
    <2>1. memory.token # None /\ UNCHANGED <<memory, ui, active>>
      BY <1>2 DEF Request, kept
    <2>2. PICK j \in JobStates :
            Goto(t, j) /\ RequestFields(t, j)
      BY <1>2, RequestMade
    <2>3. /\ j.token = memory.token /\ j.got = None /\ ~j.out /\ j.at \notin Renewing
          /\ JobShape(j) /\ ~Drops(j)
      BY <2>1, <2>2 DEF RequestFields, Renewing, JobShape, Drops
    <2>4. StaysIssued(memory'.token) /\ StaysIssued(j.token)
      BY <1>0, <2>1, <2>3
    <2>5. Base'
      BY <1>0, <2>1, <2>2, <2>3, <2>4, ThreadBase
    <2>6. Decisions'
      BY <2>1, <2>2, <2>3, ThreadQuiet
    <2> QED
      BY <2>5, <2>6
  <1>3. ASSUME NEW t \in Threads, Answer(t) PROVE Base' /\ Decisions'
    <2>1. job[t].at = "asked" /\ UNCHANGED <<memory, ui, active>> /\ job[t].token # None
      BY <1>0, <1>3 DEF Answer, kept, JobShape
    <2>2. StaysIssued(memory'.token)
      BY <1>0, <2>1
    <2>3. PICK j \in JobStates :
            /\ Goto(t, j) /\ JobShape(j) /\ j.got = None /\ ~j.out /\ j.at \notin Renewing
            /\ j.token \in {job[t].token, None}
            /\ Drops(j) => Drops(job[t]) /\ j.token = job[t].token
      <3>1. CASE Goto(t, Idle)
        BY <3>1, IdleFields DEF Drops, Renewing
      <3>2. CASE job[t].renewed /\ Goto(t, GivenUp(t))
        BY <2>1, <3>2, GivenUpFields DEF Drops, Renewing
      <3>3. CASE Goto(t, [job[t] EXCEPT !.at = "renew"])
        <4> DEFINE j == [job[t] EXCEPT !.at = "renew"]
        <4>1. j \in JobStates /\ j.at = "renew" /\ j.token = job[t].token /\ j.got = job[t].got
              /\ j.out = job[t].out /\ j.restoring = job[t].restoring
          BY TypesNow DEF JobStates
        <4> HIDE DEF j
        <4>2. j.got = None /\ ~j.out /\ ~j.restoring
          BY <1>0, <2>1, <4>1 DEF JobShape, Renewing
        <4>3. JobShape(j) /\ ~Drops(j) /\ j.at \notin Renewing
          BY <2>1, <4>1, <4>2 DEF JobShape, Renewing, Drops
        <4> QED
          BY <3>3, <4>1, <4>2, <4>3 DEF j
      <3> QED
        BY <1>3, <3>1, <3>2, <3>3 DEF Answer
    <2>4. StaysIssued(j.token)
      BY <1>0, <2>3
    <2>5. Base'
      BY <1>0, <2>1, <2>2, <2>3, <2>4, ThreadBase
    <2>6. Decisions'
      BY <2>1, <2>3, ThreadQuiet
    <2> QED
      BY <2>5, <2>6
  <1>4. ASSUME NEW t \in Threads, DropToken(t) PROVE Base' /\ Decisions'
    <2>1. job[t].at = "drop" /\ Goto(t, Idle) /\ UNCHANGED <<ui, active>>
      BY <1>4 DEF DropToken, kept
    <2>2. /\ memory'.token \in {memory.token, None}
          /\ memory'.token # memory.token => memory.token = job[t].token
      BY <1>4, TypesNow DEF DropToken, Sessions
    <2>3. StaysIssued(memory'.token) /\ StaysIssued(Idle.token)
      BY <1>0, <2>2, IdleFields
    <2>5. Base'
      BY <1>0, <2>1, <2>3, IdleFields, ThreadBase DEF Renewing
    <2>6. Decisions'
      BY <2>1, <2>2, IdleFields, ThreadQuiet DEF Drops
    <2> QED
      BY <2>5, <2>6
  <1>5. ASSUME NEW t \in Threads, TakeLock(t) PROVE Base' /\ Decisions'
    <2>1. UNCHANGED <<memory, ui, active>>
      BY <1>5 DEF TakeLock, kept
    <2>2. PICK j \in JobStates :
            /\ Goto(t, j) /\ j.at = "asked" /\ j.token = job[t].token /\ j.got = None
            /\ ~j.out /\ ~j.restoring /\ j.token # None /\ (Drops(j) <=> Drops(job[t]))
      BY <1>5, LockTaken
    <2>3. JobShape(j) /\ j.at \notin Renewing
      BY <2>2 DEF JobShape, Renewing
    <2>4. StaysIssued(memory'.token) /\ StaysIssued(j.token)
      BY <1>0, <2>1, <2>2
    <2>5. Base'
      BY <1>0, <2>1, <2>2, <2>3, <2>4, ThreadBase
    <2>6. Decisions'
      BY <2>1, <2>2, ThreadQuiet
    <2> QED
      BY <2>5, <2>6
  <1> QED
    BY <1>1, <1>2, <1>3, <1>4, <1>5

\* A thread takes the lock, or finds that it need not.
LEMMA LockDecides ==
    ASSUME LInv, Next, \E t \in Threads : BeginRestore(t) \/ BeginRenew(t)
    PROVE  Base' /\ Decisions'
  <1>0. /\ StaysIssued(memory.token) /\ \A p \in Ref : IsIssued(p) => StaysIssued(p)
        /\ \A t \in Threads : StaysIssued(job[t].token) /\ StaysIssued(None) /\ JobShape(job[t])
    BY IssuedNow
  <1>1. ASSUME NEW t \in Threads, BeginRestore(t) PROVE Base' /\ Decisions'
    <2>1. RenewLockFree /\ UNCHANGED <<memory, ui, active>>
      BY <1>1 DEF BeginRestore
    <2>2. CASE active /\ vault # None
      <3> DEFINE j == [Idle EXCEPT !.at = "sent", !.sent = vault, !.keep = TRUE, !.restoring = TRUE]
      <3>1. Goto(t, j)
        BY <1>1, <2>2 DEF BeginRestore
      <3>2. j \in JobStates
        BY <2>2, RestoringIsIssued, DeviceNow DEF LInv, IssuedJob
      <3>3. JobShape(j) /\ j.token = None /\ j.got = None /\ ~j.out /\ ~Drops(j)
        BY DEF Idle, JobShape, Renewing, Drops
      <3> HIDE DEF j
      <3>4. Base'
        BY <1>0, <2>1, <3>1, <3>2, <3>3, ThreadBase
      <3>5. Decisions'
        BY <2>1, <3>1, <3>2, <3>3, ThreadQuiet
      <3> QED
        BY <3>4, <3>5
    <2>3. CASE ~(active /\ vault # None)
      <3>1. UNCHANGED job
        BY <1>1, <2>3 DEF BeginRestore
      <3> QED
        BY <2>1, <3>1, UiQuiet, IssuedStays DEF Entering, EntryReady, LInv, Base
    <2> QED
      BY <2>2, <2>3
  <1>2. ASSUME NEW t \in Threads, BeginRenew(t) PROVE Base' /\ Decisions'
    <2>1. /\ job[t].at = "renew" /\ RenewLockFree /\ UNCHANGED <<memory, ui, active>>
          /\ job[t].token # None /\ job[t].got = None /\ ~job[t].out /\ ~job[t].restoring
      BY <1>0, <1>2 DEF BeginRenew, kept, JobShape, Renewing
    <2>2. PICK j \in JobStates :
            /\ Goto(t, j) /\ JobShape(j) /\ j.got = None /\ ~j.out
            /\ j.token \in {memory.token, job[t].token, None}
      <3>1. CASE memory.token # None /\ Goto(t, Retry(t, memory.token))
        BY <3>1, RetryFields, TypesNow
      <3>2. CASE Goto(t, GivenUp(t))
        BY <2>1, <3>2, GivenUpFields
      <3>3. CASE /\ HasCredential
                 /\ Goto(t, [job[t] EXCEPT !.at = "sent", !.sent = memory.refresh, !.keep = memory.keep])
        <4> DEFINE j == [job[t] EXCEPT !.at = "sent", !.sent = memory.refresh, !.keep = memory.keep]
        <4>1. /\ j \in JobStates /\ j.at = "sent" /\ j.token = job[t].token /\ j.got = job[t].got
              /\ j.out = job[t].out /\ j.restoring = job[t].restoring
          BY TypesNow, ZenonT(60) DEF JobStates, Sessions, Renewing
        <4> HIDE DEF j
        <4>2. JobShape(j)
          BY <2>1, <4>1 DEF JobShape, Renewing
        <4> QED
          BY <2>1, <3>3, <4>1, <4>2 DEF j
      <3> QED
        BY <1>2, <3>1, <3>2, <3>3 DEF BeginRenew
    <2>3. StaysIssued(j.token)
      BY <1>0, <2>2
    <2>4. Base'
      BY <1>0, <2>1, <2>2, <2>3, ThreadBase
    <2>5. \A s \in Threads : ~(job[s].out /\ job[s].restoring)
      BY <2>1, NobodyLate
    <2>6. Decisions'
      BY <2>1, <2>2, <2>5, ThreadQuiet
    <2> QED
      BY <2>4, <2>6
  <1> QED
    BY <1>1, <1>2

\* The holder of the lock: the exchange, its failure and what comes of it.
LEMMA HolderLeaves ==
    ASSUME LInv, Next, \E t \in Threads : Unreachable(t) \/ RenewRefused(t) \/ RestoreRefused(t)
                                         \/ Renewed(t) \/ Restored(t)
    PROVE  Base' /\ Decisions'
  <1> SUFFICES ASSUME NEW t \in Threads, Unreachable(t) \/ RenewRefused(t) \/ RestoreRefused(t)
                                          \/ Renewed(t) \/ Restored(t)
               PROVE  Base' /\ Decisions'
    OBVIOUS
  <1>0. /\ StaysIssued(memory.token) /\ \A p \in Ref : IsIssued(p) => StaysIssued(p)
        /\ StaysIssued(job[t].token) /\ StaysIssued(None) /\ JobShape(job[t])
    BY IssuedNow
  <1>1. StaysIssued(job[t].got)
    <2>1. IsIssued(job[t].got)
      BY DEF LInv, IInv, Held
    <2> QED
      BY <1>0, <2>1, TypesNow
  <1>2. HoldsRenewLock(t) /\ UNCHANGED ui
    BY DEF Unreachable, RenewRefused, RestoreRefused, Renewed, Restored, HoldsRenewLock, Renewing
  <1>3. memory'.token \in {memory.token, job[t].got}
    <2>1. memory \in Sessions
      BY TypesNow
    <2>2. CASE Unreachable(t) \/ RestoreRefused(t)
      BY <2>2 DEF Unreachable, RestoreRefused
    <2>3. CASE RenewRefused(t)
      BY <2>1, <2>3 DEF RenewRefused, Sessions
    <2>4. CASE Renewed(t)
      BY <2>1, <2>4 DEF Renewed, Sessions
    <2>5. CASE Restored(t)
      BY <2>5 DEF Restored
    <2> QED
      BY <2>2, <2>3, <2>4, <2>5
  <1>4. PICK j \in JobStates :
          Goto(t, j) /\ JobShape(j) /\ j.got = None /\ ~j.out /\ j.at \notin Renewing
          /\ j.token \in {job[t].token, job[t].got, None}
    <2>1. CASE Unreachable(t) \/ RestoreRefused(t) \/ Restored(t)
      BY <2>1, IdleFields DEF Unreachable, RestoreRefused, Restored, Renewing
    <2>2. CASE RenewRefused(t)
      <3>1. job[t].token # None /\ Goto(t, GivenUp(t))
        BY <1>0, <2>2 DEF RenewRefused, JobShape, Renewing
      <3> QED
        BY <3>1, GivenUpFields DEF Renewing
    <2>3. CASE Renewed(t)
      <3>1. job[t].token # None /\ job[t].got # None /\ job[t].got \in Ref
        BY <1>0, <2>3, TypesNow DEF Renewed, JobShape, Renewing
      <3>2. Goto(t, GivenUp(t)) \/ Goto(t, Retry(t, job[t].got))
        BY <2>3 DEF Renewed
      <3> QED
        BY <3>1, <3>2, GivenUpFields, RetryFields DEF Renewing
    <2> QED
      BY <2>1, <2>2, <2>3
  <1>5. StaysIssued(j.token) /\ StaysIssued(memory'.token)
    BY <1>0, <1>1, <1>3, <1>4
  <1>6. Base'
    BY <1>0, <1>2, <1>4, <1>5, ThreadBase
  <1>7. Decisions'
    BY <1>2, <1>4, AfterTheLock
  <1> QED
    BY <1>6, <1>7

LEMMA HolderStays ==
    ASSUME LInv, Next, \E t \in Threads : SaveKept(t) \/ Exchange(t)
    PROVE  Base' /\ Decisions'
  <1> SUFFICES ASSUME NEW t \in Threads, SaveKept(t) \/ Exchange(t) PROVE Base' /\ Decisions'
    OBVIOUS
  <1>0. /\ StaysIssued(memory.token) /\ \A p \in Ref : IsIssued(p) => StaysIssued(p)
        /\ StaysIssued(job[t].token) /\ StaysIssued(None) /\ JobShape(job[t])
    BY IssuedNow
  <1>1. HoldsRenewLock(t) /\ UNCHANGED <<memory, ui, active>> /\ job[t] \in JobStates
    BY TypesNow DEF SaveKept, Exchange, kept, HoldsRenewLock, Renewing
  <1>2. CASE SaveKept(t)
    <2> DEFINE j == [job[t] EXCEPT !.at = "saved"]
    <2>1. /\ Goto(t, j) /\ job[t].at = "got" /\ j \in JobStates /\ j.at = "saved" /\ j.token = job[t].token
          /\ j.got = job[t].got /\ j.out = job[t].out /\ j.restoring = job[t].restoring
      BY <1>1, <1>2 DEF SaveKept, JobStates, Renewing
    <2> HIDE DEF j
    <2>2. JobShape(j) /\ ~Drops(j)
      BY <1>0, <2>1 DEF JobShape, Renewing, Drops
    <2>3. Base'
      BY <1>0, <1>1, <2>1, <2>2, ThreadBase
    <2>4. Decisions'
      BY <1>1, <2>1, <2>2, ThreadQuiet
    <2> QED
      BY <2>3, <2>4
  <1>3. CASE Exchange(t) /\ ~Rotates(job[t].sent)
    <2> DEFINE j == [job[t] EXCEPT !.at = "refused"]
    <2>1. /\ Goto(t, j) /\ job[t].at = "sent" /\ j \in JobStates /\ j.at = "refused" /\ j.token = job[t].token
          /\ j.got = job[t].got /\ j.out = job[t].out /\ j.restoring = job[t].restoring
      BY <1>1, <1>3 DEF Exchange, JobStates, Renewing
    <2> HIDE DEF j
    <2>2. JobShape(j) /\ ~Drops(j)
      BY <1>0, <2>1 DEF JobShape, Renewing, Drops
    <2>3. Base'
      BY <1>0, <1>1, <2>1, <2>2, ThreadBase
    <2>4. Decisions'
      BY <1>1, <2>1, <2>2, ThreadQuiet
    <2> QED
      BY <2>3, <2>4
  <1>4. CASE Exchange(t) /\ Rotates(job[t].sent)
    <2> DEFINE j == [job[t] EXCEPT !.at = "got", !.got = New]
    <2>1. New \in Pairs /\ New # None /\ New \in Ref /\ pair[New].family = None
      BY <1>4, NewIsNew, NoneIsNoPair DEF Exchange, Ref
    <2>2. /\ Goto(t, j) /\ job[t].at = "sent" /\ j \in JobStates /\ j.at = "got" /\ j.token = job[t].token
          /\ j.got = New /\ j.out = job[t].out /\ j.restoring = job[t].restoring
      BY <1>1, <1>4, <2>1 DEF Exchange, JobStates, Renewing
    <2> HIDE DEF j
    <2>3. JobShape(j) /\ ~Drops(j)
      BY <1>0, <2>1, <2>2 DEF JobShape, Renewing, Drops
    <2>4. Base'
      BY <1>0, <1>1, <2>2, <2>3, ThreadBase
    <2>5. job'[t] = j /\ \A s \in Threads \ {t} : job'[s] = job[s]
      BY <2>2, TypesNow DEF Goto
    <2>6. /\ memory.token # New /\ Entering # New
          /\ \A s \in Threads : job[s].token # New
      BY <2>1, DeviceNow DEF LInv, Base, TokensIssued, IsIssued, Entering, UiOK
    <2>7. Entering' = Entering
      BY <1>1 DEF Entering
    <2>8. Private'
      <3>1. \A s \in Threads \ {t} : job'[s].got = None
        BY <1>1, <2>5, OnlyTheHolder
      <3>2. \A s \in Threads : job'[s].token # New
        BY <2>2, <2>5, <2>6
      <3> QED
        BY <1>1, <2>2, <2>5, <2>6, <2>7, <3>1, <3>2 DEF Private, Passed
    <2>9. LateRenewal'
      BY <1>1, <2>2, <2>5, <2>7 DEF LInv, Decisions, LateRenewal, Passed
    <2>10. LateRestoring'
      BY <1>1, <2>2, <2>3, <2>5, <2>7 DEF LInv, Decisions, LateRestoring, Passed, Drops
    <2> QED
      BY <2>4, <2>8, <2>9, <2>10 DEF Decisions
  <1> QED
    BY <1>2, <1>3, <1>4

-----------------------------------------------------------------------------
(* A session is restored before any thread uses one.                       *)

LEMMA ThreadFirst ==
    ASSUME LInv, NEW t \in Threads, NEW j \in JobStates, Goto(t, j), restorable' => restorable,
           restorable' => memory'.token = None /\ (j.at = "idle" \/ (j.restoring /\ j.at # "saved")),
           j.restoring => j.at # "again" /\ (job[t].restoring \/ restorable),
           j.at = "again" => RenewLockFree \/ HoldsRenewLock(t)
    PROVE  RestoredFirst'
  <1>1. job'[t] = j /\ \A s \in Threads \ {t} : job'[s] = job[s]
    BY TypesNow DEF Goto
  <1>2. restorable' => /\ memory'.token = None
                       /\ \A s \in Threads : job'[s].at = "idle" \/ (job'[s].restoring /\ job'[s].at # "saved")
    BY <1>1 DEF LInv, RestoredFirst
  <1>3. ASSUME NEW s \in Threads, j.restoring PROVE job'[s].at # "again"
    <2>1. job[s].restoring => job[s].at # "again"
      BY DEF LInv, RestoredFirst
    <2> QED
      BY <1>1, <1>3, <2>1 DEF LInv, RestoredFirst
  <1>4. ASSUME NEW s \in Threads \ {t}, job[s].restoring PROVE j.at # "again"
    <2>1. HoldsRenewLock(s)
      BY <1>4 DEF LInv, Base, Shaped, JobShape, HoldsRenewLock
    <2> QED
      BY <2>1, <1>4, OnlyTheHolder DEF RenewLockFree
  <1>5. \A s, u \in Threads : job'[s].restoring => job'[u].at # "again"
    BY <1>1, <1>3, <1>4 DEF LInv, RestoredFirst
  <1> QED
    BY <1>2, <1>5 DEF RestoredFirst

LEMMA UserFirst ==
    ASSUME LInv,
           \/ \E p \in Pairs : ExpireToken(p) \/ EndGrace(p)
           \/ ResetPassword \/ Restart \/ \E keep \in BOOLEAN : SignIn(keep)
           \/ Start \/ Establish \/ SignOut \/ Revoke \/ RevokeLost
           \/ UNCHANGED vars
    PROVE  RestoredFirst'
  <1>1. CASE UNCHANGED <<job, memory, restorable>>
    BY <1>1 DEF LInv, RestoredFirst
  <1>2. CASE Restart
    BY <1>2 DEF Restart, RestoredFirst, Idle, NoSession
  <1>3. CASE Establish
    BY <1>3 DEF Establish, LInv, RestoredFirst
  <1>4. CASE SignOut
    <2>1. \A t \in Threads : job'[t].at = job[t].at /\ job'[t].restoring = job[t].restoring
      BY <1>4, TypesNow DEF SignOut, JobStates
    <2> QED
      BY <1>4, <2>1 DEF SignOut, LInv, RestoredFirst
  <1> QED
    BY <1>1, <1>2, <1>3, <1>4
       DEF ExpireToken, EndGrace, ResetPassword, SignIn, Start, Revoke, RevokeLost, kept, vars

LEMMA CallerFirst ==
    ASSUME LInv, \E t \in Threads : Again(t) \/ Request(t) \/ TakeLock(t) \/ Answer(t) \/ DropToken(t)
                                    \/ BeginRestore(t) \/ BeginRenew(t)
    PROVE  RestoredFirst'
  <1> SUFFICES ASSUME NEW t \in Threads, \/ Again(t) \/ Request(t) \/ TakeLock(t) \/ Answer(t) \/ DropToken(t)
                                         \/ BeginRestore(t) \/ BeginRenew(t)
               PROVE  RestoredFirst'
    OBVIOUS
  <1>1. JobShape(job[t])
    BY DEF LInv, Base, Shaped
  <1>2. CASE \/ Again(t) \/ Request(t) \/ TakeLock(t) \/ Answer(t) \/ DropToken(t) \/ BeginRenew(t)
    <2>1. UNCHANGED restorable /\ ~restorable
      <3>1. UNCHANGED restorable
        BY <1>2 DEF Again, Request, TakeLock, Answer, DropToken, BeginRenew, kept
      <3>2. CASE Request(t)
        BY <3>1, <3>2 DEF Request, LInv, RestoredFirst
      <3>3. CASE Again(t) \/ TakeLock(t) \/ Answer(t) \/ DropToken(t) \/ BeginRenew(t)
        BY <1>1, <3>1, <3>3 DEF Again, TakeLock, Answer, DropToken, BeginRenew, LInv, RestoredFirst, JobShape, Renewing
      <3> QED
        BY <1>2, <3>2, <3>3, <3>1
    <2>2. PICK j \in JobStates : Goto(t, j) /\ ~j.restoring /\ (j.at = "again" => RenewLockFree)
      <3>1. CASE Goto(t, Idle)
        BY <3>1, IdleFields
      <3>2. CASE Goto(t, GivenUp(t))
        <4>1. GivenUp(t).at = "drop" /\ ~GivenUp(t).restoring /\ GivenUp(t) \in JobStates
          BY GivenUpFields DEF GivenUp, Idle
        <4> QED
          BY <3>2, <4>1
      <3>3. CASE Request(t)
        BY <3>3, RequestMade DEF RequestFields
      <3>4. CASE TakeLock(t)
        BY <3>4, LockTaken
      <3>5. CASE Again(t) /\ memory.token # None
        <4> DEFINE j == [Idle EXCEPT !.at = "called", !.token = memory.token, !.renewed = TRUE, !.syncs = TRUE]
        <4>0. j \in JobStates
          BY IdleIsIssued, TypesNow DEF IssuedJob
        <4>1. Goto(t, j)
          BY <3>5, SMTT(60) DEF Again
        <4>2. ~j.restoring /\ j.at = "called"
          BY DEF Idle
        <4> HIDE DEF j
        <4> QED
          BY <4>0, <4>1, <4>2, SMTT(30)
      <3>6. CASE Answer(t) /\ Goto(t, [job[t] EXCEPT !.at = "renew"])
        <4> DEFINE j == [job[t] EXCEPT !.at = "renew"]
        <4>1. j \in JobStates /\ j.at = "renew" /\ j.restoring = job[t].restoring
          BY TypesNow DEF JobStates
        <4>2. ~job[t].restoring
          BY <1>1, <3>6 DEF Answer, JobShape, Renewing
        <4> HIDE DEF j
        <4> QED
          BY <3>6, <4>1, <4>2 DEF j
      <3>7. CASE BeginRenew(t) /\ memory.token # None /\ Goto(t, Retry(t, memory.token))
        <4>1. Retry(t, memory.token) \in JobStates /\ ~Retry(t, memory.token).restoring
          BY <3>7, RetryFields, TypesNow DEF Retry, Idle
        <4> QED
          BY <3>7, <4>1 DEF BeginRenew
      <3>8. CASE /\ BeginRenew(t)
                 /\ Goto(t, [job[t] EXCEPT !.at = "sent", !.sent = memory.refresh, !.keep = memory.keep])
        <4> DEFINE j == [job[t] EXCEPT !.at = "sent", !.sent = memory.refresh, !.keep = memory.keep]
        <4>1. j \in JobStates /\ j.at = "sent" /\ j.restoring = job[t].restoring
          BY TypesNow, ZenonT(60) DEF JobStates, Sessions, Renewing
        <4>2. ~job[t].restoring
          BY <1>1, <3>8 DEF BeginRenew, JobShape, Renewing
        <4> HIDE DEF j
        <4> QED
          BY <3>8, <4>1, <4>2 DEF j
      <3>9. CASE Again(t)
        BY <3>1, <3>5, <3>9 DEF Again
      <3>10. CASE Answer(t)
        BY <3>1, <3>2, <3>6, <3>10 DEF Answer
      <3>11. CASE DropToken(t)
        BY <3>1, <3>11 DEF DropToken
      <3>12. CASE BeginRenew(t)
        BY <3>2, <3>7, <3>8, <3>12 DEF BeginRenew
      <3> QED
        BY <1>2, <3>3, <3>4, <3>9, <3>10, <3>11, <3>12
    <2> QED
      BY <2>1, <2>2, ThreadFirst
  <1>3. CASE BeginRestore(t)
    <2>1. memory.token = None /\ restorable /\ RenewLockFree /\ UNCHANGED memory
      BY <1>3 DEF BeginRestore
    <2>2. CASE active /\ vault # None
      <3> DEFINE j == [Idle EXCEPT !.at = "sent", !.sent = vault, !.keep = TRUE, !.restoring = TRUE]
      <3>1. Goto(t, j) /\ UNCHANGED restorable
        BY <1>3, <2>2 DEF BeginRestore
      <3>2. j \in JobStates
        BY <2>2, RestoringIsIssued, DeviceNow DEF LInv, IssuedJob
      <3>3. j.restoring /\ j.at = "sent"
        BY DEF Idle
      <3> HIDE DEF j
      <3> QED
        BY <2>1, <3>1, <3>2, <3>3, ThreadFirst
    <2>3. CASE ~(active /\ vault # None)
      BY <1>3, <2>1, <2>3 DEF BeginRestore, LInv, RestoredFirst
    <2> QED
      BY <2>2, <2>3
  <1> QED
    BY <1>2, <1>3

LEMMA HolderFirst ==
    ASSUME LInv, \E t \in Threads : Unreachable(t) \/ RenewRefused(t) \/ RestoreRefused(t) \/ SaveKept(t)
                                    \/ Renewed(t) \/ Restored(t) \/ Exchange(t)
    PROVE  RestoredFirst'
  <1> SUFFICES ASSUME NEW t \in Threads, \/ Unreachable(t) \/ RenewRefused(t) \/ RestoreRefused(t) \/ SaveKept(t)
                                         \/ Renewed(t) \/ Restored(t) \/ Exchange(t)
               PROVE  RestoredFirst'
    OBVIOUS
  <1>1. /\ HoldsRenewLock(t) /\ JobShape(job[t]) /\ job[t] \in JobStates
        /\ restorable => job[t].restoring /\ job[t].at # "saved" /\ memory.token = None
    BY TypesNow DEF LInv, Base, Shaped, RestoredFirst, HoldsRenewLock, Renewing, Unreachable, RenewRefused,
                    RestoreRefused, SaveKept, Renewed, Restored, Exchange
  <1>2. CASE Unreachable(t) \/ RestoreRefused(t) \/ Restored(t)
    <2>1. Goto(t, Idle) /\ (restorable' => restorable)
      BY <1>2 DEF Unreachable, RestoreRefused, Restored, kept
    <2>2. restorable' => memory'.token = None
      BY <1>1, <1>2, <2>1 DEF Unreachable, RestoreRefused, Restored
    <2> QED
      BY <2>1, <2>2, IdleFields, ThreadFirst
  <1>3. CASE RenewRefused(t) \/ Renewed(t)
    <2>1. ~restorable /\ UNCHANGED restorable
      BY <1>1, <1>3 DEF RenewRefused, Renewed, kept
    <2>2. PICK j \in JobStates : Goto(t, j) /\ ~j.restoring
      <3>1. CASE Goto(t, GivenUp(t))
        BY <3>1, GivenUpFields DEF GivenUp, Idle
      <3>2. CASE Renewed(t) /\ Goto(t, Retry(t, job[t].got))
        <4>1. job[t].got # None /\ job[t].got \in Ref
          BY <1>1, <3>2, TypesNow DEF Renewed, JobShape, Renewing
        <4>2. Retry(t, job[t].got) \in JobStates /\ ~Retry(t, job[t].got).restoring
          BY <4>1, RetryFields DEF Retry, Idle
        <4> QED
          BY <3>2, <4>2
      <3> QED
        BY <1>3, <3>1, <3>2 DEF RenewRefused, Renewed
    <2> QED
      BY <1>1, <2>1, <2>2, ThreadFirst
  <1>4. CASE SaveKept(t)
    <2> DEFINE j == [job[t] EXCEPT !.at = "saved"]
    <2>1. j \in JobStates /\ j.at = "saved" /\ j.restoring = job[t].restoring
      BY <1>1 DEF JobStates, Renewing
    <2>2. Goto(t, j) /\ ~restorable'
      BY <1>1, <1>4 DEF SaveKept
    <2> HIDE DEF j
    <2> QED
      BY <1>1, <2>1, <2>2, ThreadFirst
  <1>5. CASE Exchange(t)
    <2>1. UNCHANGED <<memory, restorable>>
      BY <1>5 DEF Exchange, kept
    <2>2. PICK j \in JobStates : Goto(t, j) /\ j.at \in {"got", "refused"} /\ j.restoring = job[t].restoring
      <3>1. ASSUME Rotates(job[t].sent) PROVE New \in Ref
        BY <1>5, <3>1, NewIsNew DEF Exchange, Ref
      <3>2. CASE Rotates(job[t].sent)
        <4> DEFINE j == [job[t] EXCEPT !.at = "got", !.got = New]
        <4>1. Goto(t, j) /\ j \in JobStates /\ j.at = "got" /\ j.restoring = job[t].restoring
          BY <1>1, <1>5, <3>1, <3>2 DEF Exchange, JobStates, Renewing
        <4> HIDE DEF j
        <4> QED
          BY <4>1
      <3>3. CASE ~Rotates(job[t].sent)
        <4> DEFINE j == [job[t] EXCEPT !.at = "refused"]
        <4>1. Goto(t, j) /\ j \in JobStates /\ j.at = "refused" /\ j.restoring = job[t].restoring
          BY <1>1, <1>5, <3>3 DEF Exchange, JobStates, Renewing
        <4> HIDE DEF j
        <4> QED
          BY <4>1
      <3> QED
        BY <3>2, <3>3
    <2> QED
      BY <1>1, <2>1, <2>2, ThreadFirst
  <1> QED
    BY <1>2, <1>3, <1>4, <1>5

-----------------------------------------------------------------------------
LEMMA StepDecisions == LInv /\ [Next]_vars => LInv'
  <1> SUFFICES ASSUME LInv, [Next]_vars PROVE LInv'
    OBVIOUS
  <1>1. IInv'
    BY StepInv DEF LInv
  <1>2. CASE UNCHANGED vars
    <2>1. \A p \in Ref : IsIssued(p) => IsIssued(p)'
      BY <1>2 DEF vars, IsIssued
    <2>2. RestoredFirst'
      BY <1>2, UserFirst
    <2> QED
      BY <1>1, <1>2, <2>1, <2>2, UiQuiet DEF vars, Entering, EntryReady, LInv, Base
  <1>3. CASE Next
    <2>1. Base' /\ Decisions'
      BY <1>3, UserDecides, CallerDecides, LockDecides, HolderLeaves, HolderStays DEF Next
    <2>2. RestoredFirst'
      BY <1>3, UserFirst, CallerFirst, HolderFirst DEF Next
    <2> QED
      BY <1>1, <2>1, <2>2 DEF LInv
  <1> QED
    BY <1>2, <1>3

\* Whoever holds the lock when the user signs out finds, when it decides, that its answer is not wanted.
LEMMA NotGiven ==
    ASSUME LInv, [Next]_vars, NEW t \in Threads, job[t].out, job[t].got # None
    PROVE  memory'.token # job[t].got
  <1>1. memory.token # job[t].got /\ Entering # job[t].got
    BY DEF LInv, Decisions, Private, Passed
  <1>2. HoldsRenewLock(t) /\ JobShape(job[t])
    BY DEF LInv, Base, Shaped, JobShape, HoldsRenewLock
  <1>3. CASE memory'.token \in {memory.token, None}
    BY <1>1, <1>3
  <1>4. CASE Establish
    BY <1>1, <1>4 DEF Establish, Entering
  <1>5. ASSUME NEW s \in Threads, Renewed(s) PROVE memory'.token = memory.token
    <2>1. s = t
      BY <1>2, <1>5 DEF Renewed, LInv, Base, OneAtATime, HoldsRenewLock, Renewing
    <2>2. Replaced(t)
      BY <1>5, <2>1 DEF Renewed, LInv, Decisions, LateRenewal, Passed, Replaced
    <2> QED
      BY <1>5, <2>1, <2>2 DEF Renewed
  <1>6. ASSUME NEW s \in Threads, Restored(s) PROVE memory'.token = memory.token
    <2>1. s = t
      BY <1>2, <1>6 DEF Restored, LInv, Base, OneAtATime, HoldsRenewLock, Renewing
    <2>2. Decided
      BY <1>6, <2>1 DEF Restored, LInv, Decisions, LateRestoring, Decided
    <2> QED
      BY <1>6, <2>1, <2>2 DEF Restored
  <1>7. CASE UNCHANGED memory
    BY <1>3, <1>7
  <1>8. ASSUME SignOut \/ Restart PROVE memory'.token = None
    BY <1>8 DEF SignOut, Restart, NoSession
  <1>9. ASSUME NEW s \in Threads, DropToken(s) \/ RenewRefused(s) PROVE memory'.token \in {memory.token, None}
    BY <1>9, TypesNow DEF DropToken, RenewRefused, Sessions
  <1>10. ASSUME \/ \E p \in Pairs : ExpireToken(p) \/ EndGrace(p)
                \/ ResetPassword \/ Start \/ Revoke \/ RevokeLost
                \/ \E keep \in BOOLEAN : SignIn(keep)
         PROVE  UNCHANGED memory
    BY <1>10 DEF ExpireToken, EndGrace, ResetPassword, Start, Revoke, RevokeLost, SignIn
  <1>11. ASSUME NEW s \in Threads,
                \/ BeginRestore(s) \/ Again(s) \/ TakeLock(s)
                \/ Request(s) \/ Answer(s) \/ BeginRenew(s) \/ Exchange(s) \/ Unreachable(s)
                \/ RestoreRefused(s) \/ SaveKept(s)
         PROVE  UNCHANGED memory
    BY <1>11 DEF BeginRestore, Again, TakeLock, Request, Answer, BeginRenew, Exchange, Unreachable, RestoreRefused, SaveKept
  <1>12. CASE UNCHANGED vars
    BY <1>7, <1>12 DEF vars
  <1> QED
    BY <1>3, <1>4, <1>5, <1>6, <1>7, <1>8, <1>9, <1>10, <1>11, <1>12 DEF Next

\* A renewal or a restoring that was under way when the user signed out never gives the device the
\* session it obtained, whatever the user and the other threads did since (_renew,
\* restore_session and sign_out of app/sync/service.py).
THEOREM SignOutStands == Spec => NoLateSession
  <1>1. LInv /\ [Next]_vars => \A t \in Threads : job[t].out /\ job[t].got # None => memory'.token # job[t].got
    BY NotGiven
  <1>2. Init => LInv
    BY InitDecisions
  <1>3. LInv /\ [Next]_vars => LInv'
    BY StepDecisions
  <1> QED
    BY <1>1, <1>2, <1>3, PTL DEF Spec, NoLateSession

-----------------------------------------------------------------------------
(* What the device holds without a fault.  A credential that is spent is   *)
(* held only by the thread that spent it, and where that thread is about   *)
(* to replace it: in memory, while the token it renews is still there, and *)
(* in the vault until the new one is saved (Renewal, MemoryUnspent,        *)
(* VaultUnspent).  For that, nobody else may hold what a sign-in is about  *)
(* to establish (EntryNew) or a thread has obtained (Obtained), and the    *)
(* vault holds memory's credential only if memory says so (KeepVault).     *)

NoRestore ==
    /\ \A t \in Threads : ~job[t].restoring
    /\ restorable => vault = None /\ memory.token = None /\ \A t \in Threads : job[t].at = "idle"
EntryNew == Entering # None =>
    /\ ~Spent(Entering)
    /\ Entering \notin {memory.token, memory.refresh, vault}
    /\ \A t \in Threads : Entering \notin {job[t].token, job[t].sent}
Obtained == \A t \in Threads : job[t].got # None =>
    /\ ~Spent(job[t].got)
    /\ job[t].got \notin {memory.refresh, job[t].sent}
    /\ vault = job[t].got => job[t].keep
Renewal == \A t \in Threads : HoldsRenewLock(t) =>
    /\ job[t].at = "sent" => ~Spent(job[t].sent)
    /\ memory.token = job[t].token => memory.keep = job[t].keep
    /\ memory.refresh = job[t].sent => memory.token \in {job[t].token, None}
    /\ vault = job[t].sent => job[t].keep /\ job[t].at # "saved"
MemoryUnspent == memory.token # None /\ memory.refresh # None /\ Spent(memory.refresh) =>
    \E t \in Threads : job[t].at \in {"got", "saved"} /\ job[t].sent = memory.refresh
VaultUnspent == vault # None /\ Spent(vault) =>
    \E t \in Threads : job[t].at = "got" /\ job[t].sent = vault
KeepVault == vault # None /\ vault = memory.refresh => memory.keep

Careful ==
    /\ NoRestore /\ EntryNew /\ Obtained /\ Renewal /\ ~alarm
    /\ MemoryUnspent /\ VaultUnspent /\ KeepVault
CInv == LInv /\ (faults = 0 => Careful)

LEMMA InitCareful == Init => CInv
  <1> SUFFICES ASSUME Init PROVE CInv
    OBVIOUS
  <1>1. \A t \in Threads : job[t] = Idle
    BY DEF Init
  <1>2. NoRestore /\ EntryNew /\ ~alarm
    BY <1>1 DEF Init, NoRestore, EntryNew, Entering, Idle, NoSession, Free
  <1>3. Obtained /\ Renewal /\ MemoryUnspent /\ VaultUnspent /\ KeepVault
    BY <1>1 DEF Init, Obtained, Renewal, HoldsRenewLock, Renewing, MemoryUnspent, VaultUnspent, KeepVault,
                Idle, NoSession
  <1> QED
    BY <1>2, <1>3, InitDecisions DEF CInv, Careful

SameSpent == \A p \in Pairs : Spent(p)' <=> Spent(p)

\* The user, the server or the clock, as far as no session is taken or given.
LEMMA CarefulUser ==
    ASSUME LInv, Careful, UNCHANGED <<job, memory, vault, alarm>>, SameSpent,
           Entering' \in {Entering, None}, restorable' => restorable
    PROVE  Careful'
  <1>1. /\ memory.refresh \in Ref /\ vault \in Ref /\ Entering \in Ref
        /\ \A t \in Threads : job[t].sent \in Ref /\ job[t].got \in Ref
    BY TypesNow DEF Sessions
  <1>2. \A t \in Threads : HoldsRenewLock(t) => job[t].sent # None
    BY DEF LInv, IInv, TypeOK, HoldsRenewLock
  <1>3. \A p \in Ref : p # None => (Spent(p)' <=> Spent(p))
    BY DEF SameSpent, Ref
  <1>4. NoRestore' /\ ~alarm' /\ KeepVault'
    BY DEF Careful, NoRestore, KeepVault
  <1>5. EntryNew'
    BY <1>1, <1>3 DEF Careful, EntryNew
  <1>6. Obtained'
    BY <1>1, <1>3 DEF Careful, Obtained
  <1>7. Renewal'
    <2>1. \A t \in Threads : HoldsRenewLock(t)' <=> HoldsRenewLock(t)
      BY DEF HoldsRenewLock
    <2>2. \A t \in Threads : HoldsRenewLock(t) => (Spent(job[t].sent)' <=> Spent(job[t].sent))
      BY <1>1, <1>2, <1>3
    <2> QED
      BY <2>1, <2>2 DEF Careful, Renewal
  <1>8. MemoryUnspent' /\ VaultUnspent'
    BY <1>1, <1>3 DEF Careful, MemoryUnspent, VaultUnspent
  <1> QED
    BY <1>4, <1>5, <1>6, <1>7, <1>8 DEF Careful

\* A thread that does not hold the lock: it goes on with a token in use, or drops one.
LEMMA CarefulThread ==
    ASSUME LInv, Careful, NEW t \in Threads, NEW j \in JobStates, Goto(t, j), ~HoldsRenewLock(t),
           UNCHANGED <<server, vault, restorable, ui>>,
           memory' \in {memory, [memory EXCEPT !.token = None]},
           job[t].at # "idle" \/ memory.token # None,
           j.at \notin Renewing, ~j.restoring, j.got = None,
           j.token \in {job[t].token, memory.token, None}, j.sent \in {job[t].sent, None}
    PROVE  Careful'
  <1>1. job'[t] = j /\ \A s \in Threads \ {t} : job'[s] = job[s]
    BY TypesNow DEF Goto
  <1>2. /\ memory'.refresh = memory.refresh /\ memory'.keep = memory.keep
        /\ memory'.token \in {memory.token, None}
    BY TypesNow DEF Sessions
  <1>3. \A p : Spent(p)' <=> Spent(p)
    BY DEF server, Spent
  <1>4. Entering' = Entering /\ alarm' = alarm
    BY DEF Entering, server
  <1>5. NoRestore'
    BY <1>1 DEF Careful, NoRestore
  <1>6. EntryNew'
    BY <1>1, <1>2, <1>3, <1>4 DEF Careful, EntryNew
  <1>7. Obtained'
    BY <1>1, <1>2, <1>3 DEF Careful, Obtained
  <1>8. Renewal'
    <2> SUFFICES ASSUME NEW s \in Threads, HoldsRenewLock(s)'
                 PROVE  /\ job'[s].at = "sent" => ~Spent(job[s].sent)'
                        /\ memory'.token = job'[s].token => memory'.keep = job'[s].keep
                        /\ memory'.refresh = job'[s].sent => memory'.token \in {job'[s].token, None}
                        /\ vault' = job'[s].sent => job'[s].keep /\ job'[s].at # "saved"
      BY DEF Renewal
    <2>1. s # t /\ job'[s] = job[s] /\ HoldsRenewLock(s)
      BY <1>1 DEF HoldsRenewLock
    <2>2. job[s].token # None
      BY <2>1 DEF LInv, Base, Shaped, JobShape, HoldsRenewLock, Careful, NoRestore
    <2> QED
      BY <1>2, <1>3, <2>1, <2>2 DEF Careful, Renewal
  <1>9. MemoryUnspent' /\ VaultUnspent'
    <2>1. job[t].at \notin {"got", "saved"}
      BY DEF HoldsRenewLock, Renewing
    <2> QED
      BY <1>1, <1>2, <1>3, <2>1 DEF Careful, MemoryUnspent, VaultUnspent
  <1>10. KeepVault'
    BY <1>2 DEF Careful, KeepVault
  <1> QED
    BY <1>4, <1>5, <1>6, <1>7, <1>8, <1>9, <1>10 DEF Careful

LEMMA CarefulStart == ASSUME LInv, Careful, Start PROVE Careful'
  <1>0. PICK n \in Pairs : n = New /\ n # None /\ pair[n].family = None
    BY NewIsNew, NoneIsNoPair DEF Start
  <1>1. UNCHANGED <<job, memory, vault, restorable, alarm>>
    BY DEF Start, kept
  <1>2. ui'.at = "in" /\ ui'.pair = n /\ Entering' = n
    BY <1>0, TypesNow DEF Start, UiStates, Entering
  <1>3. ~Spent(n)' /\ \A p \in Pairs \ {n} : Spent(p)' <=> Spent(p)
    <2>1. pair \in [Pairs -> PairStates] /\ pair' = [pair EXCEPT ![n] = NewPair(n)]
      BY <1>0 DEF Start, LInv, IInv, TypeOK
    <2> QED
      BY <1>0, <2>1 DEF Spent, NewPair
  <1>4. /\ n \notin {memory.token, memory.refresh, vault}
        /\ \A t \in Threads : n \notin {job[t].token, job[t].sent, job[t].got}
    BY <1>0 DEF LInv, IInv, Held, Base, TokensIssued, IsIssued
  <1>5. /\ memory.refresh \in Ref /\ vault \in Ref
        /\ \A t \in Threads : job[t].sent \in Ref /\ job[t].got \in Ref
    BY TypesNow DEF Sessions
  <1>6. \A p \in Ref : p # None /\ p # n => (Spent(p)' <=> Spent(p))
    BY <1>3 DEF Ref
  <1>7. NoRestore' /\ ~alarm' /\ KeepVault'
    BY <1>1 DEF Careful, NoRestore, KeepVault
  <1>8. EntryNew'
    BY <1>1, <1>2, <1>3, <1>4 DEF EntryNew, Spent
  <1>9. Obtained'
    BY <1>1, <1>4, <1>5, <1>6 DEF Careful, Obtained
  <1>10. Renewal'
    <2>1. \A t \in Threads : (HoldsRenewLock(t)' <=> HoldsRenewLock(t)) /\ (HoldsRenewLock(t) => job[t].sent # None)
      BY <1>1 DEF HoldsRenewLock, LInv, IInv, TypeOK
    <2>2. \A t \in Threads : HoldsRenewLock(t) => (Spent(job[t].sent)' <=> Spent(job[t].sent))
      BY <1>1, <1>4, <1>5, <1>6, <2>1 DEF Spent
    <2> QED
      BY <1>1, <2>1, <2>2 DEF Careful, Renewal
  <1>11. MemoryUnspent' /\ VaultUnspent'
    BY <1>1, <1>4, <1>5, <1>6 DEF Careful, MemoryUnspent, VaultUnspent
  <1> QED
    BY <1>7, <1>8, <1>9, <1>10, <1>11 DEF Careful

LEMMA CarefulEstablish == ASSUME LInv, Careful, Establish PROVE Careful'
  <1>1. /\ memory' = [token |-> ui.pair, refresh |-> ui.pair, replaced |-> None, keep |-> ui.keep]
        /\ vault' = (IF ui.keep THEN ui.pair ELSE None)
        /\ ~restorable' /\ ui' = Free /\ UNCHANGED <<server, job>>
    BY DEF Establish
  <1>2. Entering = ui.pair /\ ui.pair # None /\ Entering' = None
    BY <1>1 DEF Establish, Entering, Free, LInv, Base, EntryReady
  <1>3. \A p : Spent(p)' <=> Spent(p)
    BY <1>1 DEF server, Spent
  <1>4. /\ ~Spent(ui.pair)
        /\ \A t \in Threads : ui.pair \notin {job[t].token, job[t].sent, job[t].got}
    BY <1>2 DEF Careful, EntryNew, LInv, Decisions, Private, Passed
  <1>5. NoRestore' /\ EntryNew' /\ ~alarm' /\ KeepVault'
    BY <1>1, <1>2 DEF Careful, NoRestore, EntryNew, KeepVault, server
  <1>6. Obtained'
    BY <1>1, <1>3, <1>4 DEF Careful, Obtained
  <1>7. Renewal'
    <2> SUFFICES ASSUME NEW t \in Threads, HoldsRenewLock(t)
                 PROVE  /\ job[t].at = "sent" => ~Spent(job[t].sent)
                        /\ memory'.token # job[t].token /\ memory'.refresh # job[t].sent /\ vault' # job[t].sent
      BY <1>1, <1>3 DEF Renewal, HoldsRenewLock
    <2>1. job[t].sent # None
      BY DEF HoldsRenewLock, LInv, IInv, TypeOK
    <2> QED
      BY <1>1, <1>4, <2>1 DEF Careful, Renewal
  <1>8. MemoryUnspent' /\ VaultUnspent'
    BY <1>1, <1>3, <1>4 DEF MemoryUnspent, VaultUnspent
  <1> QED
    BY <1>5, <1>6, <1>7, <1>8 DEF Careful

LEMMA CarefulSignOut == ASSUME LInv, Careful, SignOut PROVE Careful'
  <1>1. /\ memory' = NoSession /\ vault' = None /\ ~restorable' /\ ui'.at = "out" /\ UNCHANGED server
    BY DEF SignOut, Free
  <1>2. \A t \in Threads : /\ job'[t].at = job[t].at /\ job'[t].token = job[t].token /\ job'[t].sent = job[t].sent
                          /\ job'[t].got = job[t].got /\ job'[t].restoring = job[t].restoring
                          /\ job'[t].keep = job[t].keep
    BY TypesNow DEF SignOut, JobStates
  <1>3. \A p : Spent(p)' <=> Spent(p)
    BY <1>1 DEF server, Spent
  <1>4. NoRestore' /\ EntryNew' /\ ~alarm' /\ KeepVault' /\ MemoryUnspent' /\ VaultUnspent'
    BY <1>1, <1>2 DEF Careful, NoRestore, EntryNew, Entering, KeepVault, MemoryUnspent, VaultUnspent, server, NoSession
  <1>5. Obtained'
    BY <1>1, <1>2, <1>3 DEF Careful, Obtained, NoSession
  <1>6. Renewal'
    <2> SUFFICES ASSUME NEW t \in Threads, HoldsRenewLock(t)
                 PROVE  /\ job[t].at = "sent" => ~Spent(job[t].sent)
                        /\ memory'.token # job[t].token /\ memory'.refresh # job[t].sent /\ vault' # job[t].sent
      BY <1>2, <1>3 DEF Renewal, HoldsRenewLock
    <2>1. job[t].sent # None /\ job[t].token # None
      BY DEF HoldsRenewLock, LInv, IInv, TypeOK, Base, Shaped, JobShape, Careful, NoRestore
    <2> QED
      BY <1>1, <2>1 DEF Careful, Renewal, NoSession
  <1> QED
    BY <1>4, <1>5, <1>6 DEF Careful

\* The thread that takes the lock sends a credential that is not spent.
LEMMA CarefulSends ==
    ASSUME LInv, Careful, NEW t \in Threads, BeginRenew(t), ~Replaced(t), HasCredential
    PROVE  Careful'
  <1> DEFINE j == [job[t] EXCEPT !.at = "sent", !.sent = memory.refresh, !.keep = memory.keep]
  <1>1. /\ job[t].at = "renew" /\ RenewLockFree /\ Goto(t, j) /\ UNCHANGED <<server, memory, vault, restorable, ui>>
        /\ memory.token = job[t].token /\ job[t].token # None /\ memory.refresh # None
    BY DEF BeginRenew, kept, Replaced, HasCredential, LInv, Base, Shaped, JobShape
  <1>2. /\ j.at = "sent" /\ j.sent = memory.refresh /\ j.keep = memory.keep /\ j.token = memory.token
        /\ j.restoring = job[t].restoring /\ j.got = job[t].got
    BY <1>1, TypesNow DEF JobStates
  <1>3. job'[t] = j /\ \A s \in Threads \ {t} : job'[s] = job[s]
    BY <1>1, TypesNow DEF Goto
  <1> HIDE DEF j
  <1>4. \A p : Spent(p)' <=> Spent(p)
    BY <1>1 DEF server, Spent
  <1>5. \A s \in Threads : job[s].at \notin {"got", "saved"} /\ job[s].got = None /\ ~HoldsRenewLock(s)
    BY <1>1, NobodyLate DEF RenewLockFree, HoldsRenewLock, Renewing
  <1>6. ~Spent(memory.refresh)
    BY <1>1, <1>5 DEF Careful, MemoryUnspent
  <1>7. Entering' = Entering /\ alarm' = alarm
    BY <1>1 DEF Entering, server
  <1>8. NoRestore' /\ KeepVault'
    BY <1>1, <1>2, <1>3 DEF Careful, NoRestore, KeepVault
  <1>9. EntryNew'
    BY <1>1, <1>2, <1>3, <1>4, <1>7 DEF Careful, EntryNew
  <1>10. Obtained'
    BY <1>2, <1>3, <1>5 DEF Obtained
  <1>11. Renewal'
    <2>1. \A s \in Threads : HoldsRenewLock(s)' => s = t
      BY <1>3, <1>5 DEF HoldsRenewLock
    <2> QED
      BY <1>1, <1>2, <1>3, <1>4, <1>6, <2>1 DEF Renewal, Careful, KeepVault
  <1>12. MemoryUnspent' /\ VaultUnspent'
    BY <1>1, <1>4, <1>5 DEF Careful, MemoryUnspent, VaultUnspent
  <1> QED
    BY <1>7, <1>8, <1>9, <1>10, <1>11, <1>12 DEF Careful

\* What a holder of the lock is, without a fault.
LEMMA HolderNow ==
    ASSUME LInv, Careful, NEW t \in Threads, HoldsRenewLock(t)
    PROVE  /\ ~restorable /\ ~job[t].restoring /\ job[t].token # None /\ job[t].sent # None
           /\ \A s \in Threads \ {t} : ~HoldsRenewLock(s) /\ job[s].got = None
           /\ \A s \in Threads : job[s].at \in {"got", "saved"} => s = t
  <1>1. ~restorable /\ ~job[t].restoring
    BY DEF Careful, NoRestore, HoldsRenewLock, Renewing
  <1>2. job[t].token # None /\ job[t].sent # None
    BY <1>1 DEF LInv, Base, Shaped, JobShape, HoldsRenewLock, IInv, TypeOK
  <1> QED
    BY <1>1, <1>2, OnlyTheHolder DEF HoldsRenewLock, Renewing

\* The holder is done: what it obtained is in memory and in the vault, or nothing is spent there.
LEMMA CarefulRefused ==
    ASSUME LInv, Careful, NEW t \in Threads, RenewRefused(t) PROVE Careful'
  <1> DEFINE j == GivenUp(t)
  <1>1. /\ Goto(t, j) /\ UNCHANGED <<server, restorable, ui>> /\ job[t].at = "refused" /\ HoldsRenewLock(t)
        /\ vault' \in {vault, None}
    BY DEF RenewRefused, HoldsRenewLock, Renewing
  <1>2. /\ j \in JobStates /\ j.token = job[t].token /\ j.got = None /\ j.at = "drop" /\ j.at \notin Renewing
        /\ ~j.restoring /\ j.sent = None
    BY GivenUpFields DEF GivenUp, Idle, Renewing
  <1>3. job'[t] = j /\ \A s \in Threads \ {t} : job'[s] = job[s]
    BY <1>1, TypesNow DEF Goto
  <1> HIDE DEF j
  <1>4. /\ memory'.token = memory.token /\ memory'.keep = memory.keep /\ memory'.refresh \in {memory.refresh, None}
    BY TypesNow DEF RenewRefused, Sessions
  <1>5. /\ ~restorable /\ \A s \in Threads \ {t} : ~HoldsRenewLock(s) /\ job[s].got = None
        /\ \A s \in Threads : job[s].at \notin {"got", "saved"}
    BY <1>1, HolderNow DEF HoldsRenewLock
  <1>6. \A p : Spent(p)' <=> Spent(p)
    BY <1>1 DEF server, Spent
  <1>7. Entering' = Entering /\ alarm' = alarm
    BY <1>1 DEF Entering, server
  <1>8. NoRestore' /\ KeepVault'
    BY <1>1, <1>2, <1>3, <1>4, <1>5 DEF Careful, NoRestore, KeepVault
  <1>9. EntryNew'
    BY <1>1, <1>2, <1>3, <1>4, <1>6, <1>7 DEF Careful, EntryNew
  <1>10. Obtained'
    BY <1>2, <1>3, <1>5 DEF Obtained
  <1>11. Renewal'
    BY <1>2, <1>3, <1>5 DEF Renewal, HoldsRenewLock
  <1>12. MemoryUnspent' /\ VaultUnspent'
    BY <1>1, <1>4, <1>5, <1>6 DEF Careful, MemoryUnspent, VaultUnspent
  <1> QED
    BY <1>7, <1>8, <1>9, <1>10, <1>11, <1>12 DEF Careful

LEMMA CarefulRenewed ==
    ASSUME LInv, Careful, NEW t \in Threads, Renewed(t) PROVE Careful'
  <1>1. /\ job[t].at = "saved" /\ UNCHANGED <<server, vault, restorable, ui>> /\ HoldsRenewLock(t)
        /\ job[t].got # None /\ job[t].got \in Ref
    BY TypesNow DEF Renewed, kept, HoldsRenewLock, Renewing, LInv, Base, Shaped, JobShape
  <1>2. PICK j \in JobStates : /\ Goto(t, j) /\ j.got = None /\ j.at \notin Renewing /\ ~j.restoring /\ j.sent = None
                               /\ j.token \in {job[t].token, job[t].got, None}
    <2>1. GivenUp(t).sent = None /\ ~GivenUp(t).restoring
      BY DEF GivenUp, Idle
    <2>2. Retry(t, job[t].got).sent = None /\ ~Retry(t, job[t].got).restoring
      BY DEF Retry, Idle
    <2>3. Goto(t, GivenUp(t)) \/ Goto(t, Retry(t, job[t].got))
      BY DEF Renewed
    <2> QED
      BY <1>1, <2>1, <2>2, <2>3, GivenUpFields, RetryFields DEF Renewing
  <1>3. job'[t] = j /\ \A s \in Threads \ {t} : job'[s] = job[s]
    BY <1>2, TypesNow DEF Goto
  <1>4. memory'.keep = memory.keep
        /\ \/ memory' = memory /\ memory.token # job[t].token
           \/ memory'.token = job[t].got /\ memory'.refresh = job[t].got /\ memory.token = job[t].token
    BY TypesNow DEF Renewed, Sessions, Replaced
  <1>5. /\ ~restorable /\ \A s \in Threads \ {t} : ~HoldsRenewLock(s) /\ job[s].got = None
        /\ \A s \in Threads : job[s].at \in {"got", "saved"} => s = t
    BY <1>1, HolderNow
  <1>6. \A p : Spent(p)' <=> Spent(p)
    BY <1>1 DEF server, Spent
  <1>7. Entering' = Entering /\ alarm' = alarm
    BY <1>1 DEF Entering, server
  <1>8. /\ ~Spent(job[t].got) /\ Entering # job[t].got
        /\ vault = job[t].got => job[t].keep
        /\ memory.token = job[t].token => memory.keep = job[t].keep
        /\ memory.refresh = job[t].sent => memory.token \in {job[t].token, None}
    BY <1>1 DEF Careful, Obtained, Renewal, LInv, Decisions, Private, Passed
  <1>9. NoRestore' /\ KeepVault'
    BY <1>1, <1>2, <1>3, <1>4, <1>5, <1>8 DEF Careful, NoRestore, KeepVault
  <1>10. EntryNew'
    BY <1>1, <1>2, <1>3, <1>4, <1>6, <1>7, <1>8 DEF Careful, EntryNew
  <1>11. Obtained'
    BY <1>2, <1>3, <1>5 DEF Obtained
  <1>12. Renewal'
    BY <1>2, <1>3, <1>5 DEF Renewal, HoldsRenewLock
  <1>13. MemoryUnspent'
    <2>1. CASE memory' = memory /\ memory.token # job[t].token
      BY <1>5, <1>6, <1>8, <2>1 DEF Careful, MemoryUnspent
    <2>2. CASE memory'.refresh = job[t].got
      BY <1>6, <1>8, <2>2 DEF MemoryUnspent
    <2> QED
      BY <1>4, <2>1, <2>2
  <1>14. VaultUnspent'
    BY <1>1, <1>5, <1>6 DEF Careful, VaultUnspent
  <1> QED
    BY <1>7, <1>9, <1>10, <1>11, <1>12, <1>13, <1>14 DEF Careful

LEMMA CarefulSaves ==
    ASSUME LInv, Careful, NEW t \in Threads, SaveKept(t) PROVE Careful'
  <1> DEFINE j == [job[t] EXCEPT !.at = "saved"]
  <1>1. /\ job[t].at = "got" /\ Goto(t, j) /\ UNCHANGED <<server, memory, ui>> /\ HoldsRenewLock(t)
        /\ vault' = (IF job[t].keep THEN job[t].got ELSE vault) /\ (restorable' => restorable)
        /\ job[t].got # None
    BY DEF SaveKept, Kept, HoldsRenewLock, Renewing, LInv, Base, Shaped, JobShape
  <1>2. /\ j.at = "saved" /\ j.sent = job[t].sent /\ j.keep = job[t].keep /\ j.token = job[t].token
        /\ j.restoring = job[t].restoring /\ j.got = job[t].got
    BY <1>1, TypesNow DEF JobStates
  <1>3. job'[t] = j /\ \A s \in Threads \ {t} : job'[s] = job[s]
    BY <1>1, TypesNow DEF Goto
  <1> HIDE DEF j
  <1>4. /\ ~restorable /\ \A s \in Threads \ {t} : ~HoldsRenewLock(s) /\ job[s].got = None
        /\ \A s \in Threads : job[s].at \in {"got", "saved"} => s = t
    BY <1>1, HolderNow
  <1>5. \A p : Spent(p)' <=> Spent(p)
    BY <1>1 DEF server, Spent
  <1>6. Entering' = Entering /\ alarm' = alarm
    BY <1>1 DEF Entering, server
  <1>7. /\ ~Spent(job[t].got) /\ Entering # job[t].got
        /\ job[t].got \notin {memory.refresh, job[t].sent}
        /\ vault = job[t].got => job[t].keep
        /\ vault = job[t].sent => job[t].keep
    BY <1>1 DEF Careful, Obtained, Renewal, LInv, Decisions, Private, Passed
  <1>8. NoRestore' /\ KeepVault'
    BY <1>1, <1>2, <1>3, <1>4, <1>7 DEF Careful, NoRestore, KeepVault
  <1>9. EntryNew'
    BY <1>1, <1>2, <1>3, <1>5, <1>6, <1>7 DEF Careful, EntryNew
  <1>10. Obtained'
    BY <1>1, <1>2, <1>3, <1>4, <1>5, <1>7 DEF Careful, Obtained
  <1>11. Renewal'
    <2>1. \A s \in Threads : HoldsRenewLock(s)' => s = t
      BY <1>3, <1>4 DEF HoldsRenewLock
    <2> QED
      BY <1>1, <1>2, <1>3, <1>7, <2>1 DEF Careful, Renewal
  <1>12. MemoryUnspent'
    BY <1>1, <1>2, <1>3, <1>4, <1>5 DEF Careful, MemoryUnspent
  <1>13. VaultUnspent'
    BY <1>1, <1>2, <1>3, <1>4, <1>5, <1>7 DEF Careful, VaultUnspent
  <1> QED
    BY <1>6, <1>8, <1>9, <1>10, <1>11, <1>12, <1>13 DEF Careful

\* A credential that is refused was not spent: its family was over, and nobody is alarmed.
LEMMA CarefulRejected ==
    ASSUME LInv, Careful, NEW t \in Threads, Exchange(t), ~Rotates(job[t].sent) PROVE Careful'
  <1> DEFINE j == [job[t] EXCEPT !.at = "refused"]
  <1>1. /\ job[t].at = "sent" /\ Goto(t, j) /\ UNCHANGED <<memory, kept, ui, pair>> /\ HoldsRenewLock(t)
        /\ Reject(job[t].sent)
    BY DEF Exchange, Reject, HoldsRenewLock, Renewing
  <1>2. /\ j.at = "refused" /\ j.sent = job[t].sent /\ j.keep = job[t].keep /\ j.token = job[t].token
        /\ j.restoring = job[t].restoring /\ j.got = job[t].got
    BY <1>1, TypesNow DEF JobStates
  <1>3. job'[t] = j /\ \A s \in Threads \ {t} : job'[s] = job[s]
    BY <1>1, TypesNow DEF Goto
  <1> HIDE DEF j
  <1>4. /\ ~restorable /\ \A s \in Threads \ {t} : ~HoldsRenewLock(s) /\ job[s].got = None
        /\ \A s \in Threads : job[s].at \notin {"got", "saved"}
    BY <1>1, HolderNow DEF HoldsRenewLock
  <1>5. \A p : Spent(p)' <=> Spent(p)
    BY <1>1 DEF Spent
  <1>6. ~alarm'
    <2>1. ~Spent(job[t].sent) /\ ~alarm
      BY <1>1 DEF Careful, Renewal
    <2> QED
      BY <1>1, <2>1 DEF Reject
  <1>7. Entering' = Entering
    BY <1>1 DEF Entering
  <1>8. NoRestore' /\ KeepVault'
    BY <1>1, <1>2, <1>3, <1>4 DEF Careful, NoRestore, KeepVault, kept
  <1>9. EntryNew'
    BY <1>1, <1>2, <1>3, <1>5, <1>7 DEF Careful, EntryNew, kept
  <1>10. Obtained'
    BY <1>1, <1>2, <1>3, <1>5 DEF Careful, Obtained, kept
  <1>11. Renewal'
    <2>1. \A s \in Threads : HoldsRenewLock(s)' => s = t
      BY <1>3, <1>4 DEF HoldsRenewLock
    <2> QED
      BY <1>1, <1>2, <1>3, <2>1 DEF Careful, Renewal, kept
  <1>12. MemoryUnspent' /\ VaultUnspent'
    BY <1>1, <1>4, <1>5 DEF Careful, MemoryUnspent, VaultUnspent, kept
  <1> QED
    BY <1>6, <1>8, <1>9, <1>10, <1>11, <1>12, SMTT(60) DEF Careful

\* The exchange: the credential sent is spent, and the thread that sent it accounts for it.
LEMMA CarefulExchange ==
    ASSUME LInv, Careful, NEW t \in Threads, Exchange(t), Rotates(job[t].sent) PROVE Careful'
  <1> DEFINE o == job[t].sent
  <1>0. PICK n \in Pairs : n = New /\ n # None /\ pair[n].family = None
    BY NewIsNew, NoneIsNoPair DEF Exchange
  <1> DEFINE j == [job[t] EXCEPT !.at = "got", !.got = n]
  <1>1. /\ job[t].at = "sent" /\ Goto(t, j) /\ UNCHANGED <<memory, kept, ui, alarm>> /\ HoldsRenewLock(t)
        /\ Rotate(o)
    BY <1>0 DEF Exchange, Rotate, HoldsRenewLock, Renewing
  <1>2. /\ j.at = "got" /\ j.sent = o /\ j.keep = job[t].keep /\ j.token = job[t].token
        /\ j.restoring = job[t].restoring /\ j.got = n
    BY <1>1, TypesNow DEF JobStates
  <1>3. job'[t] = j /\ \A s \in Threads \ {t} : job'[s] = job[s]
    BY <1>1, TypesNow DEF Goto
  <1> HIDE DEF j
  <1>4. /\ ~restorable /\ o # None /\ \A s \in Threads \ {t} : ~HoldsRenewLock(s) /\ job[s].got = None
        /\ \A s \in Threads : job[s].at \notin {"got", "saved"}
    BY <1>1, HolderNow DEF HoldsRenewLock
  <1>5. /\ n \notin {memory.token, memory.refresh, vault, Entering, o}
        /\ \A s \in Threads : n \notin {job[s].token, job[s].sent}
    BY <1>0, DeviceNow DEF LInv, IInv, Held, Base, TokensIssued, IsIssued, Entering
  <1>6. ~Spent(n)' /\ \A p \in Pairs : p # n /\ p # o => (Spent(p)' <=> Spent(p))
    <2>1. o \in Pairs
      BY <1>4, TypesNow DEF Ref
    <2>2. /\ pair \in [Pairs -> PairStates] /\ n \in Pairs /\ n # o
          /\ pair' = [pair EXCEPT ![o].used = "recently", ![n] = NewPair(pair[o].family)]
      BY <1>0, <1>1, <1>5 DEF Rotate, LInv, IInv, TypeOK
    <2>3. pair'[n] = NewPair(pair[o].family) /\ \A p \in Pairs : p # n /\ p # o => pair'[p] = pair[p]
      BY <2>1, <2>2 DEF PairStates
    <2> QED
      BY <2>3 DEF Spent, NewPair
  <1>7. \A p \in Ref : p # None /\ p # n /\ p # o => (Spent(p)' <=> Spent(p))
    BY <1>6 DEF Ref
  <1>8. /\ Entering' = Entering /\ Entering # o /\ Entering \in Ref /\ memory.refresh \in Ref /\ vault \in Ref
    <2>1. Entering # o
      BY <1>4 DEF Careful, EntryNew
    <2> QED
      BY <1>1, <2>1, TypesNow DEF Entering, Sessions
  <1>9. NoRestore' /\ KeepVault' /\ ~alarm'
    BY <1>1, <1>2, <1>3, <1>4 DEF Careful, NoRestore, KeepVault, kept
  <1>10. EntryNew'
    <2>1. Entering # None => ~Spent(Entering)'
      BY <1>5, <1>7, <1>8 DEF Careful, EntryNew
    <2> QED
      BY <1>1, <1>2, <1>3, <1>8, <2>1 DEF Careful, EntryNew, kept, Spent
  <1>11. Obtained'
    BY <1>1, <1>2, <1>3, <1>4, <1>5, <1>6 DEF Obtained, kept, Spent
  <1>12. Renewal'
    <2>1. \A s \in Threads : HoldsRenewLock(s)' => s = t
      BY <1>3, <1>4 DEF HoldsRenewLock
    <2> QED
      BY <1>1, <1>2, <1>3, <2>1 DEF Careful, Renewal, kept
  <1>13. MemoryUnspent'
    <2>1. CASE memory.refresh = o
      BY <1>1, <1>2, <1>3, <2>1 DEF MemoryUnspent
    <2>2. CASE memory.refresh # o
      <3>1. memory.refresh # None => (Spent(memory.refresh)' <=> Spent(memory.refresh))
        BY <1>1, <1>5, <1>7, <1>8, <2>2 DEF Spent
      <3> QED
        BY <1>1, <1>4, <3>1 DEF Careful, MemoryUnspent
    <2> QED
      BY <2>1, <2>2
  <1>14. VaultUnspent'
    <2>1. CASE vault = o
      BY <1>1, <1>2, <1>3, <2>1 DEF VaultUnspent, kept
    <2>2. CASE vault # o
      <3>1. vault # None => (Spent(vault)' <=> Spent(vault))
        BY <1>1, <1>5, <1>7, <1>8, <2>2 DEF Spent, kept
      <3> QED
        BY <1>1, <1>4, <3>1 DEF Careful, VaultUnspent, kept
    <2> QED
      BY <2>1, <2>2
  <1> QED
    BY <1>9, <1>10, <1>11, <1>12, <1>13, <1>14 DEF Careful

-----------------------------------------------------------------------------
\* A thread that goes on without the lock: a request, its answer, a token dropped, no need to renew.
LEMMA CarefulCaller ==
    ASSUME LInv, Careful,
           \E t \in Threads : \/ Again(t) \/ Request(t) \/ TakeLock(t) \/ Answer(t) \/ DropToken(t)
                              \/ BeginRenew(t) /\ (Replaced(t) \/ ~HasCredential)
    PROVE  Careful'
  <1>1. ASSUME NEW t \in Threads, Again(t) PROVE Careful'
    <2> DEFINE j == IF memory.token = None THEN Idle
                    ELSE [Idle EXCEPT !.at = "called", !.token = memory.token, !.renewed = TRUE, !.syncs = TRUE]
    <2>1. job[t].at = "again" /\ Goto(t, j) /\ UNCHANGED <<server, memory, vault, restorable, ui>>
          /\ ~HoldsRenewLock(t)
      BY <1>1, SMTT(60) DEF Again, kept, HoldsRenewLock, Renewing
    <2>2. j \in JobStates
      BY IdleIsIssued, TypesNow DEF IssuedJob
    <2>3. /\ j.token \in {memory.token, None} /\ j.got = None /\ j.at \notin Renewing /\ ~j.restoring /\ j.sent = None
      BY DEF Idle, Renewing
    <2> HIDE DEF j
    <2> QED
      BY <2>1, <2>2, <2>3, CarefulThread
  <1>2. ASSUME NEW t \in Threads, Request(t) PROVE Careful'
    <2>1. memory.token # None /\ UNCHANGED <<server, memory, vault, restorable, ui>> /\ ~HoldsRenewLock(t)
      BY <1>2, SMTT(60) DEF Request, kept, HoldsRenewLock, Renewing
    <2>2. PICK j \in JobStates : Goto(t, j) /\ RequestFields(t, j)
      BY <1>2, RequestMade
    <2>3. j.token = memory.token /\ j.got = None /\ j.at \notin Renewing /\ ~j.restoring /\ j.sent = None
      BY <2>2 DEF RequestFields, Renewing
    <2> QED
      BY <2>1, <2>2, <2>3, CarefulThread
  <1>3. ASSUME NEW t \in Threads, Answer(t) PROVE Careful'
    <2>1. job[t].at = "asked" /\ UNCHANGED <<server, memory, vault, restorable, ui>> /\ ~HoldsRenewLock(t)
      BY <1>3 DEF Answer, kept, HoldsRenewLock, Renewing
    <2>2. PICK j \in JobStates : /\ Goto(t, j) /\ j.got = None /\ j.at \notin Renewing /\ ~j.restoring
                                 /\ j.token \in {job[t].token, None} /\ j.sent \in {job[t].sent, None}
      <3>1. CASE Goto(t, Idle)
        BY <3>1, IdleFields DEF Idle, Renewing
      <3>2. CASE Goto(t, GivenUp(t))
        <4>1. GivenUp(t).sent = None /\ ~GivenUp(t).restoring
          BY DEF GivenUp, Idle
        <4> QED
          BY <3>2, <4>1, GivenUpFields DEF Renewing
      <3>3. CASE Goto(t, [job[t] EXCEPT !.at = "renew"])
        <4> DEFINE j == [job[t] EXCEPT !.at = "renew"]
        <4>1. /\ j \in JobStates /\ j.at = "renew" /\ j.token = job[t].token /\ j.got = job[t].got
              /\ j.sent = job[t].sent /\ j.restoring = job[t].restoring
          BY TypesNow DEF JobStates
        <4> HIDE DEF j
        <4>2. job[t].got = None /\ ~job[t].restoring
          BY <2>1 DEF LInv, Base, Shaped, JobShape, Renewing
        <4> QED
          BY <3>3, <4>1, <4>2 DEF j, Renewing
      <3> QED
        BY <1>3, <3>1, <3>2, <3>3 DEF Answer
    <2> QED
      BY <2>1, <2>2, CarefulThread
  <1>4. ASSUME NEW t \in Threads, DropToken(t) PROVE Careful'
    <2>1. /\ job[t].at = "drop" /\ UNCHANGED <<server, vault, restorable, ui>> /\ ~HoldsRenewLock(t) /\ Goto(t, Idle)
          /\ memory' = (IF memory.token = job[t].token THEN [memory EXCEPT !.token = None] ELSE memory)
      BY <1>4 DEF DropToken, kept, HoldsRenewLock, Renewing
    <2>2. Idle.sent = None /\ Idle.at \notin Renewing
      BY DEF Idle, Renewing
    <2> QED
      BY <2>1, <2>2, IdleFields, CarefulThread
  <1>5. ASSUME NEW t \in Threads, BeginRenew(t), Replaced(t) \/ ~HasCredential PROVE Careful'
    <2>1. job[t].at = "renew" /\ UNCHANGED <<server, memory, vault, restorable, ui>> /\ ~HoldsRenewLock(t)
      BY <1>5 DEF BeginRenew, kept, HoldsRenewLock, Renewing
    <2>2. PICK j \in JobStates : /\ Goto(t, j) /\ j.got = None /\ j.at \notin Renewing /\ ~j.restoring
                                 /\ j.token \in {job[t].token, memory.token, None} /\ j.sent = None
      <3>1. CASE memory.token # None /\ Goto(t, Retry(t, memory.token))
        <4>1. Retry(t, memory.token).sent = None /\ ~Retry(t, memory.token).restoring
          BY DEF Retry, Idle
        <4> QED
          BY <3>1, <4>1, RetryFields, TypesNow
      <3>2. CASE Goto(t, GivenUp(t))
        <4>1. GivenUp(t).sent = None /\ ~GivenUp(t).restoring
          BY DEF GivenUp, Idle
        <4> QED
          BY <3>2, <4>1, GivenUpFields DEF Renewing
      <3> QED
        BY <1>5, <3>1, <3>2 DEF BeginRenew
    <2> QED
      BY <2>1, <2>2, CarefulThread
  <1>6. ASSUME NEW t \in Threads, TakeLock(t) PROVE Careful'
    <2>1. /\ job[t].at = "called" /\ UNCHANGED <<server, memory, vault, restorable, ui>> /\ ~HoldsRenewLock(t)
      BY <1>6 DEF TakeLock, kept, HoldsRenewLock, Renewing
    <2>2. PICK j \in JobStates : /\ Goto(t, j) /\ j.at = "asked" /\ j.token = job[t].token /\ j.got = None
                                 /\ j.sent = job[t].sent /\ ~j.restoring
      BY <1>6, LockTaken
    <2>3. j.at \notin Renewing
      BY <2>2 DEF Renewing
    <2> QED
      BY <2>1, <2>2, <2>3, CarefulThread
  <1> QED
    BY <1>1, <1>2, <1>3, <1>4, <1>5, <1>6

LEMMA StepCareful ==
    ASSUME LInv, Careful, Next, faults = 0, faults' = 0 PROVE Careful'
  <1>1. ASSUME NEW p \in Pairs, ExpireToken(p) \/ EndGrace(p) PROVE Careful'
    <2>1. SameSpent
      <3>1. pair \in [Pairs -> PairStates]
        BY DEF LInv, IInv, TypeOK
      <3>2. \A q \in Pairs : pair'[q].used = "no" <=> pair[q].used = "no"
        BY <1>1, <3>1, ZenonT(60) DEF ExpireToken, EndGrace, PairStates
      <3> QED
        BY <3>2 DEF SameSpent, Spent
    <2>2. UNCHANGED <<job, memory, vault, restorable, alarm, ui>>
      BY <1>1 DEF ExpireToken, EndGrace, kept
    <2> QED
      BY <2>1, <2>2, CarefulUser DEF Entering
  <1>2. CASE ResetPassword
    BY <1>2, CarefulUser DEF ResetPassword, kept, Entering, SameSpent, Spent
  <1>3. CASE Revoke \/ \E keep \in BOOLEAN : SignIn(keep)
    <2>1. UNCHANGED <<job, memory, vault, restorable, alarm, pair>> /\ ui'.at # "in"
      BY <1>3 DEF Revoke, SignIn, kept, server, Free
    <2> QED
      BY <2>1, CarefulUser DEF Entering, SameSpent, Spent
  <1>4. ASSUME NEW t \in Threads, BeginRestore(t) PROVE Careful'
    <2>1. vault = None
      BY <1>4 DEF BeginRestore, Careful, NoRestore
    <2>2. UNCHANGED <<job, memory, vault, alarm, pair, ui>> /\ ~restorable'
      BY <1>4, <2>1 DEF BeginRestore, server
    <2> QED
      BY <2>2, CarefulUser DEF Entering, SameSpent, Spent
  <1>5. ~RevokeLost /\ ~Restart /\ \A t \in Threads : ~Unreachable(t)
    BY DEF RevokeLost, Restart, Unreachable, Fault
  <1>6. \A t \in Threads : ~RestoreRefused(t) /\ ~Restored(t)
    BY DEF Careful, NoRestore, RestoreRefused, Restored
  <1>7. ASSUME NEW t \in Threads, BeginRenew(t) PROVE Careful'
    BY <1>7, CarefulSends, CarefulCaller
  <1>8. ASSUME NEW t \in Threads, Exchange(t) PROVE Careful'
    BY <1>8, CarefulExchange, CarefulRejected
  <1> QED
    BY <1>1, <1>2, <1>3, <1>4, <1>5, <1>6, <1>7, <1>8, CarefulStart, CarefulEstablish, CarefulSignOut,
       CarefulCaller, CarefulRefused, CarefulRenewed, CarefulSaves DEF Next

LEMMA StepCInv == CInv /\ [Next]_vars => CInv'
  <1> SUFFICES ASSUME CInv, [Next]_vars PROVE CInv'
    OBVIOUS
  <1>1. LInv'
    BY StepDecisions DEF CInv
  <1>2. faults \in Nat /\ (faults' = faults \/ faults' = faults + 1)
    <2>1. faults \in Nat
      BY DEF CInv, LInv, IInv, TypeOK
    <2>2. faults' = faults \/ Fault
      BY DEF Next, vars, ExpireToken, EndGrace, ResetPassword, Restart, SignIn, Start, Establish, SignOut, Revoke,
             RevokeLost, BeginRestore, Again, TakeLock, Request, Answer, DropToken, BeginRenew, Exchange, Unreachable,
             RenewRefused, RestoreRefused, SaveKept, Renewed, Restored
    <2> QED
      BY <2>1, <2>2 DEF Fault
  <1>3. ASSUME faults' = 0 PROVE Careful'
    <2>1. faults = 0 /\ Careful
      BY <1>2, <1>3 DEF CInv
    <2>2. CASE UNCHANGED vars
      BY <2>1, <2>2, CarefulUser DEF vars, CInv, Entering, SameSpent, Spent
    <2> QED
      BY <1>3, <2>1, <2>2, StepCareful DEF CInv
  <1> QED
    BY <1>1, <1>3 DEF CInv

\* Without a lost answer or a stop of the device, no interleaving of threads, sign-ins, sign-outs and
\* resets makes the server take the device's own credential for a stolen one (refresh of
\* backend/native_sessions.py, _renew and _drop_token of app/sync/service.py).
THEOREM NeverAlarmed == Spec => []NoFalseAlarm
  <1>1. CInv => NoFalseAlarm
    BY DEF CInv, Careful, NoFalseAlarm
  <1> QED
    BY <1>1, InitCareful, StepCInv, PTL DEF Spec

\* And whenever no credential is being exchanged, the one in the vault is unspent: what a later start
\* of the device restores (restore_session) can be exchanged as far as the device is concerned.
THEOREM VaultIsGood == Spec => []KeptIsUnspent
  <1>1. CInv => KeptIsUnspent
    BY DEF CInv, Careful, VaultUnspent, KeptIsUnspent, RenewLockFree, HoldsRenewLock, Renewing
  <1> QED
    BY <1>1, InitCareful, StepCInv, PTL DEF Spec

=============================================================================
