----------------------- MODULE NativeSessionsProofs -----------------------
(***************************************************************************)
(* What holds of NativeSessions for every number of threads, pairs, lost   *)
(* answers, restarts and resets of the password.                           *)
(*                                                                         *)
(* The device holds only credentials the server issued (Held), a family is *)
(* named by the pair its login issued (Named); so a login begins a family  *)
(* with its only credential, and a refresh spends one for one.             *)
(***************************************************************************)
EXTENDS NativeSessions, TLAPS

IsIssued(p) == p = None \/ pair[p].family # None

Held ==
    /\ IsIssued(memory.refresh) /\ IsIssued(vault) /\ IsIssued(ui.pair)
    /\ \A t \in Threads : IsIssued(job[t].sent) /\ IsIssued(job[t].got)

Named ==
    /\ \A p \in Pairs : pair[p].family # None => family[pair[p].family].state # "none"
    /\ \A f \in Pairs : family[f].state # "none" => pair[f].family = f

IInv == TypeOK /\ Held /\ Named /\ OneLiveCredential

LEMMA NewIsNew == ASSUME CanIssue PROVE New \in Pairs /\ pair[New].family = None
  BY DEF CanIssue, New

LEMMA NoneIsNoPair == None \notin Pairs
  BY SessionsAssumption DEF None, Pairs

LEMMA InitInv == Init => IInv
  <1> SUFFICES ASSUME Init PROVE IInv
    OBVIOUS
  <1> USE DEF Init, NoFamily, NoPair, NoSession, Idle, Free
  <1>1. TypeOK
    <2>1. None \in Ref /\ 0 \in Epochs /\ 0 \in 0 .. MaxFaults
      BY SessionsAssumption DEF Ref, Epochs
    <2>2. family \in [Pairs -> Families] /\ pair \in [Pairs -> PairStates] /\ memory \in Sessions
      BY <2>1 DEF Families, PairStates, Sessions
    <2>3. job \in [Threads -> JobStates] /\ ui \in UiStates
      BY <2>1 DEF JobStates, UiStates
    <2>4. \A t \in Threads : job[t].at \notin Renewing
      BY DEF Renewing
    <2> QED
      BY <2>1, <2>2, <2>3, <2>4 DEF TypeOK
  <1>2. Held /\ Named /\ OneLiveCredential
    BY NoneIsNoPair DEF Held, Named, OneLiveCredential, IsIssued, Live
  <1> QED
    BY <1>1, <1>2 DEF IInv

-----------------------------------------------------------------------------
(* Steps of the device.  What they put into memory, the vault, the user's  *)
(* step and a thread's fields is of the right type and issued.             *)

IssuedJob(j) ==
    /\ j \in JobStates /\ IsIssued(j.sent) /\ IsIssued(j.got)
    /\ j.at \in Renewing => j.sent # None
JobsOK(jobs) ==
    /\ jobs \in [Threads -> JobStates]
    /\ \A t \in Threads : IssuedJob(jobs[t])
MemoryOK(m) == m \in Sessions /\ IsIssued(m.refresh)
UiOK(u) == u \in UiStates /\ IsIssued(u.pair)

LEMMA DeviceStep ==
    ASSUME IInv, UNCHANGED server, MemoryOK(memory'), UiOK(ui'), JobsOK(job'), vault' \in Ref, IsIssued(vault'),
           restorable' \in BOOLEAN, active' \in BOOLEAN, faults' \in 0 .. MaxFaults
    PROVE  IInv'
  <1>1. Named' /\ OneLiveCredential'
    BY DEF IInv, server, Named, OneLiveCredential, Live, Spent
  <1>2. TypeOK'
    BY DEF IInv, TypeOK, server, MemoryOK, UiOK, JobsOK, IssuedJob
  <1>3. Held'
    BY DEF IInv, Held, server, MemoryOK, UiOK, JobsOK, IssuedJob, IsIssued
  <1> QED
    BY <1>1, <1>2, <1>3 DEF IInv

LEMMA DeviceNow ==
    ASSUME IInv
    PROVE  /\ MemoryOK(memory) /\ UiOK(ui) /\ JobsOK(job) /\ vault \in Ref /\ IsIssued(vault)
           /\ restorable \in BOOLEAN /\ active \in BOOLEAN /\ faults \in 0 .. MaxFaults
           /\ \A t \in Threads : IssuedJob(job[t]) /\ job[t] \in JobStates
  BY SMTT(60) DEF IInv, TypeOK, Held, MemoryOK, UiOK, JobsOK, IssuedJob

LEMMA IdleIsIssued ==
    /\ IssuedJob(Idle)
    /\ \A token \in Ref :
        /\ IssuedJob([Idle EXCEPT !.at = "asked", !.token = token])
        /\ IssuedJob([Idle EXCEPT !.at = "asked", !.token = token, !.renewed = TRUE])
        /\ IssuedJob([Idle EXCEPT !.at = "called", !.token = token, !.syncs = TRUE])
        /\ IssuedJob([Idle EXCEPT !.at = "called", !.token = token, !.renewed = TRUE, !.syncs = TRUE])
        /\ \A s \in BOOLEAN : IssuedJob([Idle EXCEPT !.at = "drop", !.token = token, !.syncs = s])
    /\ IssuedJob([Idle EXCEPT !.at = "again", !.syncs = TRUE])
  <1>1. IssuedJob(Idle) /\ IssuedJob([Idle EXCEPT !.at = "again", !.syncs = TRUE])
    BY ZenonT(60) DEF IssuedJob, JobStates, Renewing, Idle, IsIssued, Ref
  <1>2. ASSUME NEW token \in Ref
        PROVE  /\ IssuedJob([Idle EXCEPT !.at = "asked", !.token = token])
               /\ IssuedJob([Idle EXCEPT !.at = "asked", !.token = token, !.renewed = TRUE])
               /\ IssuedJob([Idle EXCEPT !.at = "called", !.token = token, !.syncs = TRUE])
               /\ IssuedJob([Idle EXCEPT !.at = "called", !.token = token, !.renewed = TRUE, !.syncs = TRUE])
    BY DEF IssuedJob, JobStates, Renewing, Idle, IsIssued, Ref
  <1>3. ASSUME NEW token \in Ref, NEW s \in BOOLEAN
        PROVE  IssuedJob([Idle EXCEPT !.at = "drop", !.token = token, !.syncs = s])
    BY DEF IssuedJob, JobStates, Renewing, Idle, IsIssued, Ref
  <1> QED
    BY <1>1, <1>2, <1>3

LEMMA RetryIsIssued ==
    ASSUME NEW t \in Threads, NEW token \in Ref, IInv
    PROVE  IssuedJob(Retry(t, token)) /\ IssuedJob(GivenUp(t))
  BY IdleIsIssued DEF Retry, GivenUp, IInv, TypeOK, JobStates

LEMMA GotoKeeps ==
    ASSUME IInv, NEW t \in Threads, NEW j, IssuedJob(j), Goto(t, j) PROVE JobsOK(job')
  BY DEF IInv, TypeOK, Held, Goto, IssuedJob, JobsOK

LEMMA FaultBounded ==
    ASSUME faults \in 0 .. MaxFaults, Fault PROVE faults' \in 0 .. MaxFaults
  BY SessionsAssumption DEF Fault

\* A thread that goes on with what it has, or sends an issued credential.
LEMMA RenewIsIssued ==
    ASSUME NEW j, IssuedJob(j)
    PROVE  IssuedJob([j EXCEPT !.at = "renew"]) /\ IssuedJob([j EXCEPT !.at = "asked"])
  BY DEF IssuedJob, JobStates, Renewing

LEMMA SavedIsIssued ==
    ASSUME NEW j, IssuedJob(j), j.at = "got" PROVE IssuedJob([j EXCEPT !.at = "saved"])
  BY DEF IssuedJob, JobStates, Renewing

LEMMA SentIsIssued ==
    ASSUME NEW j, IssuedJob(j), NEW p \in Ref, p # None, IsIssued(p), NEW keep \in BOOLEAN
    PROVE  IssuedJob([j EXCEPT !.at = "sent", !.sent = p, !.keep = keep])
  BY DEF IssuedJob, JobStates, Renewing

LEMMA RestoringIsIssued ==
    ASSUME NEW p \in Ref, p # None, IsIssued(p)
    PROVE  IssuedJob([Idle EXCEPT !.at = "sent", !.sent = p, !.keep = TRUE, !.restoring = TRUE])
  BY DEF IssuedJob, JobStates, Renewing, Idle, IsIssued, Ref

LEMMA SignOutJobs ==
    ASSUME JobsOK(job), SignOut PROVE JobsOK(job')
  <1>1. ASSUME NEW t \in Threads PROVE IssuedJob([job[t] EXCEPT !.out = @ \/ HoldsRenewLock(t)])
    <2>1. IssuedJob(job[t])
      BY DEF JobsOK
    <2>2. HoldsRenewLock(t) \in BOOLEAN
      BY DEF HoldsRenewLock
    <2> QED
      BY <2>1, <2>2 DEF IssuedJob, JobStates
  <1>2. job' = [t \in Threads |-> [job[t] EXCEPT !.out = @ \/ HoldsRenewLock(t)]]
    BY DEF SignOut
  <1> QED
    BY <1>1, <1>2 DEF JobsOK, IssuedJob

LEMMA NoSessionOK == MemoryOK(NoSession) /\ UiOK(Free) /\ None \in Ref /\ IsIssued(None)
  BY SessionsAssumption DEF MemoryOK, NoSession, UiOK, Free, Sessions, UiStates, IsIssued, Ref, Epochs

LEMMA StepOfTheUser ==
    ASSUME IInv, \/ \E keep \in BOOLEAN : SignIn(keep)
                 \/ Establish \/ SignOut \/ RevokeLost \/ Restart
    PROVE  IInv'
  <1> USE DeviceNow, NoSessionOK, IdleIsIssued
  <1>1. ASSUME NEW keep \in BOOLEAN, SignIn(keep) PROVE IInv'
    <2>1. UiOK(ui')
      BY <1>1 DEF SignIn, UiOK, UiStates, IInv, TypeOK
    <2> QED
      BY <1>1, <2>1, DeviceStep DEF SignIn, kept
  <1>2. CASE Establish
    <2>1. MemoryOK(memory') /\ vault' \in Ref /\ IsIssued(vault')
      BY <1>2, ZenonT(60) DEF Establish, MemoryOK, UiOK, UiStates, Sessions
    <2> QED
      BY <1>2, <2>1, DeviceStep DEF Establish
  <1>3. CASE SignOut
    <2>1. UiOK(ui')
      BY <1>3, ZenonT(60) DEF SignOut, UiOK, UiStates, MemoryOK, Sessions, Free
    <2>2. JobsOK(job')
      BY <1>3, SignOutJobs, ZenonT(60)
    <2> QED
      BY <1>3, <2>1, <2>2, DeviceStep DEF SignOut
  <1>4. CASE RevokeLost
    <2>1. faults' \in 0 .. MaxFaults
      BY <1>4, FaultBounded DEF RevokeLost
    <2> QED
      BY <1>4, <2>1, DeviceStep, ZenonT(60) DEF RevokeLost, kept
  <1>5. CASE Restart
    <2>1. JobsOK(job')
      BY <1>5, ZenonT(60) DEF Restart, JobsOK, IssuedJob
    <2>2. faults' \in 0 .. MaxFaults
      BY <1>5, FaultBounded, ZenonT(60) DEF Restart
    <2> QED
      BY <1>5, <2>1, <2>2, DeviceStep, ZenonT(60) DEF Restart
  <1> QED
    BY <1>1, <1>2, <1>3, <1>4, <1>5

LEMMA StepOfAThread ==
    ASSUME IInv, \E t \in Threads :
                     \/ BeginRestore(t) \/ Again(t) \/ TakeLock(t) \/ Request(t)
                     \/ Answer(t) \/ DropToken(t) \/ BeginRenew(t) \/ Unreachable(t)
                     \/ RenewRefused(t) \/ RestoreRefused(t) \/ SaveKept(t) \/ Renewed(t) \/ Restored(t)
    PROVE  IInv'
  <1> USE DeviceNow, NoSessionOK, IdleIsIssued, RetryIsIssued
  <1>0. memory.token \in Ref /\ \A t \in Threads : job[t].got \in Ref /\ job[t].token \in Ref
    BY ZenonT(60) DEF IInv, TypeOK, Sessions, JobStates
  <1>1. ASSUME NEW t \in Threads, BeginRestore(t) PROVE IInv'
    <2>1. ASSUME vault # None PROVE IssuedJob([Idle EXCEPT !.at = "sent", !.sent = vault, !.keep = TRUE, !.restoring = TRUE])
      BY <2>1, RestoringIsIssued, ZenonT(60)
    <2>2. JobsOK(job')
      BY <1>1, <2>1, GotoKeeps, ZenonT(60) DEF BeginRestore
    <2> QED
      BY <1>1, <2>2, DeviceStep, ZenonT(60) DEF BeginRestore
  <1>2. ASSUME NEW t \in Threads, Again(t) PROVE IInv'
    <2>1. JobsOK(job')
      BY <1>2, <1>0, GotoKeeps, ZenonT(60) DEF Again
    <2> QED
      BY <1>2, <2>1, DeviceStep DEF Again, kept
  <1>3. ASSUME NEW t \in Threads, Request(t) PROVE IInv'
    <2>1. JobsOK(job')
      BY <1>3, <1>0, GotoKeeps, ZenonT(60) DEF Request
    <2> QED
      BY <1>3, <2>1, DeviceStep, ZenonT(60) DEF Request, kept
  <1>4. ASSUME NEW t \in Threads, Answer(t) PROVE IInv'
    <2>1. IssuedJob([job[t] EXCEPT !.at = "renew"])
      BY RenewIsIssued, ZenonT(60)
    <2>2. JobsOK(job')
      BY <1>4, <1>0, <2>1, GotoKeeps, ZenonT(60) DEF Answer
    <2> QED
      BY <1>4, <2>2, DeviceStep, ZenonT(60) DEF Answer, kept
  <1>5. ASSUME NEW t \in Threads, DropToken(t) PROVE IInv'
    <2>1. JobsOK(job')
      BY <1>5, GotoKeeps DEF DropToken
    <2>2. MemoryOK(memory')
      BY <1>5, ZenonT(60) DEF DropToken, MemoryOK, Sessions
    <2> QED
      BY <1>5, <2>1, <2>2, DeviceStep, ZenonT(60) DEF DropToken, kept
  <1>6. ASSUME NEW t \in Threads, BeginRenew(t) PROVE IInv'
    <2>1. ASSUME HasCredential
          PROVE  IssuedJob([job[t] EXCEPT !.at = "sent", !.sent = memory.refresh, !.keep = memory.keep])
      BY <2>1, SentIsIssued, ZenonT(60) DEF HasCredential, MemoryOK, Sessions
    <2>2. JobsOK(job')
      BY <1>6, <1>0, <2>1, GotoKeeps, ZenonT(60) DEF BeginRenew, Replaced
    <2> QED
      BY <1>6, <2>2, DeviceStep DEF BeginRenew, kept
  <1>7. ASSUME NEW t \in Threads, Unreachable(t) PROVE IInv'
    <2>1. JobsOK(job')
      BY <1>7, GotoKeeps, ZenonT(60) DEF Unreachable
    <2>2. faults' \in 0 .. MaxFaults
      BY <1>7, FaultBounded, ZenonT(60) DEF Unreachable
    <2> QED
      BY <1>7, <2>1, <2>2, DeviceStep, ZenonT(60) DEF Unreachable, kept
  <1>8. ASSUME NEW t \in Threads, RenewRefused(t) PROVE IInv'
    <2>1. JobsOK(job')
      BY <1>8, <1>0, GotoKeeps DEF RenewRefused
    <2>2. MemoryOK(memory')
      BY <1>8, ZenonT(60) DEF RenewRefused, MemoryOK, Sessions
    <2> QED
      BY <1>8, <2>1, <2>2, DeviceStep, ZenonT(60) DEF RenewRefused
  <1>9. ASSUME NEW t \in Threads, RestoreRefused(t) PROVE IInv'
    <2>1. JobsOK(job')
      BY <1>9, GotoKeeps, ZenonT(60) DEF RestoreRefused
    <2> QED
      BY <1>9, <2>1, DeviceStep DEF RestoreRefused
  <1>10. ASSUME NEW t \in Threads, SaveKept(t) PROVE IInv'
    <2>1. IssuedJob([job[t] EXCEPT !.at = "saved"])
      BY <1>10, SavedIsIssued DEF SaveKept
    <2>2. JobsOK(job')
      BY <1>10, <2>1, GotoKeeps, ZenonT(60) DEF SaveKept
    <2>3. vault' \in Ref /\ IsIssued(vault')
      BY <1>10, <1>0, ZenonT(60) DEF SaveKept, Kept, IssuedJob
    <2>4. restorable' \in BOOLEAN
      BY <1>10, ZenonT(60) DEF SaveKept
    <2> QED
      BY <1>10, <2>2, <2>3, <2>4, DeviceStep, ZenonT(60) DEF SaveKept
  <1>11. ASSUME NEW t \in Threads, Renewed(t) PROVE IInv'
    <2>1. JobsOK(job')
      BY <1>11, <1>0, GotoKeeps, ZenonT(60) DEF Renewed
    <2>2. MemoryOK(memory')
      BY <1>11, <1>0 DEF Renewed, MemoryOK, Sessions, IssuedJob
    <2> QED
      BY <1>11, <2>1, <2>2, DeviceStep, ZenonT(60) DEF Renewed, kept
  <1>12. ASSUME NEW t \in Threads, Restored(t) PROVE IInv'
    <2>1. JobsOK(job')
      BY <1>12, GotoKeeps, ZenonT(60) DEF Restored
    <2>2. MemoryOK(memory')
      BY <1>12, <1>0 DEF Restored, MemoryOK, Sessions, IssuedJob
    <2> QED
      BY <1>12, <2>1, <2>2, DeviceStep DEF Restored, kept
  <1>13. ASSUME NEW t \in Threads, TakeLock(t) PROVE IInv'
    <2>1. IssuedJob([job[t] EXCEPT !.at = "asked"])
      BY RenewIsIssued, ZenonT(60)
    <2>2. JobsOK(job')
      BY <1>13, <2>1, GotoKeeps, ZenonT(60) DEF TakeLock
    <2> QED
      BY <1>13, <2>2, DeviceStep, ZenonT(60) DEF TakeLock, kept
  <1> QED
    BY <1>1, <1>2, <1>3, <1>4, <1>5, <1>6, <1>7, <1>8, <1>9, <1>10, <1>11, <1>12, <1>13

-----------------------------------------------------------------------------
(* Steps of the server.                                                     *)

\* What the server issued stays issued, so what the device holds stays issued.
LEMMA HeldStaysIssued ==
    ASSUME IInv, pair' \in [Pairs -> PairStates],
           \A p \in Pairs : pair[p].family # None => pair'[p].family # None
    PROVE  \A p \in Ref : IsIssued(p) => IsIssued(p)'
  BY DEF IsIssued, Ref

LEMMA ServerStep ==
    ASSUME IInv, family' \in [Pairs -> Families], pair' \in [Pairs -> PairStates],
           epoch' \in Epochs, alarm' \in BOOLEAN,
           \A p \in Pairs : pair[p].family # None => pair'[p].family # None,
           UNCHANGED <<memory, kept, faults>>, UiOK(ui)', JobsOK(job)'
    PROVE  TypeOK' /\ Held'
  <1>1. TypeOK'
    BY DEF IInv, TypeOK, kept, UiOK, JobsOK, IssuedJob
  <1>2. \A p \in Ref : IsIssued(p) => IsIssued(p)'
    BY HeldStaysIssued
  <1>3. memory.refresh \in Ref /\ vault \in Ref
    BY DEF IInv, TypeOK, Sessions
  <1>4. memory' = memory /\ vault' = vault
    BY DEF kept
  <1>5. IsIssued(memory.refresh)' /\ IsIssued(vault)'
    BY <1>2, <1>3, <1>4 DEF IInv, Held, IsIssued
  <1>6. Held'
    BY <1>5 DEF Held, UiOK, JobsOK, IssuedJob
  <1> QED
    BY <1>1, <1>6

LEMMA SameUser ==
    ASSUME IInv, UNCHANGED ui, pair' \in [Pairs -> PairStates],
           \A p \in Pairs : pair[p].family # None => pair'[p].family # None
    PROVE  UiOK(ui)'
  <1>1. UiOK(ui) /\ ui.pair \in Ref
    BY DeviceNow DEF UiOK, UiStates
  <1> QED
    BY <1>1, HeldStaysIssued DEF UiOK, IsIssued

LEMMA SameJobs ==
    ASSUME IInv, UNCHANGED job, pair' \in [Pairs -> PairStates],
           \A p \in Pairs : pair[p].family # None => pair'[p].family # None
    PROVE  JobsOK(job)'
  <1>1. JobsOK(job)
    BY DeviceNow
  <1>2. \A t \in Threads : job[t].sent \in Ref /\ job[t].got \in Ref
    BY <1>1 DEF JobsOK, JobStates
  <1>3. \A p \in Ref : IsIssued(p) => IsIssued(p)'
    BY HeldStaysIssued
  <1> QED
    BY <1>1, <1>2, <1>3 DEF JobsOK, IssuedJob, IsIssued

\* Families that only end, and pairs that keep their family and whether they are spent.
FamiliesEnd ==
    \A f \in Pairs : /\ family'[f].state \in {family[f].state, "revoked"}
                     /\ family[f].state = "none" => family'[f].state = "none"
PairsStay ==
    \A p \in Pairs : pair'[p].family = pair[p].family /\ (pair'[p].used = "no" <=> pair[p].used = "no")

LEMMA FamiliesOnlyEnd ==
    ASSUME IInv, PairsStay, FamiliesEnd PROVE Named' /\ OneLiveCredential'
  <1>1. \A p \in Pairs : pair[p].family \in Ref
    BY DEF IInv, TypeOK, PairStates
  <1>2. Named'
    BY <1>1 DEF IInv, Named, Ref, PairsStay, FamiliesEnd
  <1>3. OneLiveCredential'
    BY DEF IInv, OneLiveCredential, Live, Spent, PairsStay, FamiliesEnd
  <1> QED
    BY <1>2, <1>3

LEMMA NewNamesNoFamily ==
    ASSUME IInv, CanIssue
    PROVE  New \in Pairs /\ pair[New].family = None /\ family[New].state = "none"
           /\ \A p \in Pairs : pair[p].family # New
  <1>1. New \in Pairs /\ pair[New].family = None /\ New # None
    BY NewIsNew, NoneIsNoPair
  <1>2. family[New].state = "none"
    BY <1>1 DEF IInv, Named
  <1> QED
    BY <1>1, <1>2 DEF IInv, Named

LEMMA NewPairOK ==
    ASSUME NEW f \in Ref PROVE NewPair(f) \in PairStates
  BY DEF NewPair, PairStates

\* A refresh: the only credential of a live family that is not spent makes place for the new pair.
LEMMA RotateKeeps ==
    ASSUME IInv, CanIssue, NEW p \in Pairs, Rotates(p), Rotate(p), pair[p].family \in Pairs
    PROVE  /\ pair' \in [Pairs -> PairStates]
           /\ \A q \in Pairs : pair[q].family # None => pair'[q].family # None
           /\ pair'[New].family # None
           /\ Named' /\ OneLiveCredential'
  <1> DEFINE f0 == pair[p].family
  <1>1. New \in Pairs /\ pair[New].family = None /\ p # New /\ f0 # None
    BY NewNamesNoFamily, NoneIsNoPair
  <1>2. pair \in [Pairs -> PairStates] /\ NewPair(f0) \in PairStates
    BY NewPairOK DEF IInv, TypeOK, Ref
  <1>3. pair' = [pair EXCEPT ![p].used = "recently", ![New] = NewPair(f0)]
    BY DEF Rotate
  <1>4. pair' \in [Pairs -> PairStates]
    BY <1>2, <1>3 DEF PairStates
  <1>5. /\ pair'[New].family = f0 /\ pair'[New].used = "no"
        /\ pair'[p].family = f0 /\ pair'[p].used = "recently"
        /\ \A q \in Pairs \ {p, New} : pair'[q] = pair[q]
    BY <1>1, <1>2, <1>3 DEF NewPair, PairStates
  <1>6. family' = family /\ Live(f0) /\ pair[p].used = "no"
    BY DEF Rotate, Rotates, Spent
  <1>7. Named'
    <2>1. \A q \in Pairs : pair'[q].family # None => family'[pair'[q].family].state # "none"
      BY <1>1, <1>5, <1>6 DEF IInv, Named, Live
    <2>2. \A f \in Pairs : family'[f].state # "none" => pair'[f].family = f
      <3> SUFFICES ASSUME NEW f \in Pairs, family[f].state # "none" PROVE pair'[f].family = f
        BY <1>6
      <3>1. pair[f].family = f /\ f # New
        BY <1>1, NoneIsNoPair DEF IInv, Named
      <3> QED
        BY <3>1, <1>5
    <2> QED
      BY <2>1, <2>2 DEF Named
  <1>8. OneLiveCredential'
    <2> SUFFICES ASSUME NEW f \in Pairs, Live(f)
                 PROVE  \E o \in Pairs : \A q \in Pairs : (pair'[q].family = f /\ pair'[q].used = "no") <=> q = o
      BY <1>6 DEF OneLiveCredential, Live, Spent
    <2>1. PICK o \in Pairs : \A q \in Pairs : (pair[q].family = f /\ pair[q].used = "no") <=> q = o
      BY DEF IInv, OneLiveCredential, Spent
    <2>2. CASE f = f0
      <3>1. o = p
        BY <2>1, <2>2, <1>6
      <3> QED
        BY <3>1, <2>1, <2>2, <1>1, <1>5
    <2>3. CASE f # f0
      <3>1. o # p /\ o # New
        BY <2>1, <2>3, <1>1, NoneIsNoPair
      <3> QED
        BY <3>1, <2>1, <2>3, <1>1, <1>5
    <2> QED
      BY <2>2, <2>3
  <1> QED
    BY <1>1, <1>4, <1>5, <1>7, <1>8

\* The thread that exchanged its credential: with the new pair, or refused.
LEMMA RotatedJobs ==
    ASSUME IInv, NEW t \in Threads, IssuedJob(job[t]), job[t].sent # None, CanIssue,
           Goto(t, [job[t] EXCEPT !.at = "got", !.got = New]),
           pair' \in [Pairs -> PairStates], pair'[New].family # None,
           \A q \in Pairs : pair[q].family # None => pair'[q].family # None
    PROVE  JobsOK(job)'
  <1> DEFINE j == [job[t] EXCEPT !.at = "got", !.got = New]
  <1>1. /\ JobsOK(job) /\ New \in Pairs
        /\ \A p \in Ref : IsIssued(p) => IsIssued(p)'
    BY DeviceNow, NewIsNew, HeldStaysIssued
  <1>2. j \in JobStates /\ j.sent = job[t].sent /\ j.got = New /\ j.at = "got"
    <2>1. New \in Ref
      BY <1>1 DEF Ref
    <2> QED
      BY <2>1 DEF IssuedJob, JobStates, Renewing
  <1>3. job' = [job EXCEPT ![t] = j] /\ job \in [Threads -> JobStates]
    BY <1>1 DEF Goto, JobsOK
  <1>4. \A s \in Threads : job[s].sent \in Ref /\ job[s].got \in Ref
    BY <1>3 DEF JobStates
  <1>5. \A s \in Threads \ {t} : job'[s] = job[s] /\ IssuedJob(job[s])'
    BY <1>1, <1>3, <1>4 DEF JobsOK, IssuedJob, IsIssued
  <1>6. job'[t] = j /\ IssuedJob(job[t])'
    BY <1>1, <1>2, <1>3, <1>4 DEF IssuedJob, IsIssued
  <1> QED
    BY <1>2, <1>3, <1>5, <1>6 DEF JobsOK

LEMMA RefusedJobs ==
    ASSUME IInv, NEW t \in Threads, IssuedJob(job[t]), job[t].sent # None,
           Goto(t, [job[t] EXCEPT !.at = "refused"]), UNCHANGED pair
    PROVE  JobsOK(job)'
  <1> DEFINE j == [job[t] EXCEPT !.at = "refused"]
  <1>1. JobsOK(job)
    BY DeviceNow
  <1>2. j \in JobStates /\ j.sent = job[t].sent /\ j.got = job[t].got /\ j.at = "refused"
    BY DEF IssuedJob, JobStates, Renewing
  <1>3. job' = [job EXCEPT ![t] = j] /\ job \in [Threads -> JobStates]
    BY <1>1 DEF Goto, JobsOK
  <1> QED
    BY <1>1, <1>2, <1>3 DEF JobsOK, IssuedJob, IsIssued

LEMMA StepOfTheServer ==
    ASSUME IInv, \/ \E p \in Pairs : ExpireToken(p) \/ EndGrace(p)
                 \/ ResetPassword \/ Start \/ Revoke
                 \/ \E t \in Threads : Exchange(t)
    PROVE  IInv'
  <1>0. family \in [Pairs -> Families] /\ pair \in [Pairs -> PairStates] /\ epoch \in Epochs /\ alarm \in BOOLEAN
    BY DEF IInv, TypeOK
  <1>1. ASSUME NEW p \in Pairs, ExpireToken(p) \/ EndGrace(p) PROVE IInv'
    <2>1. pair' \in [Pairs -> PairStates] /\ PairsStay
      <3>1. CASE ExpireToken(p)
        BY <1>0, <3>1 DEF ExpireToken, PairStates, PairsStay
      <3>2. CASE EndGrace(p)
        BY <1>0, <3>2 DEF EndGrace, PairStates, PairsStay
      <3> QED
        BY <1>1, <3>1, <3>2
    <2>2. Named' /\ OneLiveCredential'
      BY <1>1, <2>1, FamiliesOnlyEnd DEF ExpireToken, EndGrace, FamiliesEnd
    <2>3. UiOK(ui)' /\ JobsOK(job)'
      BY <1>1, <2>1, SameUser, SameJobs DEF ExpireToken, EndGrace, PairsStay
    <2>4. TypeOK' /\ Held'
      BY <1>0, <1>1, <2>1, <2>3, ServerStep DEF ExpireToken, EndGrace, PairsStay
    <2> QED
      BY <2>2, <2>4 DEF IInv
  <1>2. CASE ResetPassword
    <2>1. family' \in [Pairs -> Families]
      BY <1>0, <1>2 DEF ResetPassword, Families
    <2>2. FamiliesEnd
      BY <1>0, <1>2 DEF ResetPassword, Families, Live, FamiliesEnd
    <2>3. Named' /\ OneLiveCredential'
      BY <1>2, <2>2, FamiliesOnlyEnd DEF ResetPassword, PairsStay
    <2>4. UiOK(ui)' /\ JobsOK(job)'
      BY <1>0, <1>2, SameUser, SameJobs DEF ResetPassword
    <2>5. epoch' \in Epochs
      BY <1>0, <1>2, SessionsAssumption DEF ResetPassword, Epochs
    <2>6. TypeOK' /\ Held'
      BY <1>0, <1>2, <2>1, <2>4, <2>5, ServerStep DEF ResetPassword
    <2> QED
      BY <2>3, <2>6 DEF IInv
  <1>3. CASE Revoke
    <2>1. ui.pair \in Ref /\ IsIssued(ui.pair)
      BY DeviceNow DEF UiOK, UiStates
    <2>2. /\ family' \in [Pairs -> Families]
          /\ FamiliesEnd
      <3>1. CASE ui.pair = None
        BY <1>0, <1>3, <3>1 DEF Revoke, FamiliesEnd
      <3>2. CASE ui.pair # None
        <4>1. pair[ui.pair].family \in Pairs /\ family[pair[ui.pair].family].state # "none"
          BY <1>0, <2>1, <3>2 DEF Ref, IsIssued, PairStates, IInv, Named
        <4> QED
          BY <1>0, <1>3, <3>2, <4>1 DEF Revoke, Families, FamiliesEnd
      <3> QED
        BY <3>1, <3>2
    <2>3. Named' /\ OneLiveCredential'
      BY <1>3, <2>2, FamiliesOnlyEnd DEF Revoke, PairsStay
    <2>4. JobsOK(job)'
      BY <1>0, <1>3, SameJobs DEF Revoke
    <2>5. UiOK(ui)'
      BY <1>3, NoSessionOK DEF Revoke, UiOK, IsIssued, Free, None
    <2>6. TypeOK' /\ Held'
      BY <1>0, <1>3, <2>2, <2>4, <2>5, ServerStep DEF Revoke
    <2> QED
      BY <2>3, <2>6 DEF IInv
  <1>4. CASE Start
    <2>1. /\ New \in Pairs /\ pair[New].family = None /\ family[New].state = "none"
          /\ \A p \in Pairs : pair[p].family # New
          /\ New # None
      BY <1>4, NewNamesNoFamily, NoneIsNoPair DEF Start
    <2>2. UiOK(ui) /\ ui \in UiStates
      BY DeviceNow DEF UiOK
    <2>3. /\ family' = [family EXCEPT ![New] = [state |-> "live", epoch |-> ui.epoch]]
          /\ pair' = [pair EXCEPT ![New] = NewPair(New)]
      BY <1>4 DEF Start
    <2>4. family' \in [Pairs -> Families] /\ pair' \in [Pairs -> PairStates]
      BY <1>0, <2>1, <2>2, <2>3, NewPairOK DEF Families, UiStates, Ref
    <2>5. /\ pair'[New].family = New /\ pair'[New].used = "no" /\ family'[New].state = "live"
          /\ \A p \in Pairs \ {New} : pair'[p] = pair[p] /\ family'[p] = family[p]
      BY <1>0, <2>1, <2>3 DEF NewPair
    <2>6. Named'
      <3>1. \A p \in Pairs : pair'[p].family # None => family'[pair'[p].family].state # "none"
        <4> SUFFICES ASSUME NEW p \in Pairs, p # New, pair[p].family # None
                     PROVE  family'[pair[p].family].state # "none"
          BY <2>5
        <4>1. pair[p].family \in Pairs /\ pair[p].family # New /\ family[pair[p].family].state # "none"
          BY <1>0, <2>1 DEF PairStates, Ref, IInv, Named
        <4> QED
          BY <4>1, <2>5
      <3>2. \A f \in Pairs : family'[f].state # "none" => pair'[f].family = f
        BY <2>5 DEF IInv, Named
      <3> QED
        BY <3>1, <3>2 DEF Named
    <2>7. OneLiveCredential'
      <3> SUFFICES ASSUME NEW f \in Pairs, family'[f].state = "live"
                   PROVE  \E o \in Pairs : \A q \in Pairs : (pair'[q].family = f /\ pair'[q].used = "no") <=> q = o
        BY DEF OneLiveCredential, Live, Spent
      <3>1. CASE f = New
        BY <3>1, <2>1, <2>5
      <3>2. CASE f # New
        <4>1. PICK o \in Pairs : \A q \in Pairs : (pair[q].family = f /\ pair[q].used = "no") <=> q = o
          BY <3>2, <2>5 DEF IInv, OneLiveCredential, Live, Spent
        <4>2. o # New
          BY <4>1, <2>1, NoneIsNoPair
        <4> QED
          BY <3>2, <4>1, <4>2, <2>1, <2>5
      <3> QED
        BY <3>1, <3>2
    <2>8. \A p \in Pairs : pair[p].family # None => pair'[p].family # None
      BY <2>1, <2>5
    <2>9. JobsOK(job)'
      BY <1>4, <2>4, <2>8, SameJobs DEF Start
    <2>10. UiOK(ui)'
      <3>1. ui' = [ui EXCEPT !.at = "in", !.pair = New]
        BY <1>4 DEF Start
      <3>2. ui' \in UiStates /\ ui'.pair = New
        BY <3>1, <2>1, <2>2 DEF UiStates, Ref
      <3> QED
        BY <3>2, <2>1, <2>5 DEF UiOK, IsIssued
    <2>11. TypeOK' /\ Held'
      BY <1>0, <1>4, <2>4, <2>8, <2>9, <2>10, ServerStep DEF Start
    <2> QED
      BY <2>6, <2>7, <2>11 DEF IInv
  <1>5. ASSUME NEW t \in Threads, Exchange(t) PROVE IInv'
    <2> DEFINE p == job[t].sent
    <2>1. IssuedJob(job[t]) /\ p # None /\ p \in Pairs /\ pair[p].family \in Pairs /\ family[pair[p].family].state # "none"
      <3>1. IssuedJob(job[t]) /\ p # None /\ p \in Pairs
        BY <1>5, DeviceNow DEF Exchange, IssuedJob, JobStates, Renewing, Ref
      <3> QED
        BY <3>1, <1>0 DEF IssuedJob, IsIssued, PairStates, Ref, IInv, Named
    <2>2. CASE Rotates(p)
      <3>1. CanIssue /\ Rotate(p) /\ Goto(t, [job[t] EXCEPT !.at = "got", !.got = New])
        BY <1>5, <2>2 DEF Exchange
      <3>2. /\ pair' \in [Pairs -> PairStates]
            /\ \A q \in Pairs : pair[q].family # None => pair'[q].family # None
            /\ pair'[New].family # None
            /\ Named' /\ OneLiveCredential'
        BY <2>1, <2>2, <3>1, RotateKeeps
      <3>3. UiOK(ui)'
        BY <1>5, <3>2, SameUser DEF Exchange
      <3>4. JobsOK(job)'
        BY <2>1, <3>1, <3>2, RotatedJobs, ZenonT(60)
      <3>5. TypeOK' /\ Held'
        BY <1>0, <1>5, <3>1, <3>2, <3>3, <3>4, ServerStep DEF Exchange, Rotate
      <3> QED
        BY <3>2, <3>5 DEF IInv
    <2>3. CASE ~Rotates(p)
      <3>1. Reject(p) /\ Goto(t, [job[t] EXCEPT !.at = "refused"])
        BY <1>5, <2>3, ZenonT(60) DEF Exchange
      <3>2. /\ family' \in [Pairs -> Families]
            /\ FamiliesEnd
        BY <1>0, <2>1, <3>1 DEF Reject, Families, FamiliesEnd, Live
      <3>3. Named' /\ OneLiveCredential'
        BY <3>1, <3>2, FamiliesOnlyEnd, SMTT(60) DEF Reject, PairsStay
      <3>4. UiOK(ui)'
        BY <1>0, <1>5, <3>1, SameUser DEF Exchange, Reject
      <3>5. JobsOK(job)'
        BY <2>1, <3>1, RefusedJobs, SMTT(60) DEF Reject
      <3>6. alarm' \in BOOLEAN
        BY <1>0, <3>1, SMTT(60) DEF Reject, Live, Spent, JustSpent, Current
      <3>7. TypeOK' /\ Held'
        BY <1>0, <1>5, <3>1, <3>2, <3>4, <3>5, <3>6, ServerStep DEF Exchange, Reject
      <3> QED
        BY <3>3, <3>7 DEF IInv
    <2> QED
      BY <2>2, <2>3
  <1> QED
    BY <1>1, <1>2, <1>3, <1>4, <1>5

-----------------------------------------------------------------------------
LEMMA StepInv == IInv /\ [Next]_vars => IInv'
  <1> SUFFICES ASSUME IInv, [Next]_vars PROVE IInv'
    OBVIOUS
  <1>1. CASE UNCHANGED vars
    <2>1. MemoryOK(memory') /\ UiOK(ui') /\ JobsOK(job')
      BY <1>1, DeviceNow DEF vars
    <2> QED
      BY <1>1, <2>1, DeviceNow, DeviceStep DEF vars, server
  <1>2. CASE Next
    BY <1>2, StepOfTheUser, StepOfAThread, StepOfTheServer DEF Next
  <1> QED
    BY <1>1, <1>2

LEMMA Invariance == Spec => []IInv
  BY InitInv, StepInv, PTL DEF Spec

\* Every step of the device and of the server keeps the types (backend/native_sessions.py,
\* app/sync/service.py), for every number of threads, pairs, faults and resets.
THEOREM TypeCorrect == Spec => []TypeOK
  <1>1. IInv => TypeOK
    BY DEF IInv
  <1> QED
    BY <1>1, Invariance, PTL

\* A live family never has two credentials that can be exchanged, nor none: whatever is retried,
\* reused, lost or interleaved, a session neither forks nor dies silently (refresh, start, logout).
THEOREM NeverForks == Spec => []OneLiveCredential
  <1>1. IInv => OneLiveCredential
    BY DEF IInv
  <1> QED
    BY <1>1, Invariance, PTL

=============================================================================
