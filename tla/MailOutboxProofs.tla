-------------------------- MODULE MailOutboxProofs --------------------------
(***************************************************************************)
(* What holds of MailOutbox for every number of emails, workers, attempts  *)
(* and faults, if no delivery outlasts its lock.                           *)
(*                                                                         *)
(* A claimed row is "sending" with a lock that has not run out, so nobody  *)
(* else can claim it (Locks).  From that, what the provider took and what  *)
(* an attempt cost is accounted for by the row, its holder and the faults  *)
(* so far (Accounts).                                                      *)
(***************************************************************************)
EXTENDS MailOutbox, TLAPS

AtWork == {"send", "accepted", "failed"}

\* The types, with attempts as numbers: their bound is a part of Accounts.
Shape ==
    /\ row \in [Emails -> [status : Statuses, attempts : Nat, waiting : BOOLEAN, expired : BOOLEAN]]
    /\ wanted \in [Emails -> BOOLEAN]
    /\ job \in [Workers -> [at : Places, todo : SUBSET Emails, mail : Emails \cup {NoMail}]]
    /\ taken \in [Emails -> Nat]
    /\ faults \in 0 .. MaxFaults

Locks ==
    /\ \A w \in Workers : job[w].mail # NoMail <=> job[w].at \in AtWork
    /\ \A w \in Workers : job[w].mail # NoMail =>
          row[job[w].mail].status = "sending" /\ ~row[job[w].mail].expired
    /\ OneSender

Held(e) == \E w \in Workers : job[w].mail = e
Took(e) == \E w \in Workers : job[w].mail = e /\ job[w].at = "accepted"

Accounts == \A e \in Emails :
    /\ row[e].status = "pending" => row[e].attempts < MaxAttempts
    /\ row[e].status = "none" => row[e].attempts = 0
    /\ row[e].attempts <= MaxAttempts + faults
    /\ row[e].status = "sending" /\ ~Held(e) => row[e].attempts < MaxAttempts + faults
    /\ taken[e] <= 1 + faults
    /\ taken[e] <= faults \/ row[e].status = "sent" \/ Took(e)

IInv == Shape /\ Locks /\ Accounts

LEMMA InitInv == Init => IInv
  BY OutboxAssumption DEF Row, Init, IInv, Shape, Locks, Accounts, OneSender, Idle, Places, AtWork, Statuses

LEMMA StepInv == ASSUME ~SlowSends, IInv, [Next]_vars PROVE IInv'
  <1> USE OutboxAssumption DEF IInv, Shape, Row
  <1>1. ASSUME NEW e \in Emails, Enqueue(e) PROVE IInv'
    BY <1>1 DEF Enqueue, Locks, Accounts, OneSender, Held, Took, Statuses
  <1>2. ASSUME NEW e \in Emails, Outdate(e) PROVE IInv'
    BY <1>2 DEF Outdate, Locks, Accounts, OneSender, Held, Took
  \* Time changes one flag of one row, of a row nobody holds if it is the lock.
  <1>3. ASSUME UNCHANGED <<wanted, job, taken, faults>>, Shape',
                \A f \in Emails : row'[f].status = row[f].status /\ row'[f].attempts = row[f].attempts,
                \A w \in Workers : job[w].mail # NoMail => row'[job[w].mail].expired = row[job[w].mail].expired
         PROVE  IInv'
    <2>1. Locks'
      BY <1>3 DEF Locks, OneSender
    <2>2. \A f \in Emails : (Held(f)' <=> Held(f)) /\ (Took(f)' <=> Took(f))
      BY <1>3 DEF Held, Took
    <2>3. Accounts'
      BY <1>3, <2>2 DEF Accounts
    <2> QED
      BY <1>3, <2>1, <2>3
  <1>4. ASSUME NEW e \in Emails, BackoffEnds(e) PROVE IInv'
    <2>1. row' = [row EXCEPT ![e] = [status |-> row[e].status, attempts |-> row[e].attempts,
                                     waiting |-> FALSE, expired |-> row[e].expired]]
      BY <1>4 DEF BackoffEnds
    <2> QED
      BY <1>4, <1>3, <2>1 DEF BackoffEnds
  <1>5. ASSUME NEW e \in Emails, LockRunsOut(e) PROVE IInv'
    <2>1. row' = [row EXCEPT ![e] = [status |-> row[e].status, attempts |-> row[e].attempts,
                                     waiting |-> row[e].waiting, expired |-> TRUE]]
      BY <1>5 DEF LockRunsOut
    <2>2. \A w \in Workers : job[w].mail # e
      BY <1>5 DEF LockRunsOut, Holds
    <2>3. \A w \in Workers : job[w].mail # NoMail => row'[job[w].mail].expired = row[job[w].mail].expired
      BY <2>1, <2>2
    <2>4. Shape' /\ \A f \in Emails : row'[f].status = row[f].status /\ row'[f].attempts = row[f].attempts
      BY <1>5, <2>1 DEF LockRunsOut
    <2> QED
      BY <1>5, <1>3, <2>3, <2>4 DEF LockRunsOut
  <1>6. ASSUME NEW w \in Workers, Select(w) PROVE IInv'
    BY <1>6 DEF Select, Locks, Accounts, OneSender, Held, Took, Places, AtWork
  <1>7. ASSUME NEW w \in Workers, Finish(w) PROVE IInv'
    BY <1>7 DEF Finish, Idle, Locks, Accounts, OneSender, Held, Took, Places, AtWork
  <1>8. ASSUME NEW w \in Workers, NEW e \in Emails, Claim(w, e) PROVE IInv'
    <2>1. CASE ~StillDue(e)
      <3>1. job' = [job EXCEPT ![w] = [at |-> job[w].at, todo |-> job[w].todo \ {e}, mail |-> job[w].mail]]
            /\ UNCHANGED <<row, wanted, taken, faults>>
        BY <1>8, <2>1 DEF Claim
      <3>2. Shape' /\ Locks'
        BY <3>1 DEF Locks, OneSender
      <3>3. \A f \in Emails : (Held(f)' <=> Held(f)) /\ (Took(f)' <=> Took(f))
        BY <3>1 DEF Held, Took
      <3> QED
        BY <3>1, <3>2, <3>3 DEF Accounts
    <2>2. CASE StillDue(e)
      <3>1. /\ row' = [row EXCEPT ![e] = [status |-> "sending", attempts |-> row[e].attempts + 1,
                                          waiting |-> row[e].waiting, expired |-> FALSE]]
            /\ job' = [job EXCEPT ![w] = [at |-> "send", todo |-> job[w].todo \ {e}, mail |-> e]]
            /\ UNCHANGED <<wanted, taken, faults>>
            /\ job[w].at = "next"
        BY <1>8, <2>2 DEF Claim
      <3>2. \A v \in Workers : job[v].mail # e
        BY <2>2 DEF StillDue, Due, Locks
      <3>3. Shape'
        BY <3>1 DEF Statuses, Places
      <3>4. Locks'
        BY <3>1, <3>2 DEF Locks, OneSender, AtWork
      <3>5. row[e].attempts < MaxAttempts + faults
        BY <2>2, <3>2 DEF StillDue, Due, Accounts, Held
      <3>6. Accounts'
        <4>1. ASSUME NEW f \in Emails, f # e PROVE Held(f)' <=> Held(f)
          BY <3>1, <4>1 DEF Held, Locks, AtWork
        <4>2. ASSUME NEW f \in Emails, f # e PROVE Took(f)' <=> Took(f)
          BY <3>1, <4>2 DEF Took, Locks, AtWork
        <4>3. ~Took(e) /\ Held(e)'
          BY <3>1, <3>2 DEF Took, Held
        <4>4. taken[e] <= faults
          BY <2>2, <4>3 DEF Accounts, StillDue, Due
        <4> QED
          BY <3>1, <3>5, <4>1, <4>2, <4>3, <4>4 DEF Accounts
      <3> QED
        BY <3>3, <3>4, <3>6
    <2> QED
      BY <2>1, <2>2
  \* What the worker records of the row it holds.
  <1>9. ASSUME NEW w \in Workers, NEW status \in {"sent", "dead", "pending"}, NEW waiting \in BOOLEAN,
               job[w].at \in AtWork, Settle(w, status, waiting), UNCHANGED <<wanted, taken, faults>>,
               status = "pending" => row[job[w].mail].attempts < MaxAttempts,
               status # "sent" => job[w].at # "accepted"
        PROVE  IInv'
    <2> DEFINE e == job[w].mail
    <2>1. e \in Emails /\ \A v \in Workers : v # w => job[v].mail # e
      BY <1>9 DEF Locks, OneSender
    <2>2. /\ row' = [row EXCEPT ![e] = [status |-> status, attempts |-> row[e].attempts,
                                        waiting |-> waiting, expired |-> FALSE]]
          /\ job' = [job EXCEPT ![w] = [at |-> "next", todo |-> job[w].todo, mail |-> NoMail]]
      BY <1>9, <2>1 DEF Settle
    <2>3. Shape'
      BY <1>9, <2>1, <2>2 DEF Statuses, Places
    <2>4. Locks'
      BY <2>1, <2>2 DEF Locks, OneSender, AtWork
    <2>5. ASSUME NEW f \in Emails, f # e PROVE (Held(f)' <=> Held(f)) /\ (Took(f)' <=> Took(f))
      BY <2>1, <2>2, <2>5 DEF Held, Took, Locks, AtWork
    <2>6. Accounts'
      <3>1. row'[e].attempts = row[e].attempts /\ row'[e].status = status
        BY <2>1, <2>2
      <3>2. status # "sent" => taken[e] <= faults
        BY <1>9, <2>1 DEF Accounts, Took, Locks
      <3>3. \A f \in Emails : f # e => row'[f] = row[f]
        BY <2>2
      <3> QED
        BY <1>9, <2>1, <2>5, <3>1, <3>2, <3>3 DEF Accounts
    <2> QED
      BY <2>3, <2>4, <2>6
  <1>10. ASSUME NEW w \in Workers, Drop(w) \/ RecordSent(w) \/ RecordFailure(w) PROVE IInv'
    <2>1. CASE Drop(w)
      BY <1>9, <2>1 DEF Drop, AtWork
    <2>2. CASE RecordSent(w)
      BY <1>9, <2>2 DEF RecordSent, AtWork
    <2>3. CASE RecordFailure(w)
      <3>1. job[w].at = "failed" /\ job[w].mail \in Emails /\ UNCHANGED <<wanted, taken, faults>>
        BY <2>3 DEF RecordFailure, Locks, AtWork
      <3>2. CASE GiveUp(job[w].mail)
        BY <1>9, <2>3, <3>1, <3>2 DEF RecordFailure, AtWork
      <3>3. CASE ~GiveUp(job[w].mail)
        <4>1. row[job[w].mail].attempts < MaxAttempts
          BY <3>1, <3>3 DEF GiveUp
        <4> QED
          BY <1>9, <2>3, <3>1, <3>3, <4>1 DEF RecordFailure, AtWork
      <3> QED
        BY <3>2, <3>3
    <2> QED
      BY <1>10, <2>1, <2>2, <2>3
  <1>11. ASSUME NEW w \in Workers, NEW counted \in {0, 1}, NEW place \in {"accepted", "failed"},
                Deliver(w, counted, place), faults' \in 0 .. MaxFaults,
                \/ place = "accepted" /\ counted = 1 /\ faults' = faults
                \/ place = "failed" /\ faults' = faults + counted
         PROVE  IInv'
    <2> DEFINE e == job[w].mail
    <2>1. e \in Emails /\ job[w].at = "send" /\ \A v \in Workers : v # w => job[v].mail # e
      BY <1>11 DEF Deliver, Locks, OneSender, AtWork
    <2>2. counted \in Nat
      OBVIOUS
    <2>3. /\ job' = [job EXCEPT ![w] = [at |-> place, todo |-> job[w].todo, mail |-> e]]
          /\ taken' = [taken EXCEPT ![e] = @ + counted]
          /\ UNCHANGED <<row, wanted>>
      BY <1>11 DEF Deliver
    <2>4. faults \in Nat /\ faults' \in Nat /\ faults <= faults'
      BY <1>11
    <2>5. Shape'
      BY <1>11, <2>1, <2>2, <2>3, <2>4 DEF Places
    <2>6. Locks'
      BY <2>1, <2>2, <2>3 DEF Locks, OneSender, AtWork
    <2>7. Accounts'
      <3>1. ASSUME NEW f \in Emails PROVE Held(f)' <=> Held(f)
        BY <2>1, <2>3 DEF Held
      <3>2. ASSUME NEW f \in Emails, f # e PROVE Took(f)' <=> Took(f)
        BY <2>1, <2>3, <3>2 DEF Took
      <3>3. ~Took(e) /\ row[e].status = "sending"
        BY <2>1 DEF Took, Locks, AtWork
      <3>4. place = "accepted" => Took(e)'
        BY <2>1, <2>3 DEF Took
      <3>5. taken[e] <= faults
        BY <2>1, <3>3 DEF Accounts
      <3>6. taken'[e] = taken[e] + counted /\ taken[e] \in Nat
        BY <2>1, <2>3
      <3>7. taken'[e] <= 1 + faults' /\ (taken'[e] <= faults' \/ Took(e)')
        BY <1>11, <2>4, <3>4, <3>5, <3>6
      <3> QED
        BY <2>1, <2>3, <2>4, <3>1, <3>2, <3>3, <3>7 DEF Accounts
    <2> QED
      BY <2>5, <2>6, <2>7
  <1>12. ASSUME NEW w \in Workers, ProviderAccepts(w) \/ ProviderFails(w) \/ AnswerLost(w) PROVE IInv'
    BY <1>12, <1>11 DEF ProviderAccepts, ProviderFails, AnswerLost, Fault
  <1>13. ASSUME NEW w \in Workers, Die(w) PROVE IInv'
    <2>1. job' = [job EXCEPT ![w] = Idle] /\ faults' = faults + 1 /\ faults' \in 0 .. MaxFaults
          /\ UNCHANGED <<row, wanted, taken>>
      BY <1>13 DEF Die, Fault
    <2>2. Shape'
      BY <2>1 DEF Idle, Places
    <2>3. Locks'
      BY <2>1 DEF Idle, Locks, OneSender, AtWork
    <2>4. Accounts'
      BY <2>1 DEF Accounts
    <2> QED
      BY <2>2, <2>3, <2>4
  <1>14. CASE UNCHANGED vars
    BY <1>14 DEF vars, Locks, Accounts, OneSender, Held, Took
  <1> QED
    BY <1>1, <1>2, <1>4, <1>5, <1>6, <1>7, <1>8, <1>10, <1>12, <1>13, <1>14 DEF Next, Clock, Work

\* No two workers ever have the same email at hand, if no delivery outlasts its lock.
THEOREM NeverSentByTwo == ASSUME ~SlowSends PROVE Spec => []OneSender
  <1>1. IInv => OneSender
    BY DEF IInv, Locks
  <1>2. IInv /\ [Next]_vars => IInv'
    BY StepInv
  <1> QED
    BY InitInv, <1>1, <1>2, PTL DEF Spec

\* What an email is taken for a second time is a fault: a worker that died or an answer
\* that was lost, never the queue's own doing.
THEOREM DuplicatesAreFaults == ASSUME ~SlowSends PROVE Spec => []NoNeedlessDuplicate
  <1>1. IInv => NoNeedlessDuplicate
    BY DEF IInv, Accounts, NoNeedlessDuplicate
  <1>2. IInv /\ [Next]_vars => IInv'
    BY StepInv
  <1> QED
    BY InitInv, <1>1, <1>2, PTL DEF Spec

\* Every attempt beyond MaxAttempts is paid for by a worker that died between the claim
\* of a row and its outcome.
THEOREM AttemptsArePaidFor == ASSUME ~SlowSends PROVE Spec => []AttemptsBounded
  <1>1. IInv => AttemptsBounded
    BY DEF IInv, Accounts, AttemptsBounded
  <1>2. IInv /\ [Next]_vars => IInv'
    BY StepInv
  <1> QED
    BY InitInv, <1>1, <1>2, PTL DEF Spec

\* Every variable keeps its type; that attempts stays within MaxAttempts + MaxFaults is
\* no matter of one action, it follows from the accounts.
THEOREM TypeCorrect == ASSUME ~SlowSends PROVE Spec => []TypeOK
  <1>1. IInv => TypeOK
    <2> SUFFICES ASSUME IInv PROVE TypeOK
      OBVIOUS
    <2>1. faults \in Nat /\ MaxFaults \in Nat /\ MaxAttempts \in Nat /\ faults <= MaxFaults
      BY OutboxAssumption DEF IInv, Shape
    <2>2. ASSUME NEW e \in Emails PROVE row[e].attempts \in 0 .. MaxAttempts + MaxFaults
      <3>1. row[e].attempts \in Nat /\ row[e].attempts <= MaxAttempts + faults
        BY DEF IInv, Shape, Accounts
      <3> QED
        BY <2>1, <3>1
    <2>3. row \in [Emails -> [status : Statuses, attempts : 0 .. MaxAttempts + MaxFaults,
                              waiting : BOOLEAN, expired : BOOLEAN]]
      BY <2>2, SMTT(60) DEF IInv, Shape
    <2> QED
      BY <2>3 DEF IInv, Shape, TypeOK
  <1>2. IInv /\ [Next]_vars => IInv'
    BY StepInv
  <1> QED
    BY InitInv, <1>1, <1>2, PTL DEF Spec

\* No worker changes a row that was sent or given up: it is nobody's to claim or settle.
THEOREM OverStaysOver == ASSUME ~SlowSends PROVE Spec => OverIsOver
  <1> DEFINE Kept == \A e \in Emails : row[e].status \in {"sent", "dead"} => row'[e].status = row[e].status
  <1>1. ASSUME IInv, [Next]_vars PROVE Kept
    <2> USE <1>1 DEF IInv, Shape, Row
    <2>1. ASSUME NEW e \in Emails, row[e].status \notin {"sent", "dead"},
                 \A f \in Emails : f # e => row'[f] = row[f]
          PROVE  Kept
      BY <2>1
    <2>2. ASSUME UNCHANGED row PROVE Kept
      BY <2>2
    <2>3. ASSUME NEW e \in Emails, Enqueue(e) \/ Outdate(e) \/ Clock(e) PROVE Kept
      <3>1. CASE Enqueue(e)
        BY <2>1, <3>1 DEF Enqueue
      <3>2. CASE Outdate(e)
        BY <2>2, <3>2 DEF Outdate
      <3>3. CASE BackoffEnds(e)
        BY <2>1, <3>3 DEF BackoffEnds
      <3>4. CASE LockRunsOut(e)
        BY <2>1, <3>4 DEF LockRunsOut
      <3> QED
        BY <2>3, <3>1, <3>2, <3>3, <3>4 DEF Clock
    <2>4. ASSUME NEW w \in Workers, NEW e \in Emails, Claim(w, e) PROVE Kept
      <3>1. CASE Due(e)
        BY <2>1, <2>4, <3>1 DEF Claim, StillDue, Due
      <3>2. CASE ~Due(e)
        BY <2>2, <2>4, <3>2 DEF Claim, StillDue
      <3> QED
        BY <3>1, <3>2
    <2>5. ASSUME NEW w \in Workers, job[w].at \in AtWork,
                 \A f \in Emails : f # job[w].mail => row'[f] = row[f]
          PROVE  Kept
      <3>1. job[w].mail \in Emails /\ row[job[w].mail].status = "sending"
        BY <2>5 DEF Locks
      <3> QED
        BY <2>1, <2>5, <3>1
    <2>6. ASSUME NEW w \in Workers, Drop(w) \/ RecordSent(w) \/ RecordFailure(w) PROVE Kept
      <3>1. job[w].at \in AtWork
        BY <2>6 DEF Drop, RecordSent, RecordFailure, AtWork
      <3>2. \A f \in Emails : f # job[w].mail => row'[f] = row[f]
        BY <2>6 DEF Drop, RecordSent, RecordFailure, Settle
      <3> QED
        BY <2>5, <3>1, <3>2
    <2> QED
      BY <1>1, <2>2, <2>3, <2>4, <2>6 DEF Next, Work, Select, Finish, ProviderAccepts, ProviderFails, AnswerLost,
                                        Deliver, Die, vars
  <1>2. IInv /\ [Next]_vars => IInv'
    BY StepInv
  <1>3. IInv /\ [Next]_vars => [Kept]_vars
    BY <1>1
  <1> QED
    BY InitInv, <1>2, <1>3, PTL DEF Spec, OverIsOver
=============================================================================
