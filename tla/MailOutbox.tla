----------------------------- MODULE MailOutbox -----------------------------
(***************************************************************************)
(* The durable queue of transactional email (backend/outbox.py).  Every    *)
(* server process runs process_due: after a response that queued an email, *)
(* and in the loop of its OutboxWorker.  A Worker here is one such call.   *)
(* It picks the rows that are due, and for each claims the row, composes   *)
(* and delivers the message, and records what became of it: each step is a *)
(* transaction of its own, the delivery in between is not.                 *)
(*                                                                         *)
(* Time is abstract: a retry becomes due, a lock runs out.  A lock whose   *)
(* worker is still sending runs out only if SlowSends: LOCK_SECONDS is 120 *)
(* and each network operation of a delivery may take up to                 *)
(* delivery_timeout_seconds.                                               *)
(***************************************************************************)
EXTENDS Integers, FiniteSets

CONSTANTS
    Emails,         \* the rows of email_outbox
    Workers,        \* concurrent calls of process_due
    NoMail,         \* no row at hand
    MaxAttempts,    \* MAX_ATTEMPTS
    SlowSends,      \* a delivery may outlast its lock
    MaxFaults       \* bound: workers that die, answers of the provider that are lost

ASSUME OutboxAssumption ==
    /\ IsFiniteSet(Emails) /\ NoMail \notin Emails
    /\ MaxAttempts \in Nat \ {0}
    /\ MaxFaults \in Nat
    /\ SlowSends \in BOOLEAN

VARIABLES
    row,        \* status, attempts; next_attempt_at and locked_until against the clock
    wanted,     \* what the email is about still needs it
    job,        \* per worker: the rows it selected, the one it claimed, how far it is
    taken,      \* messages the provider accepted
    faults      \* faults so far

vars == <<row, wanted, job, taken, faults>>

Statuses == {"none", "pending", "sending", "sent", "dead"}
Places == {"idle", "next", "send", "accepted", "failed"}
Row(status, attempts, waiting, expired) ==
    [status |-> status, attempts |-> attempts, waiting |-> waiting, expired |-> expired]
Idle == [at |-> "idle", todo |-> {}, mail |-> NoMail]

TypeOK ==
    /\ row \in [Emails -> [status : Statuses, attempts : 0 .. MaxAttempts + MaxFaults,
                           waiting : BOOLEAN, expired : BOOLEAN]]
    /\ wanted \in [Emails -> BOOLEAN]
    /\ job \in [Workers -> [at : Places, todo : SUBSET Emails, mail : Emails \cup {NoMail}]]
    /\ taken \in [Emails -> Nat]
    /\ faults \in 0 .. MaxFaults

Init ==
    /\ row = [e \in Emails |-> Row("none", 0, FALSE, FALSE)]
    /\ wanted = [e \in Emails |-> TRUE]
    /\ job = [w \in Workers |-> Idle]
    /\ taken = [e \in Emails |-> 0]
    /\ faults = 0

Fault == faults < MaxFaults /\ faults' = faults + 1

-----------------------------------------------------------------------------
(* The request that queues an email, and what the email is about.           *)

\* A pending row, in the request's own transaction.
Enqueue(e) ==
    /\ row[e].status = "none"
    /\ row' = [row EXCEPT ![e] = Row("pending", 0, FALSE, FALSE)]
    /\ UNCHANGED <<wanted, job, taken, faults>>

\* The registration expires, the account is verified meanwhile, the address changes.
Outdate(e) ==
    /\ wanted[e]
    /\ wanted' = [wanted EXCEPT ![e] = FALSE]
    /\ UNCHANGED <<row, job, taken, faults>>

-----------------------------------------------------------------------------
(* Time.                                                                    *)

Holds(w, e) == job[w].mail = e

BackoffEnds(e) ==
    /\ row[e].status = "pending" /\ row[e].waiting
    /\ row' = [row EXCEPT ![e] = Row(@.status, @.attempts, FALSE, @.expired)]
    /\ UNCHANGED <<wanted, job, taken, faults>>

LockRunsOut(e) ==
    /\ row[e].status = "sending" /\ ~row[e].expired
    /\ SlowSends \/ \A w \in Workers : ~Holds(w, e)
    /\ row' = [row EXCEPT ![e] = Row(@.status, @.attempts, @.waiting, TRUE)]
    /\ UNCHANGED <<wanted, job, taken, faults>>

-----------------------------------------------------------------------------
(* process_due.                                                             *)

PendingOnly(e) == row[e].status = "pending" /\ ~row[e].waiting      \* broken: a dead worker's row stays
Due(e) ==
    \/ row[e].status = "pending" /\ ~row[e].waiting
    \/ row[e].status = "sending" /\ row[e].expired

\* The due rows are read, and the read is over before the first is claimed.
Select(w) ==
    LET due == {e \in Emails : Due(e)} IN
    /\ job[w].at = "idle"
    /\ due # {}
    /\ job' = [job EXCEPT ![w] = [at |-> "next", todo |-> due, mail |-> NoMail]]
    /\ UNCHANGED <<row, wanted, taken, faults>>

AsSelected(e) == TRUE                                \* broken: claimed on what the selection said
StillDue(e) == Due(e)

\* One conditional UPDATE: the row is this worker's if it is still due.
Claim(w, e) ==
    /\ job[w].at = "next" /\ e \in job[w].todo
    /\ IF StillDue(e)
       THEN /\ row' = [row EXCEPT ![e] = Row("sending", @.attempts + 1, @.waiting, FALSE)]
            /\ job' = [job EXCEPT ![w] = [at |-> "send", todo |-> @.todo \ {e}, mail |-> e]]
       ELSE /\ UNCHANGED row
            /\ job' = [job EXCEPT ![w] = [at |-> @.at, todo |-> @.todo \ {e}, mail |-> @.mail]]
    /\ UNCHANGED <<wanted, taken, faults>>

Finish(w) ==
    /\ job[w].at = "next" /\ job[w].todo = {}
    /\ job' = [job EXCEPT ![w] = Idle]
    /\ UNCHANGED <<row, wanted, taken, faults>>

\* The row's new status, and on to the next one.
Settle(w, status, waiting) ==
    /\ row' = [row EXCEPT ![job[w].mail] = Row(status, @.attempts, waiting, FALSE)]
    /\ job' = [job EXCEPT ![w] = [at |-> "next", todo |-> @.todo, mail |-> NoMail]]

\* What it was about is gone: nothing is sent.
Drop(w) ==
    /\ job[w].at = "send" /\ ~wanted[job[w].mail]
    /\ Settle(w, "dead", FALSE)
    /\ UNCHANGED <<wanted, taken, faults>>

Deliver(w, counted, place) ==
    /\ job[w].at = "send" /\ wanted[job[w].mail]
    /\ taken' = [taken EXCEPT ![job[w].mail] = @ + counted]
    /\ job' = [job EXCEPT ![w] = [at |-> place, todo |-> @.todo, mail |-> @.mail]]
    /\ UNCHANGED <<row, wanted>>

ProviderAccepts(w) == Deliver(w, 1, "accepted") /\ UNCHANGED faults
ProviderFails(w)   == Deliver(w, 0, "failed") /\ UNCHANGED faults
AnswerLost(w)      == Deliver(w, 1, "failed") /\ Fault

RecordSent(w) ==
    /\ job[w].at = "accepted"
    /\ Settle(w, "sent", FALSE)
    /\ UNCHANGED <<wanted, taken, faults>>

OneMore(e) == row[e].attempts > MaxAttempts          \* broken: > for >=
GiveUp(e) == row[e].attempts >= MaxAttempts

RecordFailure(w) ==
    /\ job[w].at = "failed"
    /\ IF GiveUp(job[w].mail) THEN Settle(w, "dead", FALSE) ELSE Settle(w, "pending", TRUE)
    /\ UNCHANGED <<wanted, taken, faults>>

\* The process dies, or its database fails: the row stays as it was last committed.
Die(w) ==
    /\ job[w].at # "idle"
    /\ Fault
    /\ job' = [job EXCEPT ![w] = Idle]
    /\ UNCHANGED <<row, wanted, taken>>

Work(w) ==
    \/ Select(w) \/ Finish(w) \/ \E e \in Emails : Claim(w, e)
    \/ Drop(w) \/ ProviderAccepts(w) \/ ProviderFails(w) \/ AnswerLost(w)
    \/ RecordSent(w) \/ RecordFailure(w)

Clock(e) == BackoffEnds(e) \/ LockRunsOut(e)

Next ==
    \/ \E e \in Emails : Enqueue(e) \/ Outdate(e) \/ Clock(e)
    \/ \E w \in Workers : Work(w) \/ Die(w)

Spec == Init /\ [][Next]_vars

\* Every process keeps running its OutboxWorker, and time passes.
FairSpec ==
    /\ Spec
    /\ \A w \in Workers : WF_vars(Work(w))
    /\ \A e \in Emails : WF_vars(Clock(e))

-----------------------------------------------------------------------------
(* Properties.                                                              *)

\* "A row is claimed with a conditional UPDATE, so it is never sent by two at once"
\* (docs/backend/email.md): with deliveries shorter than their lock.
OneSender == \A v, w \in Workers : v # w /\ job[v].mail # NoMail => job[v].mail # job[w].mail

\* An email is taken by the provider a second time only after a worker died or an
\* answer was lost: sending is at least once, but never needlessly twice.
NoNeedlessDuplicate == \A e \in Emails : taken[e] <= 1 + faults

\* Retries are bounded: only a worker that died may cost an attempt beyond MaxAttempts.
AttemptsBounded == \A e \in Emails : row[e].attempts <= MaxAttempts + faults

\* A row that was sent or given up is over: no worker revives it.
OverIsOver == [][\A e \in Emails :
    row[e].status \in {"sent", "dead"} => row'[e].status = row[e].status]_vars

\* Every queued email is sent or given up, whatever dies in between.
EveryEmailEnds == \A e \in Emails :
    row[e].status = "pending" ~> row[e].status \in {"sent", "dead"}
=============================================================================
