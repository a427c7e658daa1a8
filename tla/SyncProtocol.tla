---------------------------- MODULE SyncProtocol ----------------------------
(***************************************************************************)
(* The synchronization of one account: several devices, each with its own  *)
(* database (app/sync/engine.py, store.py, service.py), and the server     *)
(* they push to and pull from (backend/sync.py, mutations.py, api.py).     *)
(*                                                                         *)
(* A device keeps, for every record, its local copy, a dirty mark counting *)
(* the local changes not yet acknowledged, the shadow (the last server     *)
(* state it acknowledged), the outbox of operations it has not had an      *)
(* answer to, and the open conflicts.  The server keeps the records with   *)
(* their versions, the change feed and the recorded outcome of every       *)
(* operation.  The network may lose or delay a request, lose its answer,   *)
(* and a device may stop between any two transactions.                     *)
(*                                                                         *)
(* A record's content is one of Values.  A pulled page holds one change: a *)
(* larger page is a run of these steps that cannot be interrupted.         *)
(***************************************************************************)
EXTENDS Integers, FiniteSets, Sequences

CONSTANTS
    Devices,        \* the devices signed in to the account
    Records,        \* record identities (an entity type and an id)
    Values,         \* what a record may contain
    None,           \* no content
    Derived,        \* occurrences of a series: any device may expand the same slot
    TaskTypes,      \* types of tasks: any device may mint the one of a task
    Executions,     \* records a history reset removes physically
    Rank,           \* position of each record in ENTITY_ORDER
    BatchLimit,     \* operations one push request carries
    MaxPushRounds,  \* push requests of one run (MAX_PUSH_ROUNDS)
    MaxWrites,      \* bound: changes users make, on devices and on the web
    MaxFaults       \* bound: lost requests, refusals, rejections, crashes

ASSUME RecordsAssumption ==
    /\ IsFiniteSet(Records)
    /\ Derived \subseteq Records
    /\ TaskTypes \subseteq Records \ Derived
    /\ Executions \subseteq Records \ (Derived \cup TaskTypes)
    /\ Rank \in [Records -> 1 .. Cardinality(Records)]
    /\ \A q, r \in Records : Rank[q] = Rank[r] => q = r
    /\ None \notin Values
ASSUME LimitAssumption ==
    /\ BatchLimit \in Nat \ {0}
    /\ MaxPushRounds \in Nat \ {0}
    /\ MaxWrites \in Nat
    /\ MaxFaults \in Nat

VARIABLES
    server,     \* the record rows: version, tombstone, content
    log,        \* the change feed, in commit order
    answers,    \* the recorded outcome of every operation id
    requests,   \* operations sent whose request may still reach the server
    local,      \* per device: the local copy of each record
    dirty,      \* per device: sync_dirty.local_rev, 0 without a mark
    shadow,     \* per device: sync_shadows
    outbox,     \* per device: sync_outbox
    conflicts,  \* per device: the open rows of sync_conflicts
    cursor,     \* per device: pull_cursor
    replayed,   \* per device: the feed was started over (budget_history_pulled)
    opSeq,      \* per device: the last op_seq handed out
    phase,      \* per device: where sync_now is
    inflight,   \* per device: the batch whose answer sync_now awaits
    rounds,     \* per device: push rounds done in this run
    more,       \* per device: has_more of the page fetched
    born,       \* the ids ever minted (a random id is never minted twice)
    writes,     \* changes made so far
    faults      \* faults so far

serverVars == <<server, log, answers>>
recordVars == <<local, dirty>>
storeVars  == <<shadow, outbox, conflicts, cursor, replayed, opSeq>>
runVars    == <<phase, inflight, rounds, more>>
vars == <<serverVars, requests, recordVars, storeVars, runVars, born, writes, faults>>

-----------------------------------------------------------------------------
Content == Values \cup {None}

\* A server state of a record; version 0 is no record at all.
State == [ver : Nat, dead : BOOLEAN, val : Content]
Absent == [ver |-> 0, dead |-> FALSE, val |-> None]
Known(s) == s.ver > 0
Live(s)  == s.ver > 0 /\ ~s.dead

\* A local copy: never stored or physically removed, live, or a tombstone.
Copy == [st : {"none", "live", "dead"}, val : Content]
NoCopy == [st |-> "none", val |-> None]
CopyOf(s) == [st |-> IF s.dead THEN "dead" ELSE "live", val |-> s.val]

Kinds == {"create", "update", "delete"}
OpId  == Devices \X Nat
Op == [id : OpId, rec : Records, kind : Kinds, base : Nat,
       dead : BOOLEAN, val : Content, rev : Nat]

\* A recorded outcome; rec, kind and val are the request its request_hash stands for.
Result == [status : {"applied", "conflict", "rejected"},
           rec : Records, kind : Kinds, val : Content, current : State]
Entry == [rec : Records, state : State]
Conflict == [rec : Records, remote : State]
Phases == {"idle", "push", "sent", "history", "pull", "page"}

TypeOK ==
    /\ server \in [Records -> State]
    /\ log \in Seq(Entry)
    /\ DOMAIN answers \subseteq OpId
    /\ \A i \in DOMAIN answers : answers[i] \in Result
    /\ requests \subseteq Op
    /\ local \in [Devices -> [Records -> Copy]]
    /\ dirty \in [Devices -> [Records -> Nat]]
    /\ shadow \in [Devices -> [Records -> State]]
    /\ outbox \in [Devices -> SUBSET Op]
    /\ conflicts \in [Devices -> SUBSET Conflict]
    /\ cursor \in [Devices -> Nat]
    /\ replayed \in [Devices -> BOOLEAN]
    /\ opSeq \in [Devices -> Nat]
    /\ phase \in [Devices -> Phases]
    /\ inflight \in [Devices -> SUBSET Op]
    /\ rounds \in [Devices -> 0 .. MaxPushRounds]
    /\ more \in [Devices -> BOOLEAN]
    /\ born \subseteq Records
    /\ writes \in 0 .. MaxWrites
    /\ faults \in 0 .. MaxFaults

Init ==
    /\ server = [r \in Records |-> Absent]
    /\ log = <<>>
    /\ answers = [i \in {} |-> Absent]
    /\ requests = {}
    /\ local = [d \in Devices |-> [r \in Records |-> NoCopy]]
    /\ dirty = [d \in Devices |-> [r \in Records |-> 0]]
    /\ shadow = [d \in Devices |-> [r \in Records |-> Absent]]
    /\ outbox = [d \in Devices |-> {}]
    /\ conflicts = [d \in Devices |-> {}]
    /\ cursor = [d \in Devices |-> 0]
    /\ replayed = [d \in Devices |-> FALSE]
    /\ opSeq = [d \in Devices |-> 0]
    /\ phase = [d \in Devices |-> "idle"]
    /\ inflight = [d \in Devices |-> {}]
    /\ rounds = [d \in Devices |-> 0]
    /\ more = [d \in Devices |-> FALSE]
    /\ born = {}
    /\ writes = 0
    /\ faults = 0

Write == writes < MaxWrites /\ writes' = writes + 1
Fault == faults < MaxFaults /\ faults' = faults + 1

-----------------------------------------------------------------------------
(* Local changes.  They run at any moment, also while a request of the same *)
(* device is in flight: the capture triggers bump the mark in the           *)
(* transaction of the change.                                               *)

HasOps(d, r) == \E o \in outbox[d] : o.rec = r
HasConflict(d, r) == \E c \in conflicts[d] : c.rec = r
DisputedOnly(d, r) == HasConflict(d, r)               \* broken: unanswered operations forgotten
Waiting(d, r) == HasOps(d, r) \/ HasConflict(d, r)

\* The capture trigger: a first change leaves revision 1, every later one adds 1.
MarkOnce(mark) == IF mark = 0 THEN 1 ELSE mark      \* broken: ON CONFLICT DO NOTHING
Bump(mark) == mark + 1

\* A local write to a row, with the mark its trigger leaves.
WriteLocal(d, r, copy) ==
    /\ local' = [local EXCEPT ![d][r] = copy]
    /\ dirty' = [dirty EXCEPT ![d][r] = Bump(@)]
    /\ UNCHANGED <<serverVars, requests, storeVars, runVars, faults>>

\* An id derived from a slot or a root task comes out the same everywhere; others are random.
Mintable(r) == r \in Derived \cup TaskTypes \/ r \notin born

Create(d, r, v) ==
    /\ Write
    /\ local[d][r].st = "none"
    /\ Mintable(r)
    /\ born' = born \cup {r}
    /\ WriteLocal(d, r, [st |-> "live", val |-> v])

Edit(d, r, v) ==
    /\ Write
    /\ local[d][r].st = "live"
    /\ WriteLocal(d, r, [st |-> "live", val |-> v])
    /\ UNCHANGED born

\* No operation of a device deletes a type.
Delete(d, r) ==
    /\ Write
    /\ local[d][r].st = "live"
    /\ r \notin TaskTypes
    /\ WriteLocal(d, r, [st |-> "dead", val |-> local[d][r].val])
    /\ UNCHANGED born

\* reset_all_history: every execution row of the device goes, tombstones too.
ResetHistory(d) ==
    LET gone == {r \in Executions : local[d][r].st # "none"} IN
    /\ Write
    /\ gone # {}
    /\ local' = [local EXCEPT ![d] = [r \in Records |-> IF r \in gone THEN NoCopy ELSE @[r]]]
    /\ dirty' = [dirty EXCEPT ![d] = [r \in Records |-> IF r \in gone THEN Bump(@[r]) ELSE @[r]]]
    /\ UNCHANGED <<serverVars, requests, storeVars, runVars, born, faults>>

-----------------------------------------------------------------------------
(* A run of sync_now: push rounds, then pages of the feed.  It holds the    *)
(* sync lock from Begin until the phase is "idle" again.                    *)

Begin(d) ==
    /\ phase[d] = "idle"
    /\ phase' = [phase EXCEPT ![d] = "push"]
    /\ UNCHANGED <<serverVars, requests, recordVars, storeVars, inflight, rounds, more, born, writes, faults>>

Purged(d, r)  == dirty[d][r] > 0 /\ local[d][r].st = "none"
Changed(d, r) == dirty[d][r] > 0 /\ local[d][r].st # "none" /\ ~Waiting(d, r)
IsLive(d, r)  == local[d][r].st = "live"

\* An execution whose recorded history the server already has needs no action.
LiveExecution(d, r) == r \in Executions /\ IsLive(d, r)     \* broken: the histories are not compared
NothingToSend(d, r) ==
    r \in Executions /\ IsLive(d, r) /\ local[d][r] = CopyOf(shadow[d][r])

\* What prepare() makes of a dirty record; the cases exclude one another.
ToCreate(d) == {r \in Records :
    Changed(d, r) /\ ~Known(shadow[d][r]) /\ (IsLive(d, r) \/ r \in Derived)}
ToUpdate(d) == {r \in Records :
    Changed(d, r) /\ Live(shadow[d][r]) /\ IsLive(d, r) /\ ~NothingToSend(d, r)}
ToDelete(d) == {r \in Records :
    /\ Live(shadow[d][r])
    /\ \/ Changed(d, r) /\ ~IsLive(d, r)
       \/ Purged(d, r) /\ ~Waiting(d, r)}
ToDispute(d) == {r \in Records :
    Changed(d, r) /\ Known(shadow[d][r]) /\ ~Live(shadow[d][r]) /\ IsLive(d, r)}
ToForget(d) == {r \in Records :
    \/ Purged(d, r) /\ ~Live(shadow[d][r])
    \/ Changed(d, r) /\ ~IsLive(d, r) /\ ~Live(shadow[d][r]) /\ (Known(shadow[d][r]) \/ r \notin Derived)
    \/ Changed(d, r) /\ Live(shadow[d][r]) /\ NothingToSend(d, r)}

\* Upserts go out in ENTITY_ORDER, then deletes in reverse; op_seq keeps that order.
SeqOf(d, r) ==
    LET n == Cardinality(Records) IN
    opSeq[d] + (IF r \in ToDelete(d) THEN 2 * n + 1 - Rank[r] ELSE Rank[r])

NewOp(d, r) ==
    [id   |-> <<d, SeqOf(d, r)>>, rec |-> r,
     kind |-> IF r \in ToDelete(d) THEN "delete" ELSE IF r \in ToCreate(d) THEN "create" ELSE "update",
     base |-> shadow[d][r].ver, dead |-> ~IsLive(d, r), val |-> local[d][r].val, rev |-> dirty[d][r]]

NewOps(d) == {NewOp(d, r) : r \in ToCreate(d) \cup ToUpdate(d) \cup ToDelete(d)}

\* next_batch: the oldest operations, at most BatchLimit of them.
Oldest(ops) == {o \in ops : Cardinality({p \in ops : p.id[2] < o.id[2]}) < BatchLimit}

AlwaysAnother(d) == TRUE                             \* broken: a run that never stops pushing
AnotherRound(d) == rounds[d] < MaxPushRounds

\* prepare() and, with operations to send, the push request.
PushRound(d) ==
    LET ops == outbox[d] \cup NewOps(d)
        batch == Oldest(ops)
    IN
    /\ phase[d] = "push"
    /\ AnotherRound(d)
    /\ outbox' = [outbox EXCEPT ![d] = ops]
    /\ opSeq' = [opSeq EXCEPT ![d] = IF NewOps(d) = {} THEN @ ELSE @ + 2 * Cardinality(Records)]
    /\ dirty' = [dirty EXCEPT ![d] = [r \in Records |-> IF r \in ToForget(d) THEN 0 ELSE @[r]]]
    /\ conflicts' = [conflicts EXCEPT ![d] = @ \cup {[rec |-> r, remote |-> shadow[d][r]] : r \in ToDispute(d)}]
    /\ IF batch = {}
       THEN /\ phase' = [phase EXCEPT ![d] = "history"]
            /\ rounds' = [rounds EXCEPT ![d] = 0]
            /\ UNCHANGED <<inflight, requests>>
       ELSE /\ phase' = [phase EXCEPT ![d] = "sent"]
            /\ inflight' = [inflight EXCEPT ![d] = batch]
            /\ requests' = requests \cup batch
            /\ rounds' = [rounds EXCEPT ![d] = @ + 1]
    /\ UNCHANGED <<serverVars, local, shadow, cursor, replayed, more, born, writes, faults>>

\* MAX_PUSH_ROUNDS requests were sent: the rest of the outbox waits for the next run.
StopPushing(d) ==
    /\ phase[d] = "push"
    /\ ~AnotherRound(d)
    /\ phase' = [phase EXCEPT ![d] = "history"]
    /\ rounds' = [rounds EXCEPT ![d] = 0]
    /\ UNCHANGED <<serverVars, requests, recordVars, storeVars, inflight, more, born, writes, faults>>

Recorded(o) == o.id \in DOMAIN answers

\* clear_dirty(if_rev): the mark goes only if nothing changed locally since rev.
MarkGone(mark, rev) == 0                             \* broken: cleared whatever happened meanwhile
MarkAfter(mark, rev) == IF mark = rev THEN 0 ELSE mark

\* The server's answers to the batch, in one transaction.
Acknowledge(d) ==
    LET applied == {o \in inflight[d] : answers[o.id].status = "applied"}
        failed  == inflight[d] \ applied
        left    == {p \in outbox[d] \ applied : \A o \in failed : p.rec # o.rec}
        AppliedTo(r) == {o \in applied : o.rec = r}
    IN
    /\ phase[d] = "sent"
    /\ \A o \in inflight[d] : Recorded(o)
    /\ shadow' = [shadow EXCEPT ![d] = [r \in Records |->
            IF AppliedTo(r) = {} THEN @[r] ELSE answers[(CHOOSE o \in AppliedTo(r) : TRUE).id].current]]
    /\ outbox' = [outbox EXCEPT ![d] = left]
    /\ dirty' = [dirty EXCEPT ![d] = [r \in Records |->
            IF AppliedTo(r) = {} \/ \E p \in outbox[d] \ applied : p.rec = r THEN @[r]
            ELSE MarkAfter(@[r], (CHOOSE o \in AppliedTo(r) : TRUE).rev)]]
    /\ conflicts' = [conflicts EXCEPT ![d] =
            @ \cup {[rec |-> o.rec, remote |-> answers[o.id].current] : o \in failed}]
    /\ phase' = [phase EXCEPT ![d] = "push"]
    /\ inflight' = [inflight EXCEPT ![d] = {}]
    /\ UNCHANGED <<serverVars, requests, local, cursor, replayed, opSeq, rounds, more, born, writes, faults>>

\* The server refuses a request as a whole; it is narrowed to the operation at fault.
Refuse(d, o) ==
    /\ phase[d] = "sent"
    /\ o \in inflight[d] \cap requests
    /\ ~Recorded(o)
    /\ Fault
    /\ requests' = requests \ {o}
    /\ inflight' = [inflight EXCEPT ![d] = @ \ {o}]
    /\ outbox' = [outbox EXCEPT ![d] = {p \in @ : p.rec # o.rec}]
    /\ conflicts' = [conflicts EXCEPT ![d] = @ \cup {[rec |-> o.rec, remote |-> Absent]}]
    /\ UNCHANGED <<serverVars, recordVars, shadow, cursor, replayed, opSeq, phase, rounds, more, born, writes>>

\* Once per account the feed is started over (pull_budget_history), then pages are asked for.
StartPull(d) ==
    /\ phase[d] = "history"
    /\ phase' = [phase EXCEPT ![d] = "pull"]
    /\ \/ UNCHANGED <<cursor, replayed>>
       \/ /\ ~replayed[d]
          /\ replayed' = [replayed EXCEPT ![d] = TRUE]
          /\ cursor' = [cursor EXCEPT ![d] = 0]
    /\ UNCHANGED <<serverVars, requests, recordVars, shadow, outbox, conflicts, opSeq,
                   inflight, rounds, more, born, writes, faults>>

\* GET /changes?after=cursor; an empty page ends the run.
FetchPage(d) ==
    /\ phase[d] = "pull"
    /\ phase' = [phase EXCEPT ![d] = IF cursor[d] < Len(log) THEN "page" ELSE "idle"]
    /\ more' = [more EXCEPT ![d] = cursor[d] + 1 < Len(log)]
    /\ UNCHANGED <<serverVars, requests, recordVars, storeVars, inflight, rounds, born, writes, faults>>

-----------------------------------------------------------------------------
(* apply_pull_page: the change and the new cursor in one transaction.       *)

Change(d) == log[cursor[d] + 1]
NotOlder(state, known) == TRUE                       \* broken: every entry of a replayed feed is news
Newer(state, known) == state.ver > known.ver
QueuedOnly(d, r) == HasOps(d, r)                     \* broken: changes not yet materialized forgotten
Pending(d, r) == dirty[d][r] > 0 \/ HasOps(d, r)

\* Both devices expanded the same occurrence, with the same content.
Converges(d, r, state) == r \in Derived /\ local[d][r] = CopyOf(state)

FeedEnd(c) == Len(log)                               \* broken: the feed's end, not the page's
NextCursor(c) == c + 1

AdvanceCursor(d) ==
    /\ phase[d] = "page"
    /\ cursor' = [cursor EXCEPT ![d] = NextCursor(@)]
    /\ phase' = [phase EXCEPT ![d] = IF more[d] THEN "pull" ELSE "idle"]
    /\ more' = [more EXCEPT ![d] = FALSE]
    /\ UNCHANGED <<serverVars, requests, replayed, opSeq, inflight, rounds, born, writes, faults>>

ForgetOps(d, r) == outbox' = [outbox EXCEPT ![d] = {o \in @ : o.rec # r}]
PutShadow(d, r, state) == shadow' = [shadow EXCEPT ![d][r] = state]

\* Our own acknowledged change, or an older state.
SkipKnown(d) ==
    LET r == Change(d).rec IN
    /\ AdvanceCursor(d)
    /\ ~Newer(Change(d).state, shadow[d][r])
    /\ UNCHANGED <<recordVars, shadow, outbox, conflicts>>

\* The record has an open conflict: it is resolved against this state.
UpdateConflict(d) ==
    LET r == Change(d).rec IN
    /\ AdvanceCursor(d)
    /\ Newer(Change(d).state, shadow[d][r])
    /\ HasConflict(d, r)
    /\ conflicts' = [conflicts EXCEPT ![d] =
            {c \in @ : c.rec # r} \cup {[rec |-> r, remote |-> Change(d).state]}]
    /\ UNCHANGED <<recordVars, shadow, outbox>>

\* A change to a record without an open conflict, not seen before.
IsNews(d, r) == Newer(Change(d).state, shadow[d][r]) /\ ~HasConflict(d, r)

Converge(d) ==
    LET r == Change(d).rec IN
    /\ AdvanceCursor(d)
    /\ IsNews(d, r)
    /\ local[d][r].st # "none" /\ Pending(d, r) /\ Converges(d, r, Change(d).state)
    /\ PutShadow(d, r, Change(d).state)
    /\ dirty' = [dirty EXCEPT ![d][r] = 0]
    /\ ForgetOps(d, r)
    /\ UNCHANGED <<local, conflicts>>

RaiseConflict(d) ==
    LET r == Change(d).rec IN
    /\ AdvanceCursor(d)
    /\ IsNews(d, r)
    /\ local[d][r].st # "none" /\ Pending(d, r) /\ ~Converges(d, r, Change(d).state)
    /\ conflicts' = [conflicts EXCEPT ![d] = @ \cup {[rec |-> r, remote |-> Change(d).state]}]
    /\ ForgetOps(d, r)
    /\ UNCHANGED <<recordVars, shadow>>

\* A tombstone of a record never seen here: only its shadow is kept.
NoteTombstone(d) ==
    LET r == Change(d).rec IN
    /\ AdvanceCursor(d)
    /\ IsNews(d, r)
    /\ local[d][r].st = "none" /\ Change(d).state.dead /\ r \notin Derived
    /\ PutShadow(d, r, Change(d).state)
    /\ UNCHANGED <<recordVars, outbox, conflicts>>

\* The server's state replaces the local copy; capture is suppressed, so no mark is made.
Adopt(d) ==
    LET r == Change(d).rec
        unseen == local[d][r].st = "none"
    IN
    /\ AdvanceCursor(d)
    /\ IsNews(d, r)
    /\ unseen \/ ~Pending(d, r)
    /\ ~(unseen /\ Change(d).state.dead /\ r \notin Derived)
    /\ local' = [local EXCEPT ![d][r] = CopyOf(Change(d).state)]
    /\ PutShadow(d, r, Change(d).state)
    /\ UNCHANGED <<dirty, outbox, conflicts>>

ApplyPage(d) ==
    \/ SkipKnown(d) \/ UpdateConflict(d) \/ Converge(d)
    \/ RaiseConflict(d) \/ NoteTombstone(d) \/ Adopt(d)

-----------------------------------------------------------------------------
(* The user decides a conflict; the sync lock keeps it out of a run.        *)

KeepAllowed(c) == ~c.remote.dead

KeepLocal(d, c) ==
    /\ phase[d] = "idle"
    /\ c \in conflicts[d]
    /\ KeepAllowed(c)
    /\ shadow' = [shadow EXCEPT ![d][c.rec] = IF Known(c.remote) THEN c.remote ELSE @]
    /\ dirty' = [dirty EXCEPT ![d][c.rec] = Bump(@)]
    /\ ForgetOps(d, c.rec)
    /\ conflicts' = [conflicts EXCEPT ![d] = @ \ {c}]
    /\ UNCHANGED <<serverVars, requests, local, cursor, replayed, opSeq, runVars, born, writes, faults>>

\* The local copy after accepting the server's side: its state, the last state
\* acknowledged when the server sent none, or a discarded record.
Accepted(copy, remote, known) ==
    IF Known(remote) THEN IF copy.st = "none" /\ remote.dead THEN copy ELSE CopyOf(remote)
    ELSE IF Known(known) THEN CopyOf(known)
    ELSE IF copy.st = "live" THEN [st |-> "dead", val |-> copy.val]
    ELSE copy

AcceptRemote(d, c) ==
    LET r == c.rec IN
    /\ phase[d] = "idle"
    /\ c \in conflicts[d]
    /\ local' = [local EXCEPT ![d][r] = Accepted(@, c.remote, shadow[d][r])]
    /\ shadow' = [shadow EXCEPT ![d][r] = IF Known(c.remote) THEN c.remote ELSE @]
    /\ dirty' = [dirty EXCEPT ![d][r] = 0]
    /\ ForgetOps(d, r)
    /\ conflicts' = [conflicts EXCEPT ![d] = @ \ {c}]
    /\ UNCHANGED <<serverVars, requests, cursor, replayed, opSeq, runVars, born, writes, faults>>

-----------------------------------------------------------------------------
(* The network and the device process.                                      *)

LoseRequest(o) ==
    /\ o \in requests
    /\ Fault
    /\ requests' = requests \ {o}
    /\ UNCHANGED <<serverVars, recordVars, storeVars, runVars, born, writes>>

\* The run ends early; operations stay queued under the same ids.
EndRun(d) ==
    /\ phase' = [phase EXCEPT ![d] = "idle"]
    /\ inflight' = [inflight EXCEPT ![d] = {}]
    /\ rounds' = [rounds EXCEPT ![d] = 0]
    /\ more' = [more EXCEPT ![d] = FALSE]
    /\ UNCHANGED <<serverVars, requests, recordVars, storeVars, born, writes>>

\* The answer is lost, the server fails, or the device process is killed and restarted.
Interrupt(d) == phase[d] # "idle" /\ Fault /\ EndRun(d)

\* No answer will come: the request was lost on its way.
TimeOut(d) ==
    /\ phase[d] = "sent"
    /\ \E o \in inflight[d] : ~Recorded(o) /\ o \notin requests
    /\ EndRun(d)
    /\ UNCHANGED faults

-----------------------------------------------------------------------------
(* The server.  Each operation is one transaction under the account's       *)
(* change-log lock: the record, its feed entry and the recorded outcome.    *)

Record(o, status, state) ==
    answers' = [i \in DOMAIN answers \cup {o.id} |-> IF i = o.id
                  THEN [status |-> status, rec |-> o.rec, kind |-> o.kind, val |-> o.val, current |-> state]
                  ELSE answers[i]]

NoRecord(o) == FALSE                                 \* broken: retries are applied again
KnownId(o) == Recorded(o)

\* The preconditions of create, update and delete.
FitsAnyVersion(o, s) == IF o.kind = "create" THEN ~Known(s) ELSE ~s.dead     \* broken: last writer wins
Fits(o, s) == IF o.kind = "create" THEN ~Known(s) ELSE ~s.dead /\ s.ver = o.base

\* A request that is accepted as the record stands: no version, no feed entry.  The
\* create of a live task type is, whatever label it asks for.
ChangesNothing(o, s) ==
    \/ o.kind = "create" /\ o.rec \in Derived /\ Known(s) /\ s.dead = o.dead /\ s.val = o.val
    \/ o.kind = "create" /\ o.rec \in TaskTypes /\ Live(s)
    \/ o.kind = "update" /\ Fits(o, s) /\ s.val = o.val

After(o, s) ==
    [ver |-> s.ver + 1, dead |-> o.dead, val |-> IF o.kind = "delete" THEN s.val ELSE o.val]

Commit(r, state) ==
    /\ server' = [server EXCEPT ![r] = state]
    /\ log' = Append(log, [rec |-> r, state |-> state])

Receive(o) ==
    /\ o \in requests
    /\ requests' = requests \ {o}
    /\ UNCHANGED <<recordVars, storeVars, runVars, born, writes>>

\* A retry: the recorded outcome answers it.
AnswerAgain(o) ==
    /\ Receive(o)
    /\ KnownId(o)
    /\ UNCHANGED <<serverVars, faults>>

ApplyOp(o) ==
    /\ Receive(o)
    /\ ~KnownId(o)
    /\ Fits(o, server[o.rec]) /\ ~ChangesNothing(o, server[o.rec])
    /\ Commit(o.rec, After(o, server[o.rec]))
    /\ Record(o, "applied", After(o, server[o.rec]))
    /\ UNCHANGED faults

AcceptUnchanged(o) ==
    /\ Receive(o)
    /\ ~KnownId(o)
    /\ ChangesNothing(o, server[o.rec])
    /\ Record(o, "applied", server[o.rec])
    /\ UNCHANGED <<server, log, faults>>

ConflictOp(o) ==
    /\ Receive(o)
    /\ ~KnownId(o)
    /\ ~Fits(o, server[o.rec]) /\ ~ChangesNothing(o, server[o.rec])
    /\ Record(o, "conflict", server[o.rec])
    /\ UNCHANGED <<server, log, faults>>

\* The record does not validate against the others (a 4xx other than 409).
RejectOp(o) ==
    /\ Receive(o)
    /\ ~KnownId(o)
    /\ Fault
    /\ Record(o, "rejected", Absent)
    /\ UNCHANGED <<server, log>>

\* Changes made through the REST API (the browser), under the same lock.
WebWrite(r, state) ==
    /\ Write
    /\ Commit(r, state)
    /\ UNCHANGED <<answers, requests, recordVars, storeVars, runVars, faults>>

WebCreate(r, v) ==
    /\ ~Known(server[r])
    /\ Mintable(r)
    /\ born' = born \cup {r}
    /\ WebWrite(r, [ver |-> 1, dead |-> FALSE, val |-> v])

WebUpdate(r, v) ==
    /\ Live(server[r]) /\ server[r].val # v
    /\ WebWrite(r, [ver |-> server[r].ver + 1, dead |-> FALSE, val |-> v])
    /\ UNCHANGED born

WebDelete(r) ==
    /\ Live(server[r])
    /\ WebWrite(r, [ver |-> server[r].ver + 1, dead |-> TRUE, val |-> server[r].val])
    /\ UNCHANGED born

-----------------------------------------------------------------------------
UserStep ==
    \/ \E d \in Devices, r \in Records, v \in Values : Create(d, r, v) \/ Edit(d, r, v)
    \/ \E d \in Devices, r \in Records : Delete(d, r)
    \/ \E d \in Devices : ResetHistory(d)
    \/ \E r \in Records, v \in Values : WebCreate(r, v) \/ WebUpdate(r, v)
    \/ \E r \in Records : WebDelete(r)

SyncStep(d) ==
    \/ Begin(d) \/ PushRound(d) \/ StopPushing(d) \/ Acknowledge(d)
    \/ StartPull(d) \/ FetchPage(d) \/ ApplyPage(d) \/ TimeOut(d)

Resolve(d) == \E c \in conflicts[d] : KeepLocal(d, c) \/ AcceptRemote(d, c)

ServerStep == \E o \in requests :
    AnswerAgain(o) \/ ApplyOp(o) \/ AcceptUnchanged(o) \/ ConflictOp(o) \/ RejectOp(o)

FaultStep ==
    \/ \E o \in requests : LoseRequest(o)
    \/ \E d \in Devices : Interrupt(d) \/ \E o \in inflight[d] : Refuse(d, o)

Next ==
    \/ UserStep
    \/ \E d \in Devices : SyncStep(d) \/ Resolve(d)
    \/ ServerStep
    \/ FaultStep

Spec == Init /\ [][Next]_vars

-----------------------------------------------------------------------------
(* Properties.                                                              *)

\* The copy a device without local changes has of what it acknowledged.
Matches(copy, state) ==
    IF Live(state) THEN copy = CopyOf(state) ELSE copy.st # "live"

\* A task type this device minted, whose create the server answered with the record it
\* had of another: the copy keeps the label it was minted with, and only that one.
KeepsLabel(d, r) == r \in TaskTypes /\ Live(shadow[d][r]) /\ \E i \in DOMAIN answers :
    /\ i[1] = d /\ answers[i].rec = r /\ answers[i].kind = "create"
    /\ answers[i].status = "applied" /\ answers[i].current = shadow[d][r]
    /\ local[d][r] = [st |-> "live", val |-> answers[i].val]

MarkedOrSynced(d, r) ==
    \/ local[d][r].st = "none"
    \/ dirty[d][r] > 0
    \/ HasConflict(d, r)
    \/ Matches(local[d][r], shadow[d][r])
    \/ KeepsLabel(d, r)

\* A local copy that differs from the last state acknowledged carries a mark or an open
\* conflict, or is a task type with the label it was minted with here: no committed
\* change, a rename of that type included, is forgotten (capture triggers, clear_dirty).
UnsyncedIsMarked == \A d \in Devices, r \in Records \ Executions : MarkedOrSynced(d, r)

\* The same of executions, whatever history resets do meanwhile.
ExecutionChangeIsMarked == \A d \in Devices, r \in Executions : MarkedOrSynced(d, r)

\* A record has at most one pending operation and at most one open conflict, and
\* never both (prepare's _waiting, _pull_conflict, _record_failures).
OneChainPerRecord == \A d \in Devices :
    /\ \A o, p \in outbox[d] : o.rec = p.rec => o = p
    /\ \A b, c \in conflicts[d] : b.rec = c.rec => b = c
    /\ \A o \in outbox[d], c \in conflicts[d] : o.rec # c.rec

\* An operation whose local_rev is still the record's revision carries the content
\* the record has now: clearing the mark with it forgets nothing.  (A history reset
\* breaks this for executions: the run of PendingChangeNeverOverwritten shows how.)
OpMatchesLocal == \A d \in Devices : \A o \in outbox[d] :
    o.rec \notin Executions /\ o.rev = dirty[d][o.rec] =>
        /\ o.dead = ~IsLive(d, o.rec)
        /\ o.kind # "delete" => o.val = local[d][o.rec].val

\* Every change behind a device's cursor has reached it: its shadow is as new, or an
\* open conflict holds a state as new (page and cursor in one transaction, replays).
CursorNeverSkips == \A d \in Devices : \A i \in 1 .. cursor[d] :
    LET e == log[i] IN
    \/ e.state.ver <= shadow[d][e.rec].ver
    \/ \E c \in conflicts[d] : c.rec = e.rec /\ e.state.ver <= c.remote.ver

\* A conflict is never about a state the device produced itself: an applied operation
\* whose answer was lost is answered again before the feed is read.
EchoNeverConflicts == \A d \in Devices : \A c \in conflicts[d] : \A i \in DOMAIN answers :
    i[1] = d /\ answers[i].rec = c.rec /\ answers[i].status = "applied" /\ Known(c.remote)
        => answers[i].current.ver < c.remote.ver

\* Only the user, or the user's decision of its conflict, changes the content of a
\* record with a pending local change (apply_pull_page, acknowledge).
PendingWorkKept == [][\A d \in Devices, r \in Records :
    /\ dirty[d][r] > 0 /\ local[d][r].st # "none"
    /\ local'[d][r] # local[d][r]
    => writes' # writes \/ (HasConflict(d, r) /\ ~HasConflict(d, r)')]_vars

\* The outcome recorded for an operation id is final: a retry, however late, gets the
\* same answer.
OutcomeIsFinal == [][\A i \in DOMAIN answers :
    i \in DOMAIN answers' /\ answers'[i] = answers[i]]_vars

\* A push overwrites only a state its device had acknowledged when the server took
\* it, even when the request was delayed or sent twice.
OverwritesOnlyWhatItSaw == [][\A r \in Records :
    server'[r] # server[r] /\ writes' = writes =>
        \E o \in requests : /\ o.rec = r /\ o.id \in DOMAIN answers' \ DOMAIN answers
                            /\ shadow[o.id[1]][r] = server[r]]_vars

\* What a device acknowledged of a record never goes back to an older version.
ShadowNeverRegresses == [][\A d \in Devices, r \in Records :
    shadow'[d][r] # shadow[d][r] => shadow'[d][r].ver > shadow[d][r].ver]_vars

-----------------------------------------------------------------------------
(* The promise of SharedRecords, kept as long as no history is reset.       *)

StatusOf(d, r) == IF HasConflict(d, r) THEN "disputed" ELSE IF Pending(d, r) THEN "pending" ELSE "clean"

\* The creates of task types the server accepted.
MintAnswers == {i \in DOMAIN answers :
    answers[i].rec \in TaskTypes /\ answers[i].kind = "create" /\ answers[i].status = "applied"}

Promise == INSTANCE SharedRecords WITH
    past   <- {log[i] : i \in DOMAIN log},
    copy   <- local,
    base   <- shadow,
    status <- [d \in Devices |-> [r \in Records |-> StatusOf(d, r)]],
    minted <- {[by |-> i[1], rec |-> answers[i].rec, val |-> answers[i].val] : i \in MintAnswers}

\* Every step of the protocol is a step of that specification.
KeepsPromise == Promise!Spec

-----------------------------------------------------------------------------
(* Progress: a signed-in device keeps running sync_now, the server works on *)
(* what reaches it, and users decide their conflicts.                       *)

Fairness ==
    /\ \A d \in Devices : WF_vars(SyncStep(d)) /\ SF_vars(Resolve(d))
    /\ WF_vars(ServerStep)

FairSpec == Spec /\ Fairness

InSync == \A d \in Devices, r \in Records :
    /\ dirty[d][r] = 0 /\ ~Waiting(d, r)
    /\ \/ Matches(local[d][r], server[r])
       \/ KeepsLabel(d, r) /\ shadow[d][r] = server[r]

\* Once users stop writing, every device ends with the server's records; only a task
\* type minted there too may keep its own label, and the device knows the server's.
EventuallyInSync == <>[]InSync

-----------------------------------------------------------------------------
(* What the code's documents say, and the code does not do.                 *)

\* "A change to a record with a pending local change ... is stored as a conflict
\* instead of overwriting local work": also when the change was a history reset.
PendingChangeNeverOverwritten == [][\A d \in Devices, r \in Records :
    dirty[d][r] > 0 /\ local'[d][r] # local[d][r]
    => writes' # writes \/ (HasConflict(d, r) /\ ~HasConflict(d, r)')]_vars

\* An execution the server has and this device physically removed is sent as a delete.
ResetReachesServer == \A d \in Devices, r \in Records :
    local[d][r].st = "none" /\ Live(shadow[d][r]) =>
        dirty[d][r] > 0 \/ HasOps(d, r) \/ HasConflict(d, r)
=============================================================================
