# Schedule Maxing: a TLA+ model of its concurrent core

Schedule Maxing is a planner: a desktop application (Tk, SQLite) that works
offline, and an optional server (FastAPI, PostgreSQL or SQLite) that keeps an
account's records for its devices and the browser. This directory holds TLA+
models of the parts in which order, failure and concurrency decide whether user
data survives, the TLC runs that check them on small instances, and theorems
that TLAPS proves for every instance.

    tlc -workers 2 -config SyncDevice.cfg MCSync      # a run (PROJECT.json lists them)
    tlapm SyncFeedProofs.tla                          # the proofs of one module

`PROJECT.json` lists components, runs, hazards, findings and theorems, and maps
every definition to the source lines it models. With every property it names a
plausible bug of the code, written as an operator marked `broken:` in the
module, that TLC catches with that property.

## 1. The system

| Component | State | Operations | What is hard |
| --- | --- | --- | --- |
| **Sync client**, `app/sync` engine, store, service, mapping | per device: records, `sync_dirty` marks, `sync_shadows`, `sync_outbox`, `sync_conflicts`, pull cursor | capture triggers, `prepare`, `next_batch`, `acknowledge`, `refuse`, `apply_pull_page`, `resolve` | edits while a request is in flight, lost answers, replays, two devices |
| **Sync server**, `backend` sync, mutations, api, snapshots | records with versions and tombstones, `change_log`, recorded outcome of every operation id | `push`, REST create/update/delete, `GET /changes` | retries, stale preconditions, commit order of the feed |
| **Sync loop**, `SyncService._run/_idle/stop` | wait deadlines, wake and nudge events | debounce, poll, backoff, activity, stop | lost wake-ups |
| **Sessions**, `native_sessions`, `browser_sessions`, `SyncService._renew`, vault | credential families, epochs; token pair on the device | rotate, revoke, renew, restore | a lost rotation answer, two renewals, crash before the vault is written |
| **Accounts**, registration, verification, recovery, MFA | one-time tokens, epochs, codes | mint, confirm, reset | single use under concurrency |
| **Mail outbox**, `backend/outbox.py`, `mail.py` | `email_outbox` rows | enqueue, claim, deliver, retry, give up | several workers, death between delivery and commit, locks that run out |
| **Background jobs**, `app/ui/background.py` | queue, lanes, threads, results owed, polls | submit, run, deliver, shutdown | failed thread starts, superseded reads, nested event loops |
| **Execution lifecycle**, `app/execution`, `backend/executions`, `outcomes` | executions, work sessions, versions | start ... reopen, reschedule | long legal sequences, two replicas |
| **Planning**, `app/planning`, `backend/planning_api` | tasks, placements, generations, series | generate, move, split a series | lineage, occurrences minted twice |
| **Optimizer**, `optimizer`, `reward`, `allocation`, `recurrence` | none | pure functions | boundaries |
| **Local database**, `app/execution/db.py`, backups, instance lock | schema, transactions | migrate, back up | crash between steps |
| **Budget, productivity, update, web, direct persistence, UI** | records or none | views and calculations over the above | little concurrency of their own |

The desktop's pages submit jobs to the registry; jobs call services; services
write records in transactions, in which triggers mark them dirty. The sync loop
pushes what is marked and pulls the server's feed, on a thread of its own, over
the same SQLite connection; a transaction is never open during a request. On the
server every mutation of an account, from any device or from the browser, takes the
account's change-log lock. Requests queue emails in their own transaction; worker
threads of every server process send them.

What makes each modelled component correct:

- **Synchronization.** No committed change is forgotten. No change overwrites what its
  author had not seen. An operation is applied at most once. A device misses no change of
  the feed. Devices and server end alike.
- **Mail outbox.** Never two senders; duplicates only after a fault; bounded attempts;
  every email ends.
- **Background jobs.** One write at a time, in order; no older result after a newer one; no
  lost wake-up; shutdown closes the database only when nothing uses it.
- **Sync loop.** It never sleeps through a wake-up or `stop`; every edit is tried; the
  connection is closed after the loop has ended.
- **Sessions.** A family never has two credentials that can be exchanged; the device does not
  get itself taken for a thief; signing out stands, whatever was under way.
- **Execution lifecycle.** Status and work sessions agree; what the device sends rebuilds its
  history on the server; recorded work survives conflicts; settled copies agree.

## 2. The modules

| Module | What it is |
| --- | --- |
| `SyncProtocol` | devices, network and server of one account, at the grain of the code's transactions |
| `SharedRecords` | what synchronization promises, in terms of clean, pending and disputed copies; `SyncProtocol` implements it |
| `MCSync` | constants for TLC |
| `SyncProtocolProofs` | types, final outcomes, one chain per record; no change is forgotten; operations carry the copy |
| `SyncFeedProofs` | the feed and its cursor, echoes, bases, pending work; the refinement of `SharedRecords` |
| `MailOutbox`, `MCMail`, `MailOutboxProofs` | the email queue and its workers |
| `WorkerRegistry`, `MCWorkers`, `WorkerRegistryProofs` | background jobs, delivery and shutdown |
| `SyncLoop`, `MCLoop` | the background loop, its wake-ups, and the closing of the application |
| `SyncLoopProofs` | no wake-up is slept through; the connection is closed last |
| `NativeSessions`, `MCSessions` | refresh credentials on the server, session and vault on the device |
| `NativeSessionsProofs` | types; a live family has one credential |
| `SessionDecisionProofs` | signing out stands; no false alarm; the vault keeps what can be exchanged |
| `ExecutionLifecycle`, `MCLifecycle` | the attempts of one placement on the device and the server |
| `ExecutionLifecycleProofs` | types; statuses fit the sessions; no work is lost; settled copies agree; a push rebuilds the history |

`SyncLoop` sees a synchronization as the stages it goes through; `SyncProtocol` says what they
do; `NativeSessions` says what happens when one of their requests is answered "401"; and
`ExecutionLifecycle` what the server makes of the operations of one record.

### SyncProtocol and the code

| Model | Code |
| --- | --- |
| `local`, `dirty` | the record's row, and `sync_dirty.local_rev` (0: no row) |
| `shadow`, `outbox`, `conflicts`, `cursor` | `sync_shadows`, `sync_outbox`, open `sync_conflicts`, `pull_cursor` |
| `opSeq` | `op_seq`: the order operations are sent in; with the device it stands for the random `op_id` |
| `phase`, `inflight`, `rounds`, `more` | where `sync_now` is, the batch it awaits, its rounds, `has_more` |
| `server`, `log`, `answers` | record rows, change feed, `sync_operations` |
| `requests` | operations sent whose request may still arrive |
| `Create`, `Edit`, `Delete`, `ResetHistory` | any service's write with its capture trigger |
| `PushRound`, `Acknowledge`, `Refuse` | `prepare` and `next_batch`; `acknowledge`; `_push` narrowed to one unit, and `refuse` |
| `StartPull`, `FetchPage`, `ApplyPage` | `pull_budget_history`; `GET /changes`; `apply_pull_page`, a disjunct per branch of `_apply_change` |
| `KeepLocal`, `AcceptRemote` | `resolve` |
| `AnswerAgain`, `ApplyOp`, `AcceptUnchanged`, `ConflictOp`, `RejectOp` | the outcomes of `_push_unit` |
| `WebCreate`, `WebUpdate`, `WebDelete` | the REST routes |
| `LoseRequest`, `Interrupt`, `TimeOut` | lost requests; lost answers, failed requests and killed processes; giving up |

Choices worth knowing:

- *Content* is one of two values. `Derived` records are the occurrences of a series, whose ids
  derive from the slot they fill, and `TaskTypes` the types of tasks, whose ids derive from the
  root task: two devices may mint the same one. Any other id is a fresh uuid, which `born`
  enforces. `Executions` are the records a history reset removes physically.
- *Task types* are a class of their own because the code treats them so. A type's label is
  the present name of its task, so two devices may mint one type with different labels. The server
  accepts the create of a live type whatever its label, and answers with the record it has
  (`ChangesNothing`); the acknowledgement takes that record into the shadow and clears the
  mark, and the device keeps its own label until the type changes again. `docs/history/productivity-redesign-plan.md`
  names this among its limits, and the properties name it as `KeepsLabel`. A type never converges and is
  never created as a tombstone, both of which only occurrences do; no device deletes a type.
- *An answer needs no message.* The recorded outcome of an operation is immutable
  (`OutcomesAreFinal`, proved), so a device waiting for an answer reads it there. A lost
  answer is `Interrupt`. A request stays in `requests` until it is processed or lost, so a
  retry may overtake it and both may arrive.
- *A page holds one change.* Larger pages only forbid interleavings. A page and the cursor
  behind it are one transaction in the code and one step here (`AdvanceCursor`); so are a
  change, its feed position and its outcome, for the account's change-log lock is held until the
  commit. Crashes and reorderings inside these are excluded by construction: no property
  speaks of them.
- *Limits of one* (`BatchLimit`, `MaxPushRounds`) make the code's limits (100 operations, 50
  rounds) reachable: runs that stop pushing with a full outbox, and pull over it.
- *A tombstone of an unknown occurrence* is stored here always; the code stores it if it
  has the series.
- The case in which a live local record has a tombstone as its shadow and no conflict
  (`ToDispute`) is modelled; no run reaches it.

Abstracted or left to later modules: atomic groups (series changes, reschedules, several
actions of one execution), cascading deletes, scope collisions, feature gates (`held`),
owners and association, `reset_task_data`, the separate record kept for diverged work
sessions, `MAX_PULL_PAGES`, blocked operations (`block_ops`: only reached when a request
fails outside `_push`), authentication failures (an `Interrupt` to the protocol).

### MailOutbox and the code

A `Worker` is one call of `process_due`, by the loop of an `OutboxWorker` or after a
response; its steps are the code's transactions: read the due ids, claim one by a
conditional `UPDATE`, compose and deliver, record. Composing and delivering are one step.
Time is abstract: a back-off ends, a lock runs out. With `SlowSends` a lock may run out under
a living sender. `Die` is the process or its database failing between two commits.
The limit of 25 rows per call, deduplication keys, the webhook and the removal of rows after
90 days are not modelled.

### WorkerRegistry and the code

The registry's lock makes each method one step. `StartThreads` is the loop of
`_start_threads`: it starts the first `count` runnable jobs, and if it stops before the pool
is full, the next thread could not be started. `Deliver` is one turn of the loop in `_poll`;
a widget that is gone, or a `still_current` guard that refuses, is a free choice to drop the
result. While a dialog is open the Tk thread is back in an event loop, and the callback
that opened it is counted in `dialogs`. `kind` fixes in the initial state what each job will
be, so a state graph covers every mix and order. Shutdown may be called again after a
timeout, as `AppServices.close` is. `begin` and `end` are modelled as outside work,
though only tests call them. `maxQueued`, the registry's `max_queued`, is any of `QueueSizes` in
the initial state. Several roots, destroyed roots and a failing
`root.after` are not modelled: the application has one root for its whole life.

### SyncLoop and the code

| Model | Code |
| --- | --- |
| `loop` | the thread of `_run`, with the locals of `_idle` (`failing`, `replan`, `planned_for`, whether `deadline` and `next_look` have come, `looking`, `edited_at` against `_edited_at`) |
| `wake`, `nudge`, `stop`, `edited`, `left`, `failed`, `activity` | `_wake`, `_nudge`, `_stop`, `_edited_at`, `_pending_seen`, `consecutive_failures > 0`, `_activity` |
| `run` | the holder of the sync lock and its stage in `sync_now` |
| `pending`, `stuck`, `unseen` | what `pending_count` counts; of those, conflicts; and those no `prepare` has seen |
| `Edit` and every step of a run that commits | the commit listener `_local_commit` runs after each commit, on the committing thread |
| `Begin` ... `Left` | `_run` and `_idle`, a step per access to a shared flag |
| `Wake`/`SetNudge`, `SetActivity`, `Stop`/`StopWakes`/`SetNudge`/`Join` | `wake`, `set_activity`, `stop`: a step per event they set |
| `Close` | `AppServices.close`: it closes the connection or returns to be called again |

A delay that is ahead may pass at any moment (`Expire`, `PollTime`, `Settle`). A run may send
any number of batches: `MAX_PUSH_ROUNDS` is left to `SyncProtocol`. Somebody is signed in
throughout, and `_pending_now`'s cache is left out, since it is keyed by the data version and
thus exact. `start` after a `stop` that timed out does not occur: the application that called
`close` is closing.

### NativeSessions and the code

A *pair* is what a login or a refresh issues; it stands for the access token and for the
refresh credential. `family` is `native_sessions`, named by the first pair of each; `pair` is
`refresh_credentials` and whether the access token is still fresh; `epoch` is
`users.credential_epoch`. Any thread may synchronize (the loop, "Sync now" and others do), make another
call of the account, or restore the kept session. On the device `memory` is `_token`, `_refresh_token`,
`_replaced_token` and `_keep`, `vault` the credential in the system's vault. `job[t]` is where
a thread is in `sync_now`, `_authorized`, `_renew` or `restore_session`, and `syncs` says that it runs
`sync_now`: it has read its token ("called") before it gets the sync lock (`TakeLock`), and
reads it anew when it starts over ("again"), so a renewal may come between. From `BeginRenew` or
`BeginRestore` until it leaves `Renewing` it holds the renew lock. The state lock is held within a
step. `restore_session` comes before any token is read, so a thread restores when it is idle. `Exchange` is the request and its answer; `Unreachable` the answer that is lost after the
server rotated ("got") or the request before ("sent"). `Restart` ends the process between any
two steps. A login is two steps, since the password is checked before the session is
started and a reset may fall between. Tokens expire, and grace periods end, at any moment.

Not modelled: browser sessions, the lifetime of a credential that is never used, several accounts
or servers on one device, failures of the vault, and a request that was given up and reaches the
server later.

### ExecutionLifecycle and the code

`local`, `server` and `shadow` hold executions as records of a status, work sessions, the final
end, a rating, whether they belong to the placement, a tombstone and a version. The
transition table (`Sources`, `Target`, `ReopenTarget`, `OutcomeActions`) is
`app/execution/lifecycle.py`, which server and device share; `Act`, `SetOutcome`, `Rate`,
`Delete` are `ExecutionService`; `Applied`, `WebActs` and the rest of the server are
`backend/mutations.py` and `outcomes.py`. `Changes` is `execution_changes`: the actions
that turn the acknowledged aggregate into the device's, or "diverged". `Push`, `Pull`, `Refuse`,
`KeepLocal` and `AcceptRemote` are the branches of `prepare`, `_materialize`, `_apply_change`,
`_record_failures`, `resolve` that are peculiar to executions; an exchange is one step, since
lost and repeated messages are in `SyncProtocol`.

A rating the server already has would change nothing there, version included; `Applied` leaves the
case out, since `Changes`, like `execution_changes`, sends a rating only if it differs from the acknowledged one.

Time is the count of user actions: no two fall in the same second, and clocks agree.
Not modelled: several placements, planning links, `reset_all_history` (in
`SyncProtocol`), cancellation reasons, metrics, fixed blocks.

## 3. The runs

| Run | Instance | Shows |
| --- | --- | --- |
| `sync_device` | 1 device, the web; an execution, an occurrence and a task type; 3 writes, 1 fault | all invariants and action properties of the protocol |
| `sync_devices` | 2 devices, the web; one task type; 2 writes, 1 fault; fairness | the protocol implements `SharedRecords`; both devices end in sync, or know the server's label and keep their own |
| `sync_reset_lost` | 1 device, one execution | *violated*: a reset whose delete is never sent |
| `sync_reset_overwritten` | 1 device, the web, one execution | *violated*: a reset undone by a pull |
| `mail_outbox` | 2 workers, 2 emails, 2 attempts, 2 faults; fairness | one sender, bounded duplicates, every email ends |
| `mail_slow` | the same, deliveries may outlast their lock | *violated*: two senders |
| `workers` | 3 jobs of every kind and order, 2 threads, queue of 1 or 2, 1 dialog, 1 outside task, 2 failed starts; fairness | counts, lanes, wake-ups, order of results, shutdown, every job ends |
| `loop` | 1 record, 2 user actions, 1 failed run; fairness | no wake-up slept through, every edit tried, connection closed last |
| `loop_prompt` | the same without failures | *violated*: an edit that waits out the interval |
| `sessions` | 2 threads that each synchronize or make another call, 3 pairs, 1 fault, 1 reset of the password | one live credential, no false alarm, vault unspent, signing out stands |
| `lifecycle` | 3 executions, 4 user actions, 1 of them on the web, 1 refusal | statuses, rebuilt histories, kept work, agreement |
| `lifecycle_work` | the same with 2 user actions | *violated*: work deleted by accepting the server |

**Why the bounds suffice.** A hazard of the sync protocol needs a change in flight, a second
change that meets it, and one more that follows either: three writes. One fault loses a
request or an answer, or refuses an operation; repeated faults repeat the same retry, since a
run that ends early starts from the same stored state. Three records are one of each class the
code tells apart; they show that a chain of one record does not disturb the other, and that a round may
leave one of them behind. Two values
tell "the same" from "different"; contents are only compared, so they are
interchangeable (symmetry, in runs without liveness). Two further
instances were also checked: two executions with four writes, and `sync_devices` with an occurrence
instead of the task type. For mail, two workers and two
rows let a worker hold one row while the other it selected changes hands; two attempts have a
first, a last and, after a death, one too many. For the registry, three jobs give a job that
runs, one that waits and one that passes or replaces it, or a write put back after a failed start
with another behind it; with a queue of one the third write is refused; two threads, a thread that is free and one that is not. For the loop, two
user actions let one fall between any two steps of the wait that the other began, and
one failure has a backoff; with two records its invariants were also checked without liveness. For
sessions, three pairs are a login, its renewal and one more of either, or a second login while the first
is renewed; one fault loses each kind of answer or stops the device; two faults were also checked (six million states). For the lifecycle, four actions reach "start,
pause, complete, reopen" and every conflict with one action on the web; the third execution is the separate history that
accepting the server keeps.

**Writes and faults are bounded**, so the systems may stop: the mail, registry, loop, session
and lifecycle runs switch off deadlock checking (all rows over, all jobs done, the connection
closed, no user action left). In the sync runs a device
can always begin another run, so deadlock is checked.

**Fairness.** `SyncProtocol!FairSpec`: the sync loop of a device runs for ever
(`WF(SyncStep)`), a server answers what reaches it (`WF(ServerStep)`), users decide conflicts
(`SF(Resolve)`: strong, since `resolve_conflict` waits for the sync lock, which is free
again and again but not continuously). Users are under no obligation to write, and faults
none to happen. `MailOutbox!FairSpec`: worker loops run (`WF(Work(w))`), time passes
(`WF(Clock(e))`). `WorkerRegistry!FairSpec`: jobs end (`WF(JobDone(j))`: a job's `work` is a
service call with its own timeouts), the event loop turns (`WF(Poll)`); dialogs need not be
closed and shutdown need not be called. `SyncLoop!FairSpec`: threads that can go on do
(`WF` of the loop's, the run's and the UI thread's steps), a wait ends with its time
(`WF(Expire)`), and a close that could not finish is tried again, as the window's handler does
(`WF(ui = "waiting" /\ Stop)`); failures, edits, focus and `Settle` are under no obligation.

### What the violations say

1. **A reset can be lost.** `prepare` finds an execution removed and no shadow of it, and
   clears its mark, although its create has been sent and not answered. The answer then
   writes the shadow; no delete follows, and the execution lives on, on the server and on
   other devices. `docs/architecture/sync-protocol.md` promises a delete.
2. **A reset can be undone.** A removed execution has no local row, so a newer server state
   is stored over the pending removal instead of raising the conflict that
   `engine.py` promises for "a record with a pending local change".
3. **Two workers can send one email.** A claim lasts 120 seconds and is not extended; one
   network operation of a delivery may be configured to take as long, and a delivery has
   several.

4. **Accepting the server can delete work.** The device and the browser both start the same
   planned task. The device's create is refused because the placement has an execution, and
   the refusal names no server record; accepting the server's side then discards the
   device's attempt without keeping its sessions, although `engine.py` promises that work only
   this device recorded is kept as a separate execution. `WorkKept` holds of all other cases.
5. **An edit can wait out the interval.** A run counts what it leaves pending after its pull. An
   edit committed after its last `prepare` is in that count, so the debounced look finds no
   difference, and the edit is uploaded with the next interval (a minute; five when the window is
   in the background) instead of "within seconds". It is still uploaded: `EveryEditIsTried`.

Met while modelling, without a run of their own:

- Device and web pause the same session at different times: the device sees a conflict, and after
  `keep_local` sends nothing, since `execution_changes` compares the starts of sessions; the
  copies keep different ends (`SettledAgrees` compares starts).
- `keep_local` is offered when the server's attempt is cancelled and the local one completed;
  the server refuses what is sent, and the same conflict comes back.
- A device whose clock is ahead within the accepted skew completes an attempt; reopened on the web
  before that time, it is refused as coming before the last session.
- An attempt that is reopened, resumed and completed within one second looks unchanged.
- `_renew` and `restore_session` write the credential they obtained to the vault even if the
  user signed out meanwhile: "after a sign-out the credential is gone" does not hold of the vault,
  although the session is not given back (`NoLateSession`). A restoring that fails
  clears the vault, also of a credential a concurrent sign-in has just stored.

The properties of section 4 are stated so that these, and the label of a task type that was
minted twice, are their only exceptions: `PendingWorkKept` speaks of rows that exist,
`UnsyncedIsMarked` and `OpMatchesLocal` of records that are not executions
(`ExecutionChangeIsMarked` says what is left for those), and the promise of `SharedRecords` is checked
without executions. `UnsyncedIsMarked`, the promise and `EventuallyInSync` let a copy differ from what was
acknowledged, with neither mark nor conflict, only if `KeepsLabel`: the type was created on this device, the
server answered that create with the state in the shadow, and the copy has the very label that was sent
(in the promise: `minted` has it). A later rename is marked and sent like any change.

`NoFalseAlarm` and `KeptIsUnspent` speak of the time before the first lost answer or stop: the loss of a
rotation's answer does cost the device its session, by design.

## 4. What is proved

All theorems hold for every value of the constants that satisfies the modules' `ASSUME`s
(distinct positions in `ENTITY_ORDER`; occurrences, task types and executions are different records; positive
limits).

**`SyncProtocolProofs`.** `TypeCorrect`: the type invariant is inductive as it stands.
`OutcomesAreFinal`: every action either leaves `answers` alone or adds an id that is not in
it. `ChainsAreSingle`: `OneChainPerRecord` becomes inductive with two facts about requests in
flight (`OneChain`): the batch is part of the outbox, and nothing is in flight outside "sent".

`NoChangeForgotten` is the central one of that module. A mark is cleared when an
operation is answered, so the invariant must say what a *not yet answered* operation says:

- `IdsFresh`: ids of operations and recorded answers are positions already handed
  out, and two operations with one id are the same operation;
- `AnswersMatch`: an outcome "applied" recorded under an operation's id is the state that
  operation asks for or, of the create of a task type, a live state (`Carries`); the outcome keeps
  what was asked for, which is the label the device keeps;
- `Marked`: an operation's revision is never ahead of the mark; if it equals the mark's, the
  operation carries the record's present content, dead or alive; a record that is not
  stored has no mark, operation or conflict; and `MarkedOrSynced` itself.

Then an answer either clears a mark whose revision it has, and the shadow it writes is the
present copy, or the server's record of a type that keeps its label; or it leaves the mark. `OpsCarryTheCopy` is a part of the same invariant.

**`SyncFeedProofs`.** What a device knows of the server. The proofs go by what one step does to one
record of one device (`RecordStep`, and `NextRecords`: every step is one of a few kinds for
every record), so each invariant is proved once per kind and not once per action. The invariant is
the earlier one with:

- `FeedOrder` and `Seen`: the feed is the history of the records, and whatever shadows, conflicts and
  recorded outcomes say of a record is a state of that history;
- `SentInv`: an operation whose request was sent is answered before the feed is read, also after a
  run that was cut short, because the next run sends the same, oldest, operations;
- `BasesInv` and `KnownInv`: operations, their outcomes and open conflicts compared with the shadow.
  They are why the two facts above are needed: an outcome is never older than the shadow, and
  a pulled state is newer than every change of its own the device has not yet heard of;
- `BornInv`, `LiveInv` and `ExecInv`: where copies exist, and what an operation says of an
  execution's copy when a history reset may have removed and the feed restored it.

From it follow `BasesNeverRegress`, `EchoesAreKnown`, `ExecutionsAreMarked`, `PushesSawWhatTheyReplace` (a
version met by a base version is the very state acknowledged: two states of the history with one
version are equal) and, with the order of pages, `NothingIsSkipped`. `PendingWorkIsKept` needs only the
types. `PromiseKept` is the refinement of `SharedRecords`: initial states map to initial states, and
each kind of record step maps to a step of the promise or leaves what it speaks of alone. It
assumes `Executions = {}`, for a history reset does break the promise (section 3); records of
every other kind are covered. What the promise calls `minted` are the accepted creates of task types
(`MintAnswers`). That a type keeps the label of such a create and no other, and only over a live state, comes from
`AnswersMatch`; that no change of the device was accepted before it, from `LiveInv`.

**`MailOutboxProofs`**, assuming `~SlowSends`. `Locks`: a held row is "sending" with a lock
that has not run out, so no conditional `UPDATE` of another worker matches it. `Accounts`:
what the provider took and how many attempts were made is covered by the row's state, its
holder, and the faults so far. From these follow `NeverSentByTwo`, `DuplicatesAreFaults`, `AttemptsArePaidFor`,
`OverStaysOver` and `TypeCorrect`. With `SlowSends` the run `mail_slow` shows that they do not hold.

**`NativeSessionsProofs`.** `TypeCorrect` and `NeverForks` share one invariant: a family is named
by the pair of its login (`Named`), so a login begins a family that no pair belongs to yet; the
device holds only issued pairs (`Held`), so what is exchanged belongs to a family; a refresh spends
the only unspent credential and puts one in its place (`RotateKeeps`); and every other step only
ends families (`FamiliesOnlyEnd`).

**`SessionDecisionProofs`.** `SignOutStands` is the hardest: a thread decides by comparing what it
read before its request with what it finds after it, so the invariant says that what it
compares with has not come back. `OneAtATime`: one thread holds the renew lock. `Private`: what it
obtained is in nobody's hands. `RestoredFirst`: while a session can still be restored no token is in memory and
every thread is idle or restoring, so nobody is about to use a session that a restoring replaces. `LateRenewal`: the token it renews is neither in memory
nor about to be put there by a sign-in, since a sign-in brings a new one. `LateRestoring`: it finds the
account signed out or another session's token, which no other thread can drop: to drop a token
one must have failed to renew it, and wait for the lock first.

`NeverAlarmed` and `VaultIsGood` speak of the time before the first lost answer or stop, so their
invariant is `faults = 0 => Careful`: a spent credential is held only by the thread that spent it, and
where that thread is about to replace it, in memory while the token it renews is still there
(`MemoryUnspent`), and in the vault until it has saved the new one (`VaultUnspent`). Nobody else
holds what a sign-in is about to establish (`EntryNew`) or a thread has obtained (`Obtained`), and
the vault has memory's credential only if memory is the kind that is kept (`KeepVault`).

**`SyncLoopProofs`.** `NeverSleepsThrough`: from the beginning of a run until the loop takes the nudge,
a request is in the flag (`Flagged`) and in the nudge, or its sender is about to set the
nudge (`Coming`); it is essential that senders set the flag first and the loop clears the nudge first.
`ClosesLast`: what `stop` answered is that the thread has ended, and it stays so (`Closing`).

**`WorkerRegistryProofs`.** `RegistryInv` has one part per thing that can go wrong. `PoolOK` and `PoolInv`: the
counts, the lanes, and that an entry of the queue is not waiting for a thread that is not there; `OwedInv`: a
result that is owed has a poll, and a root, to deliver it; `ClosedInv`: nothing is delivered after
shutdown; `NumberedInv`: a write that was accepted is queued, running or ended; `FreshInv`: whatever
is behind a newer read of its topic is not queued, and is marked superseded if it runs or has
finished, which is what `ResultsStayInOrder` needs of a delivery. A thread takes, runs and puts back several jobs
in one step of the model (`StartThreads`), and the queue is a sequence whose parts are taken: what `Those`
selects (its order, its entries, its length) is proved by the least counterexample over the
length of the queue (`PicksExist` and after), without an induction theorem.

**`ExecutionLifecycleProofs`.** The operators first. `AppliedAll`, `DoneAll`, `Work` and `Extra` are recursive
functions, over a group of operations or the sessions of an attempt; what they return is again proved by the least
counterexample over the length (`LeastNumber`). An attempt is `Sound` if its sessions are in order and its status, its
final end and its sessions tell the same story; every local action keeps it so (`OutcomeSound`), as does every group the
server takes (`AppliedAllSound`). `PushFacts` is the one that joins the two sides: changes computed from the
acknowledged state, replayed on it and not refused, give the device's status and its starts of sessions. The
invariant (`IInv`) then says:

- `Records`: every record, also the remembered ones, is sound and lies in the past;
- `Ahead`: the shadow and the server state of a conflict are former states of the server's record, and *equal* to
  it if the versions are. It is why a push that meets its base version may be computed from the shadow, and half of
  `SettledAgrees`; `Copied`, that a clean copy shows what its shadow shows, is the other half;
- `Known`, `Asked`, `Placed`: which ids exist where, what an open question is about, and that one attempt in
  play holds the placement on either side. A pull that collides can then only be with an attempt the server
  does not know, and accepting the server's side removes no other;
- `Gone`: no work that counts is in an attempt deleted on the server, so taking a tombstone over loses nothing;
- `Once`: two states of an attempt with the same final end have the same starts of sessions and as many of them, so an
  attempt that looks finished by the same action has no work to keep and none to send. It rests on no two actions
  falling in the same second (section 2).

`PushesReproduce` needs more than `PushFacts`: the sessions themselves, with their ends, and that the server refuses
nothing. `Piece` is the session the server should have at each position once the first n sessions of the device have been
gone through; `Along` says that the operations made of those n sessions are taken and leave just these. Going
on to the next session (`AlongMore`) is nothing if the server has it already, an end, a beginning, or a beginning and an
end, `Halfway` being the state between the two. `TakesAction` says exactly when an action is refused: by the status or by a
time before an earlier session. What can be in the way is an attempt that is finished in the acknowledged state, and that
`execution_changes` therefore does not reopen: `Once` is why the device then has no more sessions than the server
(`NotReopenedSame`), and the reason `Once` counts them.

`NoWorkLost` has the exceptions `WorkKept` states: a user's deletion, and an attempt given up to a refusal that named no
server state, for which `lifecycle_work` shows that work is lost.

**Only model-checked:** liveness (`EventuallyInSync`, `EveryEmailEnds`, `EveryJobEnds`, `EveryEditIsTried`), which is out
of the prover's reach.

## 5. Not modelled, and what would come next

In order of what it would add:

1. `SyncProtocol` with atomic groups (`group_failed`, `series_changed`, reschedules) and with
   `reset_task_data` on both sides: a second owner of marks and cursor.
2. Account tokens (verification, recovery, MFA codes): single use under concurrent requests; the
   reset of the password is in `NativeSessions` as far as sessions go.
3. `Recurrence` and `Allocation`: rule expansion, series splits and interval arithmetic as
   functions, compared with reference definitions over all small inputs; planning, catch-up
   and the optimizer rest on them. They are sequential and covered by many example tests, so they
   come after what runs concurrently.
4. The delivery webhooks of the mail outbox.

Not planned: schema migrations, statistics, pages and controllers, packaging, configuration, the
local web application and direct persistence (views of the same services), update downloads.
They are sequential, or their difficulty is not in their order of steps. They are also most of
the repository's lines, so the models cover a small share of the text and, of its threads,
messages, locks and crashes, most.
