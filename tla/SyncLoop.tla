------------------------------ MODULE SyncLoop ------------------------------
(***************************************************************************)
(* The background loop that synchronizes a desktop (app/sync/service.py,   *)
(* start, _run, _idle, wake, set_activity, stop), the Sync now of a page,  *)
(* and the closing of the application (app/ui/app_services.py, close).     *)
(*                                                                         *)
(* The loop sleeps on one event, _nudge; wake-ups, commits, the window and *)
(* stop set it, each from its own thread, after the flag that says why.    *)
(* A run is what sync_now does as far as the loop can tell: it looks at    *)
(* the pending records until there is nothing to send, pulls, and leaves   *)
(* the number that is still pending.  Somebody is signed in throughout.    *)
(* Time is abstract: a delay that is ahead may pass at any moment.         *)
(***************************************************************************)
EXTENDS Integers, FiniteSets

CONSTANTS
    Records,    \* records of the account
    MaxEdits,   \* bound: commits of the user, and changes of the window
    MaxFaults   \* bound: runs that fail

ASSUME LoopAssumption == IsFiniteSet(Records) /\ MaxEdits \in Nat /\ MaxFaults \in Nat

VARIABLES
    pending,    \* records with a mark or an operation: what pending_count counts
    stuck,      \* those a run leaves pending: in conflict, or held
    unseen,     \* history: those edited since a run last looked at them
    run,        \* the run that holds the sync lock
    failed,     \* consecutive_failures > 0
    left,       \* _pending_seen
    edited,     \* _edited_at: none, less than edit_debounce ago, or longer
    wake, nudge, stop,  \* the three events
    asked,      \* history: wake() was called and no run of the loop has begun since
    activity,   \* _activity
    loop,       \* the thread of the loop, with the variables of _idle
    ui,         \* the UI thread: free, or in wake, set_activity or close
    job,        \* a background job runs Sync now
    stopped,    \* what stop() answered
    closed,     \* the connection is closed
    commits, faults

vars == <<pending, stuck, unseen, run, failed, left, edited, wake, nudge, stop, asked, activity,
          loop, ui, job, stopped, closed, commits, faults>>
records == <<pending, stuck, unseen>>
events == <<wake, nudge, stop, asked>>
closing == <<stopped, closed>>
bounds == <<commits, faults>>

Unknown == -1
NoRun == [by |-> "nobody", at |-> "none"]
Activities == {"focused", "unfocused", "minimized"}

Runs == [by : {"nobody", "loop", "job"}, at : {"none", "prepare", "push", "pull", "finish"}]
LoopStates == [at : {"begin", "lock", "syncing", "plan", "look", "wait", "woken", "check", "count",
                     "leave", "left", "ended"},
               failing : BOOLEAN, replan : BOOLEAN, planned : Activities, deadline : BOOLEAN,
               poll : BOOLEAN, looking : BOOLEAN, edited : {"no", "same", "older"}]
UiStates == {"free", "nudge", "stop wakes", "stop nudges", "joining", "shutting down",
             "waiting", "done"}

TypeOK ==
    /\ stuck \subseteq pending /\ unseen \subseteq pending /\ pending \subseteq Records
    /\ run \in Runs /\ (run.by = "nobody") = (run.at = "none")
    /\ (run.by = "loop") = (loop.at = "syncing") /\ (run.by = "job") = (job = "syncing")
    /\ failed \in BOOLEAN /\ left \in {Unknown} \cup 0 .. Cardinality(Records)
    /\ edited \in {"no", "just now", "settled"}
    /\ wake \in BOOLEAN /\ nudge \in BOOLEAN /\ stop \in BOOLEAN /\ asked \in BOOLEAN
    /\ activity \in Activities /\ loop \in LoopStates /\ ui \in UiStates
    /\ job \in {"none", "lock", "syncing"} /\ stopped \in BOOLEAN /\ closed \in BOOLEAN
    /\ commits \in 0 .. MaxEdits /\ faults \in 0 .. MaxFaults

\* start: the first run waits for the window to be built.
Init ==
    /\ pending \in SUBSET Records /\ stuck = {} /\ unseen = {}
    /\ run = NoRun /\ failed = FALSE /\ left = Unknown /\ edited = "no"
    /\ wake = FALSE /\ nudge = FALSE /\ stop = FALSE /\ asked = FALSE /\ activity = "focused"
    /\ loop = [at |-> "plan", failing |-> FALSE, replan |-> FALSE, planned |-> "focused",
               deadline |-> FALSE, poll |-> FALSE, looking |-> FALSE, edited |-> "no"]
    /\ ui = "free" /\ job = "none" /\ stopped = FALSE /\ closed = FALSE
    /\ commits = 0 /\ faults = 0

At(step) == loop' = [loop EXCEPT !.at = step]

-----------------------------------------------------------------------------
(* Commits.  The listener is called after each, by the thread that commits; *)
(* stop removes it.                                                         *)

Listener(next) ==
    IF stop THEN loop' = next /\ UNCHANGED <<edited, nudge>>
    ELSE /\ edited' = "just now" /\ nudge' = TRUE
         /\ loop' = [next EXCEPT !.edited = IF @ = "same" THEN "older" ELSE @]

\* The user edits a record, or a background job does, even while the application closes.
Edit(r) ==
    /\ commits < MaxEdits /\ ~closed /\ commits' = commits + 1
    /\ pending' = pending \cup {r} /\ unseen' = unseen \cup {r}
    /\ Listener(loop)
    /\ UNCHANGED <<stuck, run, failed, left, wake, stop, asked, activity, ui, job, closing, faults>>

-----------------------------------------------------------------------------
(* A run: sync_now, by the loop or by a job of the account page.            *)

Step(at) == run' = [run EXCEPT !.at = at]

TakeLock ==
    /\ run = NoRun
    /\ \/ loop.at = "lock" /\ run' = [by |-> "loop", at |-> "prepare"] /\ At("syncing") /\ UNCHANGED job
       \/ job = "lock" /\ run' = [by |-> "job", at |-> "prepare"] /\ job' = "syncing" /\ UNCHANGED loop
    /\ UNCHANGED <<records, failed, left, edited, events, activity, ui, closing, bounds>>

\* prepare looks at every pending record and makes a batch of those it can send.
Prepare ==
    /\ run.at = "prepare"
    /\ unseen' = {}
    /\ IF pending \subseteq stuck THEN Step("pull") /\ UNCHANGED <<edited, nudge, loop>>
       ELSE Step("push") /\ Listener(loop)
    /\ UNCHANGED <<pending, stuck, failed, left, wake, stop, asked, activity, ui, job, closing, bounds>>

LeftForgetful(refused) == stuck \cup refused  \* broken: an answer clears the mark of a newer edit
LeftPending(refused) == stuck \cup unseen \cup refused

\* The answers: a record changed meanwhile stays pending, one in conflict is stuck.
Push ==
    /\ run.at = "push"
    /\ \E refused \in SUBSET (pending \ (stuck \cup unseen)) :
        /\ pending' = LeftPending(refused)
        /\ stuck' = stuck \cup refused
    /\ Step("prepare") /\ Listener(loop)
    /\ UNCHANGED <<unseen, failed, left, wake, stop, asked, activity, ui, job, closing, bounds>>

Pull ==
    /\ run.at = "pull"
    /\ failed' = FALSE /\ Step("finish") /\ Listener(loop)
    /\ UNCHANGED <<records, left, wake, stop, asked, activity, ui, job, closing, bounds>>

\* The backend cannot be reached, or refuses: before the first batch, or after it.
Fail ==
    /\ run.at \in {"prepare", "push", "pull"} /\ faults < MaxFaults /\ faults' = faults + 1
    /\ failed' = TRUE /\ Step("finish")
    /\ IF run.at = "push" THEN Listener(loop) ELSE UNCHANGED <<edited, nudge, loop>>
    /\ UNCHANGED <<records, left, wake, stop, asked, activity, ui, job, closing, commits>>

\* _finish: the count that the loop compares with from now on.
Finish ==
    /\ run.at = "finish" /\ run' = NoRun /\ left' = Cardinality(pending)
    /\ IF run.by = "loop" THEN At("plan") /\ UNCHANGED job ELSE job' = "none" /\ UNCHANGED loop
    /\ UNCHANGED <<records, failed, edited, events, activity, ui, closing, bounds>>

SyncNow ==
    /\ ui = "free" /\ job = "none" /\ commits < MaxEdits /\ commits' = commits + 1 /\ job' = "lock"
    /\ UNCHANGED <<records, run, failed, left, edited, events, activity, loop, ui, closing, faults>>

-----------------------------------------------------------------------------
(* The loop: _run and _idle.                                                *)

Begin ==
    /\ loop.at = "begin"
    /\ IF stop THEN At("ended") /\ UNCHANGED <<edited, asked>>
       ELSE At("lock") /\ edited' = "no" /\ asked' = FALSE
    /\ UNCHANGED <<records, run, failed, left, wake, nudge, stop, activity, ui, job, closing, bounds>>

Plan ==
    /\ loop.at = "plan"
    /\ loop' = [loop EXCEPT !.at = "look", !.failing = failed, !.planned = activity,
                            !.deadline = FALSE, !.poll = FALSE]
    /\ UNCHANGED <<records, run, failed, left, edited, events, activity, ui, job, closing, bounds>>

Settled(local) == local = "same" /\ edited = "settled"
Due(looking, local) == loop.deadline \/ (looking /\ loop.poll) \/ Settled(local)

Look ==
    /\ loop.at = "look"
    /\ LET looking == ~loop.failing /\ activity # "minimized"
           local == IF looking /\ edited # "no" THEN "same" ELSE "no"
       IN  loop' = [loop EXCEPT !.looking = looking, !.edited = local,
                    !.at = IF stop THEN "leave" ELSE IF Due(looking, local) THEN "check" ELSE "wait"]
    /\ UNCHANGED <<records, run, failed, left, edited, events, activity, ui, job, closing, bounds>>

\* An edit that is followed by another settles too; its thread may be late to see it.
TimedOut ==
    /\ loop.at = "wait" /\ (Due(loop.looking, loop.edited) \/ loop.edited = "older")
    /\ At("check")
    /\ UNCHANGED <<records, run, failed, left, edited, events, activity, ui, job, closing, bounds>>

Nudged ==
    /\ loop.at = "wait" /\ nudge
    /\ nudge' = FALSE /\ At("woken")
    /\ UNCHANGED <<records, run, failed, left, edited, wake, stop, asked, activity, ui, job, closing, bounds>>

WakesUnlessFailing == wake /\ ~loop.failing  \* broken: a wake-up does not end a backoff
Wakes == wake

\* A change of activity plans the wait anew, from its start.
Woken ==
    /\ loop.at = "woken"
    /\ IF Wakes THEN At("leave")
       ELSE \E passed \in BOOLEAN :
            LET replanned == loop.replan /\ ~loop.failing /\ activity # loop.planned IN
            loop' = [loop EXCEPT !.at = "look",
                                 !.planned = IF replanned THEN activity ELSE @,
                                 !.deadline = IF replanned THEN passed ELSE @]
    /\ UNCHANGED <<records, run, failed, left, edited, events, activity, ui, job, closing, bounds>>

DueUnlessLooking == loop.deadline /\ ~loop.looking  \* broken: only a look ends the wait of an idle loop
AtDeadline == loop.deadline

Check ==
    /\ loop.at = "check"
    /\ \E settled \in IF loop.edited = "older" THEN BOOLEAN ELSE {Settled(loop.edited)} :
        LET looks == settled \/ (loop.poll /\ loop.edited = "no") IN
        /\ loop' = [loop EXCEPT !.at = IF AtDeadline THEN "leave"
                                       ELSE IF loop.looking /\ looks THEN "count" ELSE "look",
                                !.edited = "no", !.poll = @ /\ (AtDeadline \/ ~loop.looking)]
        /\ edited' = IF ~AtDeadline /\ loop.looking /\ settled /\ loop.edited = "same" THEN "no" ELSE edited
    /\ UNCHANGED <<records, run, failed, left, events, activity, ui, job, closing, bounds>>

\* The durable count differs from what the last run left.
Count ==
    /\ loop.at = "count"
    /\ At(IF Cardinality(pending) # left THEN "leave" ELSE "look")
    /\ UNCHANGED <<records, run, failed, left, edited, events, activity, ui, job, closing, bounds>>

Leave ==
    /\ loop.at = "leave" /\ wake' = FALSE /\ At("left")
    /\ UNCHANGED <<records, run, failed, left, edited, nudge, stop, asked, activity, ui, job, closing, bounds>>

Left ==
    /\ loop.at = "left" /\ nudge' = FALSE
    /\ loop' = [loop EXCEPT !.at = "begin", !.replan = TRUE, !.deadline = FALSE, !.poll = FALSE,
                            !.looking = FALSE, !.failing = FALSE, !.planned = "focused", !.edited = "no"]
    /\ UNCHANGED <<records, run, failed, left, edited, wake, stop, asked, activity, ui, job, closing, bounds>>

\* Time passes, where the loop can tell: the wait, the poll, the debounce of an edit.
Expire ==
    /\ ~loop.deadline /\ loop' = [loop EXCEPT !.deadline = TRUE]
    /\ loop.at \in {"look", "wait", "woken", "check", "count"}
    /\ UNCHANGED <<records, run, failed, left, edited, events, activity, ui, job, closing, bounds>>

PollTime ==
    /\ ~loop.poll /\ loop' = [loop EXCEPT !.poll = TRUE]
    /\ loop.at = "wait"
    /\ UNCHANGED <<records, run, failed, left, edited, events, activity, ui, job, closing, bounds>>

Settle ==
    /\ edited = "just now" /\ edited' = "settled" /\ loop.at \in {"look", "wait"}
    /\ UNCHANGED <<records, run, failed, left, events, activity, loop, ui, job, closing, bounds>>

-----------------------------------------------------------------------------
(* The UI thread.                                                           *)

Wake ==
    /\ ui = "free" /\ commits < MaxEdits /\ commits' = commits + 1
    /\ wake' = TRUE /\ asked' = TRUE /\ ui' = "nudge"
    /\ UNCHANGED <<records, run, failed, left, edited, nudge, stop, activity, loop, job, closing, faults>>

\* Gaining focus syncs at once when the last success is too long ago.
SetActivity(a) ==
    /\ ui = "free" /\ commits < MaxEdits /\ commits' = commits + 1
    /\ a # activity /\ activity' = a /\ ui' = "nudge"
    /\ \E stale \in BOOLEAN :
        IF a = "focused" /\ stale THEN wake' = TRUE /\ asked' = TRUE ELSE UNCHANGED <<wake, asked>>
    /\ UNCHANGED <<records, run, failed, left, edited, nudge, stop, loop, job, closing, faults>>

SetNudge ==
    /\ ui \in {"nudge", "stop nudges"} /\ nudge' = TRUE
    /\ ui' = IF ui = "nudge" THEN "free" ELSE "joining"
    /\ UNCHANGED <<records, run, failed, left, edited, wake, stop, asked, activity, loop, job, closing, bounds>>

\* close calls stop, and again each time it could not finish.
Stop ==
    /\ ui \in {"free", "waiting"} /\ stop' = TRUE /\ ui' = "stop wakes"
    /\ UNCHANGED <<records, run, failed, left, edited, wake, nudge, asked, activity, loop, job, closing, bounds>>

StopWakes ==
    /\ ui = "stop wakes" /\ wake' = TRUE /\ ui' = "stop nudges"
    /\ UNCHANGED <<records, run, failed, left, edited, nudge, stop, asked, activity, loop, job, closing, bounds>>

JoinedInTime == TRUE  \* broken: a join that timed out counts as stopped
Joined == loop.at = "ended"

\* The join ends with the thread, or with its timeout.
Join ==
    /\ ui = "joining" /\ stopped' = Joined /\ ui' = "shutting down"
    /\ UNCHANGED <<records, run, failed, left, edited, events, activity, loop, job, closed, bounds>>

\* The registry of the jobs shuts down, in time or not; only then the connection is closed.
Close ==
    /\ ui = "shutting down"
    /\ IF job = "none" /\ stopped THEN closed' = TRUE /\ ui' = "done" ELSE ui' = "waiting" /\ UNCHANGED closed
    /\ UNCHANGED <<records, run, failed, left, edited, events, activity, loop, job, stopped, bounds>>

-----------------------------------------------------------------------------
LoopStep == Begin \/ Plan \/ Look \/ TimedOut \/ Nudged \/ Woken \/ Check \/ Count \/ Leave \/ Left
RunStep == TakeLock \/ Prepare \/ Push \/ Pull \/ Finish
UiStep == SetNudge \/ StopWakes \/ Join \/ Close

Next ==
    \/ LoopStep \/ RunStep \/ Fail \/ UiStep
    \/ Expire \/ PollTime \/ Settle
    \/ \E r \in Records : Edit(r)
    \/ SyncNow \/ Wake \/ Stop
    \/ \E a \in Activities : SetActivity(a)

Spec == Init /\ [][Next]_vars

\* Threads that can go on do, a wait that is not ended otherwise ends with its time, and a
\* close that could not finish is tried again.
FairSpec ==
    /\ Spec /\ WF_vars(LoopStep) /\ WF_vars(RunStep) /\ WF_vars(UiStep) /\ WF_vars(Expire)
    /\ WF_vars(ui = "waiting" /\ Stop)

-----------------------------------------------------------------------------
(* Properties.                                                              *)

\* The loop never sleeps through a wake-up that asked for a run, or through stop: whatever
\* it cleared meanwhile, the nudge is set or about to be (wake, stop, _idle).
NoWakeLost ==
    loop.at = "wait" /\ (asked \/ stop) => nudge \/ ui \in {"nudge", "stop wakes", "stop nudges"}

\* The connection is closed only when the loop has ended and no job is syncing (close, stop).
ClosedLast == closed => loop.at = "ended" /\ job = "none" /\ run = NoRun

\* Every edit is looked at by a run sooner or later, whatever the run it falls into, the window
\* and failures do; if the application closes first, then it does close.
EveryEditIsTried == \A r \in Records : r \in unseen ~> r \notin unseen \/ closed

\* While runs succeed and the window shows, the loop does not wait out its interval over an
\* edit that no run has looked at: a look at the count is to come that finds it changed
\* (app/sync/service.py:66, _idle).
EditsArePrompt ==
    loop.at = "wait" /\ loop.looking /\ run = NoRun /\ job = "none" /\ ~stop /\ unseen # {} =>
        edited # "no" \/ nudge \/ Cardinality(pending) # left
=============================================================================
