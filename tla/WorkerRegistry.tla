--------------------------- MODULE WorkerRegistry ---------------------------
(***************************************************************************)
(* The background jobs of the desktop application (app/ui/background.py).  *)
(* The Tk thread submits jobs and hands their results to callbacks; a      *)
(* bounded set of worker threads, started on demand, runs them.  Both work *)
(* on the registry under one lock.                                         *)
(*                                                                         *)
(* `serial` puts a job in a lane (every storage write: WRITE_LANE), in     *)
(* which jobs run one at a time; `supersede` names what a read is about: a *)
(* newer one replaces it.  There is one Tk root.  A callback may open a    *)
(* dialog with an event loop of its own.                                   *)
(***************************************************************************)
EXTENDS Integers, FiniteSets, Sequences

CONSTANTS
    Lanes,          \* `serial` keys
    Topics,         \* `supersede` keys
    Kinds,          \* what a job may be: its lane and its topic
    Nothing,        \* no lane, no topic
    MaxWorkers,     \* max_workers
    QueueSizes,     \* what max_queued may be
    MaxJobs,        \* bound: jobs submitted
    MaxDialogs,     \* bound: dialogs open inside one another
    MaxOutside,     \* bound: work registered by begin() at a time
    MaxFaults       \* bound: threads that cannot be started

ASSUME KindsAssumption ==
    /\ Kinds \subseteq [lane : Lanes \cup {Nothing}, topic : Topics \cup {Nothing}]
    /\ Nothing \notin Lanes \cup Topics
ASSUME PoolAssumption ==
    /\ MaxWorkers \in Nat \ {0}
    /\ QueueSizes \subseteq Nat
    /\ MaxJobs \in Nat /\ MaxDialogs \in Nat /\ MaxOutside \in Nat /\ MaxFaults \in Nat

VARIABLES
    pool,       \* the queue, the jobs running, the lanes in use, the threads alive,
                \* and active: jobs waiting or running and outside work
    superseded, \* jobs whose result nobody wants any more
    finished,   \* jobs with a result not yet handed over
    owed,       \* results the root waits for (_undelivered)
    known,      \* the root is registered (_roots)
    polling,    \* its poll is scheduled
    closing,    \* shutdown has begun
    quiet,      \* shutdown reported that everything had finished
    tk,         \* where the Tk thread is
    dialogs,    \* callbacks that wait for their dialog
    outside,    \* work registered by begin()
    faults,     \* threads that could not be started
    maxQueued,  \* max_queued: writes that may wait
    kind,       \* what each job is; no step looks at it before the job is submitted
    submitted,  \* jobs submitted so far: they are numbered in that order
    ended,      \* history: the jobs that ran or were refused
    dropped,    \* history: the reads replaced in the queue, and the results not shown
    shown       \* history: the jobs whose callback was called, in order

threadVars == <<pool, finished, ended, faults>>
tkVars == <<owed, known, polling, tk, dialogs, superseded, maxQueued, kind, submitted, dropped, shown>>
vars == <<threadVars, tkVars, closing, quiet, outside>>

Jobs == 1 .. MaxJobs
Pool == [queue : Seq(Jobs), running : SUBSET Jobs, lanes : SUBSET Lanes, threads : 0 .. MaxWorkers, active : Nat]
Places == {"loop", "poll", "callback", "closing"}

TypeOK ==
    /\ pool \in Pool
    /\ finished \in Seq(Jobs) /\ maxQueued \in QueueSizes /\ kind \in [Jobs -> Kinds] /\ submitted \in 0 .. MaxJobs
    /\ shown \in Seq(Jobs)
    /\ superseded \subseteq Jobs /\ ended \subseteq Jobs /\ dropped \subseteq Jobs
    /\ owed \in Nat
    /\ {known, polling, closing, quiet} \subseteq BOOLEAN
    /\ tk \in Places
    /\ dialogs \in 0 .. MaxDialogs /\ outside \in 0 .. MaxOutside /\ faults \in 0 .. MaxFaults

Init ==
    /\ pool = [queue |-> <<>>, running |-> {}, lanes |-> {}, threads |-> 0, active |-> 0]
    /\ finished = <<>> /\ owed = 0 /\ known = FALSE /\ polling = FALSE
    /\ closing = FALSE /\ quiet = FALSE
    /\ tk = "loop" /\ dialogs = 0 /\ outside = 0 /\ faults = 0
    /\ maxQueued \in QueueSizes /\ kind \in [Jobs -> Kinds]
    /\ submitted = 0 /\ superseded = {} /\ ended = {} /\ dropped = {} /\ shown = <<>>

-----------------------------------------------------------------------------
(* Worker threads.                                                          *)

LaneOf(j)  == kind[j].lane
TopicOf(j) == kind[j].topic
JobsOf(q) == {q[i] : i \in DOMAIN q}
\* The entries of q that are among jobs, in q's order.
Those(q, jobs) ==
    LET upTo[n \in 0 .. Len(q)] ==
            IF n = 0 THEN <<>> ELSE IF q[n] \in jobs THEN Append(upTo[n - 1], q[n]) ELSE upTo[n - 1]
    IN  upTo[Len(q)]
Without(q, gone) == Those(q, JobsOf(q) \ gone)
LanesOf(jobs) == {LaneOf(j) : j \in jobs} \ {Nothing}

\* The jobs _take_runnable would take one after the other: the oldest of each free lane.
Ready(p) == Those(p.queue, {j \in JobsOf(p.queue) :
    \/ LaneOf(j) = Nothing
    \/ /\ LaneOf(j) \notin p.lanes
       /\ \A i, k \in DOMAIN p.queue : p.queue[i] = j /\ k < i => LaneOf(p.queue[k]) # LaneOf(j)})

\* Threads that may still be started.
RoomForOne(p) == MaxWorkers + 1 - p.threads          \* broken: <= for <
Room(p) == MaxWorkers - p.threads

AtBack(job, q) == Append(q, job)                     \* broken: the queue's order is lost
PutBack(job, q) == <<job>> \o q

\* _finish: a result is handed over while the root waits for it.
Finish(jobs, registered) ==
    /\ finished' = IF ~closing /\ registered THEN finished \o jobs ELSE finished
    /\ ended' = ended \cup JobsOf(jobs)

\* _start_threads: `count` threads start; if there is room and work for another, it
\* cannot be started, and its job waits for a running one, or nothing can run any job.
StartThreads(p, done, registered) ==
    LET ready == Ready(p)
        wanted == IF Len(ready) < Room(p) THEN Len(ready) ELSE Room(p)
    IN
    \E count \in 0 .. wanted :
        LET started == JobsOf(SubSeq(ready, 1, count))
            next == [p EXCEPT !.queue = Without(@, started), !.running = @ \cup started,
                              !.lanes = @ \cup LanesOf(started), !.threads = @ + count]
        IN
        \/ /\ count = wanted
           /\ pool' = next
           /\ Finish(done, registered)
           /\ UNCHANGED faults
        \/ /\ count < wanted /\ faults < MaxFaults
           /\ faults' = faults + 1
           /\ LET unlucky == ready[count + 1]
                  waiting == Without(next.queue, {unlucky})
                  lost == <<unlucky>> \o waiting
              IN IF next.threads > 0
                 THEN /\ pool' = [next EXCEPT !.queue = PutBack(unlucky, waiting)]
                      /\ Finish(done, registered)
                 ELSE /\ pool' = [next EXCEPT !.queue = <<>>, !.active = @ - Len(lost)]
                      /\ Finish(done \o lost, registered)

\* _work: the job is done, its thread takes the next one and starts others, or ends.
JobDone(j) ==
    LET rest == [pool EXCEPT !.running = @ \ {j}, !.lanes = @ \ LanesOf({j}), !.active = @ - 1]
        ready == Ready(rest)
    IN
    /\ j \in pool.running
    /\ IF ready = <<>>
       THEN /\ pool' = [rest EXCEPT !.threads = @ - 1]
            /\ Finish(<<j>>, known)
            /\ UNCHANGED faults
       ELSE LET next == {Head(ready)} IN
            StartThreads([rest EXCEPT !.queue = Without(@, next), !.running = @ \cup next,
                                      !.lanes = @ \cup LanesOf(next)], <<j>>, known)
    /\ UNCHANGED <<tkVars, closing, quiet, outside>>

-----------------------------------------------------------------------------
(* The Tk thread: submission.                                               *)

Rivals(jobs, topic) == {j \in jobs : topic # Nothing /\ TopicOf(j) = topic}
OutrunNever(topic) == {}                             \* broken: a running read is not superseded
Outrun(topic) == Rivals(pool.running, topic)
Writes(q) == Those(q, {j \in JobsOf(q) : TopicOf(j) = Nothing})

Uncounted(count, gone) == count                      \* broken: the root waits for results that never come
Fewer(count, gone) == count - Cardinality(gone)

\* A new job; a newer read of its topic replaces those that wait and supersedes those
\* that run.  A job that is none is refused when too many of them wait.
Submit ==
    LET j == submitted + 1
        topic == TopicOf(j)
        replaced == Rivals(JobsOf(pool.queue), topic)
        refused == topic = Nothing /\ Len(Writes(pool.queue)) >= maxQueued
        p == [pool EXCEPT !.queue = Without(@, replaced), !.active = @ - Cardinality(replaced) + 1]
    IN
    /\ tk \in {"loop", "callback"}
    /\ ~closing
    /\ j <= MaxJobs
    /\ submitted' = j
    /\ superseded' = superseded \cup Outrun(topic)
    /\ dropped' = dropped \cup replaced
    /\ known' = TRUE
    /\ owed' = Fewer(owed, replaced) + 1
    /\ IF refused
       THEN /\ pool' = [p EXCEPT !.active = @ - 1]
            /\ Finish(<<j>>, TRUE)
            /\ UNCHANGED faults
       ELSE StartThreads([p EXCEPT !.queue = Append(@, j)], <<>>, TRUE)
    /\ polling' = TRUE
    /\ UNCHANGED <<closing, quiet, outside, tk, dialogs, maxQueued, kind, shown>>

\* begin and end: work that runs outside the pool.
Begin ==
    /\ ~closing /\ outside < MaxOutside
    /\ outside' = outside + 1
    /\ pool' = [pool EXCEPT !.active = @ + 1]
    /\ UNCHANGED <<finished, ended, faults, tkVars, closing, quiet>>

End ==
    /\ outside > 0
    /\ outside' = outside - 1
    /\ pool' = [pool EXCEPT !.active = @ - 1]
    /\ UNCHANGED <<finished, ended, faults, tkVars, closing, quiet>>

-----------------------------------------------------------------------------
(* The Tk thread: the poll and the callbacks.                               *)

\* The timer fires, in the main loop or in a dialog's.
PollFires ==
    /\ tk = "loop" /\ polling
    /\ polling' = FALSE
    /\ tk' = "poll"
    /\ UNCHANGED <<threadVars, owed, known, dialogs, superseded, maxQueued, kind, submitted, dropped, shown,
                   closing, quiet, outside>>

NoPoll(left) == FALSE                                \* broken: the next poll waits for the callback
PollAgain(left) == left > 0

\* Nothing is finished, or nothing is delivered any more: the poll ends.
PollEnds ==
    /\ tk = "poll"
    /\ closing \/ finished = <<>>
    /\ tk' = "loop"
    /\ IF closing
       THEN UNCHANGED <<owed, known, polling>>
       ELSE /\ polling' = (polling \/ PollAgain(owed))
            /\ known' = (owed > 0)
            /\ UNCHANGED owed
    /\ UNCHANGED <<threadVars, dialogs, superseded, maxQueued, kind, submitted, dropped, shown,
                   closing, quiet, outside>>

\* One result: its callback, unless it was superseded, its widget is gone or its
\* still_current guard refuses it.  The next poll is scheduled before.
Deliver ==
    LET j == Head(finished)
        left == owed - 1
    IN
    /\ tk = "poll" /\ ~closing /\ finished # <<>>
    /\ owed' = IF left > 0 THEN left ELSE 0
    /\ known' = (left > 0)
    /\ finished' = IF left > 0 THEN Tail(finished) ELSE <<>>
    /\ polling' = (polling \/ PollAgain(left))
    /\ \/ /\ j \notin superseded
          /\ shown' = Append(shown, j)
          /\ tk' = "callback"
          /\ UNCHANGED dropped
       \/ /\ dropped' = dropped \cup {j}
          /\ tk' \in {"poll", "loop"}
          /\ UNCHANGED shown
    /\ UNCHANGED <<pool, ended, faults, dialogs, superseded, maxQueued, kind, submitted, closing, quiet, outside>>

\* The poll goes on, or its time is up (or the callback raised).
AfterCallback == tk' \in {"poll", "loop"}

CallbackReturns ==
    /\ tk = "callback"
    /\ AfterCallback
    /\ UNCHANGED <<threadVars, owed, known, polling, dialogs, superseded, maxQueued, kind, submitted, dropped, shown,
                   closing, quiet, outside>>

OpenDialog ==
    /\ tk = "callback" /\ dialogs < MaxDialogs
    /\ dialogs' = dialogs + 1
    /\ tk' = "loop"
    /\ UNCHANGED <<threadVars, owed, known, polling, superseded, maxQueued, kind, submitted, dropped, shown,
                   closing, quiet, outside>>

CloseDialog ==
    /\ tk = "loop" /\ dialogs > 0
    /\ dialogs' = dialogs - 1
    /\ AfterCallback
    /\ UNCHANGED <<threadVars, owed, known, polling, superseded, maxQueued, kind, submitted, dropped, shown,
                   closing, quiet, outside>>

-----------------------------------------------------------------------------
(* Shutdown: on the Tk thread, which waits; called again if it timed out.   *)

NothingKept(q) == <<>>                               \* broken: queued writes are discarded too
Kept(q) == Writes(q)

Shutdown ==
    /\ tk = "loop" /\ ~quiet
    /\ closing' = TRUE
    /\ tk' = "closing"
    /\ pool' = [pool EXCEPT !.queue = Kept(@), !.active = @ - (Len(pool.queue) - Len(Kept(pool.queue)))]
    /\ dropped' = dropped \cup (JobsOf(pool.queue) \ JobsOf(Writes(pool.queue)))
    /\ finished' = <<>> /\ owed' = 0 /\ known' = FALSE
    /\ UNCHANGED <<ended, faults, polling, dialogs, superseded, maxQueued, kind, submitted, shown, quiet, outside>>

ShutdownReturns ==
    /\ tk = "closing"
    /\ quiet' \in {pool.active = 0, FALSE}
    /\ tk' = "loop"
    /\ UNCHANGED <<threadVars, owed, known, polling, dialogs, superseded, maxQueued, kind, submitted, dropped, shown,
                   closing, outside>>

-----------------------------------------------------------------------------
Poll == PollFires \/ PollEnds \/ Deliver \/ CallbackReturns

Next ==
    \/ \E j \in Jobs : JobDone(j)
    \/ Submit \/ Begin \/ End
    \/ Poll \/ OpenDialog \/ CloseDialog
    \/ Shutdown \/ ShutdownReturns

Spec == Init /\ [][Next]_vars

\* Jobs end, the event loop turns, and a callback returns or opens a dialog.
FairSpec ==
    /\ Spec
    /\ \A j \in Jobs : WF_vars(JobDone(j))
    /\ WF_vars(Poll)

-----------------------------------------------------------------------------
(* Properties.                                                              *)

\* What shutdown and the poll go by is exact: work not finished, results owed, threads
\* and lanes.  One too many and shutdown waits for ever; one too few and a result is lost.
CountsAgree ==
    /\ pool.active = Len(pool.queue) + Cardinality(pool.running) + outside
    /\ ~closing => owed = Len(pool.queue) + Cardinality(pool.running) + Len(finished)
    /\ pool.threads = Cardinality(pool.running)
    /\ pool.lanes = LanesOf(pool.running)

\* A lane's jobs run one at a time, in the order of their submission, whatever threads
\* could not be started and whatever passed them.
LaneOrder == \A j \in pool.running : LaneOf(j) # Nothing =>
    /\ \A i \in pool.running : LaneOf(i) = LaneOf(j) => i = j
    /\ \A i \in JobsOf(pool.queue) : LaneOf(i) = LaneOf(j) => j < i

\* A job waits only behind running ones, and a result is waited for only with a poll
\* to come: no wake-up is missed.
NobodyForgotten ==
    /\ pool.queue # <<>> => pool.running # {}
    /\ owed > 0 => polling \/ tk = "poll"

\* A page never shows an older result of a topic after a newer one.
OlderNeverAfterNewer == \A m, n \in DOMAIN shown :
    m < n /\ shown[n] < shown[m] => TopicOf(shown[m]) = Nothing \/ TopicOf(shown[m]) # TopicOf(shown[n])

\* Shutdown reports success only when every write it had accepted was run or refused
\* and nothing is running: the database may be closed.
QuietShutdown == quiet =>
    /\ pool.running = {} /\ outside = 0
    /\ \A j \in 1 .. submitted : TopicOf(j) = Nothing => j \in ended

\* Every job gets its callback, unless its result is dropped; a write runs or is refused
\* even if the application is shut down meanwhile.
EveryJobEnds == \A j \in Jobs :
    j <= submitted ~>
        \/ j \in JobsOf(shown) \cup dropped
        \/ closing /\ j \in ended
=============================================================================
