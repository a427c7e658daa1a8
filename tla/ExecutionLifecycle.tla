------------------------- MODULE ExecutionLifecycle -------------------------
(***************************************************************************)
(* The executions of one placement: the attempts to do a planned task, with *)
(* their work sessions (app/execution), on one device and on the server    *)
(* (backend/mutations.py), and how the device's attempts reach the server: *)
(* not as a record but as the lifecycle actions that rebuild them there    *)
(* (app/sync/mapping.py execution_changes), or, when the server's state and *)
(* the device's cannot both stand, through a conflict the user resolves    *)
(* (app/sync/engine.py).                                                   *)
(*                                                                         *)
(* Time is the count of user actions: no two of them, on the device or on  *)
(* the web, fall in the same second, and the clocks agree.  An exchange    *)
(* with the server is one step here: lost, repeated and crossing messages  *)
(* are the business of SyncProtocol.                                       *)
(***************************************************************************)
EXTENDS Integers, Sequences, FiniteSets

CONSTANTS
    UserActions, \* what the users of an instance do, of the seven actions
    Outcomes,   \* and of the outcomes they set
    MaxIds,     \* bound: executions ever created
    MaxTime,    \* bound: user actions
    MaxWeb,     \* bound: those of them on the web
    MaxFaults   \* bound: requests the server refuses as a whole

ASSUME LifecycleAssumption ==
    /\ UserActions \subseteq {"start", "pause", "resume", "complete", "skip", "cancel", "reopen"}
    /\ Outcomes \subseteq {"pending", "completed", "skipped"}
    /\ MaxIds \in Nat \ {0} /\ MaxTime \in Nat \ {0} /\ MaxWeb \in Nat /\ MaxFaults \in Nat

VARIABLES
    now,        \* user actions so far
    web,        \* those of them on the web
    minted,     \* ids given out so far
    local,      \* executions and work_sessions of the device
    server,     \* executions and work_sessions of the server
    shadow,     \* sync_shadows: the server state the device last acknowledged
    dirty,      \* sync_dirty
    conflict,   \* sync_conflicts, the open ones
    work,       \* instants at which the user began a session on the device, and whose attempt the user did not delete
    renounced,  \* those of them in attempts given up to a refusal that named no server state
    faults      \* faults so far

vars == <<now, web, minted, local, server, shadow, dirty, conflict, work, renounced, faults>>
user == <<now, web, minted, work, renounced, faults>>    \* what an exchange with the server leaves alone
sync == <<shadow, dirty, conflict>>

Ids == 1 .. MaxIds
Open == 0                                           \* ended_at of a running session
Unset == 0                                          \* actual_final_end_at, and a rating, not given
Pending == {"scheduled", "in_progress", "paused"}
Finished == {"completed", "skipped", "cancelled"}

Absent == [status |-> "absent", sessions |-> <<>>, final |-> Unset, rating |-> Unset,
           placed |-> FALSE, deleted |-> FALSE, version |-> 0]
Fresh == [Absent EXCEPT !.status = "scheduled", !.placed = TRUE, !.version = 1]
Exists(x) == x.status # "absent"
Live(x) == Exists(x) /\ ~x.deleted
NoConflict == [open |-> FALSE, remote |-> Absent, about |-> 0]

Instants == 0 .. MaxTime
Session == [from : 1 .. MaxTime, to : Instants]
Execution == [status : Pending \cup Finished \cup {"absent"}, sessions : Seq(Session), final : Instants,
              rating : 0 .. 1, placed : BOOLEAN, deleted : BOOLEAN, version : Nat]

TypeOK ==
    /\ now \in Instants /\ web \in 0 .. MaxWeb /\ minted \in 0 .. MaxIds /\ faults \in 0 .. MaxFaults
    /\ local \in [Ids -> Execution] /\ server \in [Ids -> Execution] /\ shadow \in [Ids -> Execution]
    /\ dirty \subseteq Ids
    /\ conflict \in [Ids -> [open : BOOLEAN, remote : Execution, about : 0 .. MaxIds]]
    /\ work \subseteq Instants /\ renounced \subseteq work

Init ==
    /\ now = 0 /\ web = 0 /\ minted = 0 /\ faults = 0
    /\ local = [e \in Ids |-> Absent]
    /\ server = [e \in Ids |-> Absent]
    /\ shadow = [e \in Ids |-> Absent]
    /\ dirty = {}
    /\ conflict = [e \in Ids |-> NoConflict]
    /\ work = {} /\ renounced = {}

Tick == now < MaxTime /\ now' = now + 1 /\ UNCHANGED web
WebTick == now < MaxTime /\ now' = now + 1 /\ web < MaxWeb /\ web' = web + 1
Begun(x) == {x.sessions[i].from : i \in DOMAIN x.sessions}
Worked(x) == IF Live(x) THEN Begun(x) ELSE {}

-----------------------------------------------------------------------------
(* The lifecycle, the same table for the device and the server.             *)

\* TRANSITIONS: from which statuses an action may be taken, and where it lands.
Sources(act) ==
    CASE act = "start" -> {"scheduled"}
      [] act = "pause" -> {"in_progress"}
      [] act = "resume" -> {"paused"}
      [] act = "reopen" -> {"completed", "skipped"}
      [] OTHER -> Pending

Target(act) ==
    CASE act \in {"start", "resume"} -> "in_progress"
      [] act = "pause" -> "paused"
      [] act = "complete" -> "completed"
      [] act = "skip" -> "skipped"
      [] act = "cancel" -> "cancelled"
      [] OTHER -> "scheduled"

ReopenAfresh(worked) == "scheduled"     \* broken: recorded work is forgotten by the status
ReopenTarget(worked) == IF worked THEN "paused" ELSE "scheduled"

Verb(status) ==
    CASE status = "completed" -> "complete" [] status = "skipped" -> "skip" [] OTHER -> "cancel"

\* The actions that bring an attempt to an outcome; none when it is there.
OutcomeActions(status, outcome) ==
    LET reopened == IF status \in Pending THEN <<>> ELSE <<"reopen">>
    IN  CASE outcome = "pending" -> reopened
          [] outcome = "completed" -> IF status = "completed" THEN <<>> ELSE Append(reopened, "complete")
          [] OTHER -> IF status \in {"skipped", "cancelled"} THEN <<>> ELSE Append(reopened, "skip")

Ended(sessions, at) ==
    [i \in DOMAIN sessions |-> IF sessions[i].to = Open THEN [sessions[i] EXCEPT !.to = at] ELSE sessions[i]]

-----------------------------------------------------------------------------
(* The server.                                                              *)

\* An action is refused after its status, or when it comes before the last recorded session.
ActionRefused(x, act, at) ==
    \/ x.status \notin Sources(act)
    \/ \E i \in DOMAIN x.sessions :
          at < (IF x.sessions[i].to = Open THEN x.sessions[i].from ELSE x.sessions[i].to)

ActionApplied(x, act, at) ==
    [x EXCEPT
        !.status = IF act = "reopen" THEN ReopenTarget(x.sessions # <<>>) ELSE Target(act),
        !.sessions = IF act \in {"start", "resume"} THEN Append(@, [from |-> at, to |-> Open])
                     ELSE Ended(@, at),
        !.final = IF act \in {"complete", "skip", "cancel"} THEN at
                  ELSE IF act = "reopen" THEN Unset ELSE @,
        !.version = @ + 1]

\* One operation of a group: a base version that is not the record's, or any refusal, fails the group.
\* A rating that is already the record's would change nothing, version included; Changes sends none.
Op(kind, at, base) == [kind |-> kind, at |-> at, base |-> base]
Refused == [Absent EXCEPT !.version = -1]
Applied(x, op) ==
    IF x = Refused \/ x.deleted \/ x.version # op.base THEN Refused
    ELSE IF op.kind = "feedback" THEN [x EXCEPT !.rating = op.at, !.version = @ + 1]
    ELSE IF ActionRefused(x, op.kind, op.at) THEN Refused
    ELSE ActionApplied(x, op.kind, op.at)
AppliedAll(x, ops) ==
    LET after[n \in 0 .. Len(ops)] == IF n = 0 THEN x ELSE Applied(after[n - 1], ops[n])
    IN  after[Len(ops)]
\* Operations whose base versions count up from that of a state the author knows.
Numbered(changes, version) ==
    [i \in DOMAIN changes |-> Op(changes[i].kind, changes[i].at, version + i - 1)]

\* What a new execution must be (ExecutionCreate).
Acceptable(x) ==
    LET n == Len(x.sessions) IN
    /\ \A i \in 1 .. n : x.sessions[i].to # Open => x.sessions[i].from <= x.sessions[i].to
    /\ \A i \in 1 .. n - 1 : x.sessions[i].to # Open /\ x.sessions[i].to <= x.sessions[i + 1].from
    /\ (n > 0 /\ x.sessions[n].to = Open) <=> (x.status = "in_progress")
    /\ x.status = "scheduled" => n = 0

\* A placement has one execution for ever, tombstones included.
PlacementTaken == \E e \in Ids : Exists(server[e]) /\ server[e].placed

-----------------------------------------------------------------------------
(* The user on the device: ExecutionService.  Every action is one           *)
(* transaction, marked in sync_dirty by the triggers.                       *)

Opened(x, at) == [x EXCEPT !.status = "in_progress", !.sessions = Append(@, [from |-> at, to |-> Open])]
Closed(x, status, at) == [x EXCEPT !.status = status, !.sessions = Ended(@, at)]

Done(x, act, at) ==
    CASE act = "start" -> Opened(x, at)
      [] act = "pause" -> Closed(x, "paused", at)
      [] act = "resume" -> Opened(x, at)
      [] act = "complete" -> [Closed(x, "completed", at) EXCEPT !.final = at]
      [] act = "skip" -> [Closed(x, "skipped", at) EXCEPT !.final = at]
      [] act = "cancel" -> [Closed(x, "cancelled", at) EXCEPT !.final = at]
      [] OTHER -> [x EXCEPT !.status = ReopenTarget(x.sessions # <<>>), !.final = Unset]

\* Several actions at one time, each on what the one before it left.
DoneAll(x, acts, at) ==
    LET after[n \in 0 .. Len(acts)] == IF n = 0 THEN x ELSE Done(after[n - 1], acts[n], at)
    IN  after[Len(acts)]

Wrote(e, x) == local' = [local EXCEPT ![e] = x] /\ dirty' = dirty \cup {e}

\* get_or_create: the placement's live execution, an error if it was deleted, else a new one.
Create ==
    /\ minted < MaxIds /\ \A e \in Ids : ~local[e].placed
    /\ minted' = minted + 1 /\ Wrote(minted + 1, Fresh)
    /\ UNCHANGED <<now, web, server, shadow, conflict, work, renounced, faults>>

Act(e, act) ==
    /\ Tick /\ Live(local[e]) /\ local[e].status \in Sources(act)
    /\ Wrote(e, Done(local[e], act, now'))
    /\ work' = IF act \in {"start", "resume"} THEN work \cup {now'} ELSE work
    /\ UNCHANGED <<minted, server, shadow, conflict, renounced, faults>>

\* set_outcome: all its actions in one transaction, at one time.
SetOutcome(e, outcome) ==
    LET acts == OutcomeActions(local[e].status, outcome) IN
    /\ Tick /\ Live(local[e]) /\ local[e].status # "cancelled" /\ acts # <<>>
    /\ Wrote(e, DoneAll(local[e], acts, now'))
    /\ UNCHANGED <<minted, server, shadow, conflict, work, renounced, faults>>

Rate(e) ==
    /\ Tick /\ Live(local[e]) /\ local[e].rating = Unset
    /\ Wrote(e, [local[e] EXCEPT !.rating = 1])
    /\ UNCHANGED <<minted, server, shadow, conflict, work, renounced, faults>>

Delete(e) ==
    /\ Tick /\ Live(local[e])
    /\ Wrote(e, [local[e] EXCEPT !.deleted = TRUE])
    /\ work' = work \ Begun(local[e]) /\ renounced' = renounced \ Begun(local[e])
    /\ UNCHANGED <<minted, server, shadow, conflict, faults>>

-----------------------------------------------------------------------------
(* The user on the web: the same handlers of the server, at the time of the *)
(* request.                                                                 *)

WebCreate ==
    /\ minted < MaxIds /\ ~PlacementTaken
    /\ minted' = minted + 1
    /\ server' = [server EXCEPT ![minted + 1] = Fresh]
    /\ UNCHANGED <<now, web, local, shadow, dirty, conflict, work, renounced, faults>>

\* One action, or the actions of an outcome in one mutation.
WebActs(e, acts) ==
    LET changes == [i \in DOMAIN acts |-> [kind |-> acts[i], at |-> now']]
        x == AppliedAll(server[e], Numbered(changes, server[e].version))
    IN
    /\ WebTick /\ Live(server[e]) /\ acts # <<>> /\ x # Refused
    /\ server' = [server EXCEPT ![e] = x]
    /\ UNCHANGED <<minted, local, shadow, dirty, conflict, work, renounced, faults>>

WebRate(e) ==
    /\ WebTick /\ Live(server[e]) /\ server[e].rating = Unset
    /\ server' = [server EXCEPT ![e].rating = 1, ![e].version = @ + 1]
    /\ UNCHANGED <<minted, local, shadow, dirty, conflict, work, renounced, faults>>

WebDelete(e) ==
    /\ WebTick /\ Live(server[e])
    /\ server' = [server EXCEPT ![e].deleted = TRUE, ![e].version = @ + 1]
    /\ work' = work \ Begun(server[e]) /\ renounced' = renounced \ Begun(server[e])
    /\ UNCHANGED <<minted, local, shadow, dirty, conflict, faults>>

-----------------------------------------------------------------------------
(* The actions that turn the server's aggregate into the device's.          *)

ReopenedPlainly(remote, mine) == mine.status \notin Finished \/ mine.status # remote.status   \* broken: finished again is not looked for

\* Whether the device reopened an attempt the server has as finished.
ReopenedHere(remote, mine) ==
    \/ mine.status \notin Finished
    \/ mine.status # remote.status
    \/ remote.final # Unset /\ mine.final # Unset /\ mine.final # remote.final

Base(remote, mine) ==
    IF remote.status \in Sources("reopen") /\ ReopenedHere(remote, mine)
    THEN ReopenTarget(remote.sessions # <<>>) ELSE remote.status

\* The last session's end ends the attempt if it is the time it was finished.
Close(mine, i) ==
    LET ends == /\ i = Len(mine.sessions) /\ mine.status \in Finished
                /\ mine.final \in {Unset, mine.sessions[i].to}
    IN  <<[kind |-> IF ends THEN Verb(mine.status) ELSE "pause", at |-> mine.sessions[i].to]>>

SessionActions(remote, mine, i) ==
    LET begin == [kind |-> IF i = 1 /\ Base(remote, mine) = "scheduled" THEN "start" ELSE "resume",
                  at |-> mine.sessions[i].from]
        ended == mine.sessions[i].to # Open
    IN  IF i > Len(remote.sessions) THEN <<begin>> \o IF ended THEN Close(mine, i) ELSE <<>>
        ELSE IF remote.sessions[i].to = Open /\ ended THEN Close(mine, i) ELSE <<>>

Work(remote, mine) ==
    LET upTo[n \in 0 .. Len(mine.sessions)] ==
            IF n = 0 THEN <<>> ELSE upTo[n - 1] \o SessionActions(remote, mine, n)
    IN  upTo[Len(mine.sessions)]

\* The status the server is in after those.
StatusAfter(remote, mine) ==
    LET acts == Work(remote, mine) IN
    IF acts = <<>> THEN Base(remote, mine) ELSE Target(acts[Len(acts)].kind)

DivergedByCount(remote, mine) ==        \* broken: the sessions' starts are not compared
    \/ Len(mine.sessions) < Len(remote.sessions)
    \/ mine.status \notin Finished /\ StatusAfter(remote, mine) # mine.status

Diverged(remote, mine) ==
    \/ Len(mine.sessions) < Len(remote.sessions)
    \/ \E i \in DOMAIN remote.sessions :
          i \in DOMAIN mine.sessions /\ remote.sessions[i].from # mine.sessions[i].from
    \/ mine.status \notin Finished /\ StatusAfter(remote, mine) # mine.status

Changes(remote, mine) ==
    (IF Base(remote, mine) # remote.status THEN <<[kind |-> "reopen", at |-> now]>> ELSE <<>>)
        \o Work(remote, mine)
        \o (IF mine.status \in Finished /\ StatusAfter(remote, mine) # mine.status
            THEN <<[kind |-> Verb(mine.status), at |-> mine.final]>> ELSE <<>>)
        \o (IF mine.rating \notin {Unset, remote.rating}
            THEN <<[kind |-> "feedback", at |-> mine.rating]>> ELSE <<>>)

\* Their base versions count up from the acknowledged one.
Group(e) == Numbered(Changes(shadow[e], local[e]), shadow[e].version)

-----------------------------------------------------------------------------
(* Pushing a dirty execution, to its answer.                                *)

\* A conflict about the record e, with the local record `about`; the device waits for the user.
Conflict(e, remote, about) ==
    /\ conflict' = [conflict EXCEPT ![e] = [open |-> TRUE, remote |-> remote, about |-> about]]
    /\ UNCHANGED <<local, server, shadow, dirty>>

Clean(e) == dirty' = dirty \ {e} /\ UNCHANGED <<local, server, shadow, conflict>>

Acknowledged(e, x) ==
    /\ server' = [server EXCEPT ![e] = x] /\ shadow' = [shadow EXCEPT ![e] = x]
    /\ dirty' = dirty \ {e}
    /\ UNCHANGED <<local, conflict>>

\* Refused for its placement, the create learns no server state: the server has no record of this id.
PushCreate(e) ==
    LET x == [local[e] EXCEPT !.version = 1] IN
    IF (local[e].placed /\ PlacementTaken) \/ ~Acceptable(x) THEN Conflict(e, Absent, e) ELSE Acknowledged(e, x)

PushDelete(e) ==
    IF Live(server[e]) /\ server[e].version = shadow[e].version
    THEN Acknowledged(e, [server[e] EXCEPT !.deleted = TRUE, !.version = @ + 1])
    ELSE Conflict(e, server[e], e)

PushChanges(e) ==
    LET x == AppliedAll(server[e], Group(e)) IN
    IF Diverged(shadow[e], local[e]) THEN Conflict(e, shadow[e], e)
    ELSE IF Group(e) = <<>> THEN Clean(e)
    ELSE IF x = Refused THEN Conflict(e, server[e], e) ELSE Acknowledged(e, x)

Push(e) ==
    /\ e \in dirty /\ ~conflict[e].open
    /\ IF local[e].deleted THEN IF Live(shadow[e]) THEN PushDelete(e) ELSE Clean(e)
       ELSE IF ~Exists(shadow[e]) THEN PushCreate(e)
       ELSE IF shadow[e].deleted THEN Conflict(e, shadow[e], e)
       ELSE PushChanges(e)
    /\ UNCHANGED user

\* The whole request is refused: nothing is known of the server's state.
Refuse(e) ==
    /\ faults < MaxFaults /\ faults' = faults + 1
    /\ e \in dirty /\ ~conflict[e].open /\ (Live(local[e]) \/ Live(shadow[e]))
    /\ Conflict(e, Absent, e)
    /\ UNCHANGED <<now, web, minted, work, renounced>>

-----------------------------------------------------------------------------
(* Pulling the newest change of an execution.                               *)

Others(e) == {o \in Ids \ {e} : Live(local[o]) /\ local[o].placed}
Collides(e, x) == ~x.deleted /\ x.placed /\ Others(e) # {}

Pull(e) ==
    LET x == server[e] IN
    /\ x.version > shadow[e].version /\ conflict[e].remote # x
    /\ IF conflict[e].open
       THEN conflict' = [conflict EXCEPT ![e].remote = x] /\ UNCHANGED <<local, server, shadow, dirty>>
       ELSE IF e \in dirty THEN Conflict(e, x, e)
       ELSE IF Collides(e, x) THEN Conflict(e, x, CHOOSE o \in Others(e) : TRUE)
       ELSE /\ shadow' = [shadow EXCEPT ![e] = x]
            /\ local' = IF ~Exists(local[e]) /\ x.deleted THEN local ELSE [local EXCEPT ![e] = x]
            /\ UNCHANGED <<server, dirty, conflict>>
    /\ UNCHANGED user

-----------------------------------------------------------------------------
(* The user resolves a conflict.                                            *)

Decided(e) == conflict' = [conflict EXCEPT ![e] = NoConflict]
Colliding(e) == Exists(conflict[e].remote) /\ conflict[e].about # e

KeepLocal(e) ==
    LET c == conflict[e] IN
    /\ c.open /\ ~c.remote.deleted /\ ~Colliding(e)
    /\ Exists(c.remote) => ~Diverged(c.remote, local[e])
    /\ shadow' = IF Exists(c.remote) THEN [shadow EXCEPT ![e] = c.remote] ELSE shadow
    /\ dirty' = dirty \cup {e}
    /\ Decided(e)
    /\ UNCHANGED <<user, local, server>>

\* The sessions only this device recorded, as an execution of their own without the placement.
Extra(mine, remote) ==
    LET upTo[n \in 0 .. Len(mine.sessions)] ==
            IF n = 0 THEN <<>>
            ELSE IF mine.sessions[n].from \in Begun(remote) THEN upTo[n - 1]
            ELSE Append(upTo[n - 1], mine.sessions[n])
    IN  upTo[Len(mine.sessions)]
KeptHistory(mine, remote) ==
    LET extra == Extra(mine, remote)
        end == extra[Len(extra)].to
        status == IF end = Open THEN "in_progress"
                  ELSE IF mine.status \in Finished THEN mine.status ELSE "paused"
    IN  [mine EXCEPT !.sessions = extra, !.status = status, !.placed = FALSE,
                     !.final = IF status \in Finished THEN end ELSE Unset]

KeepsLonger(e) ==                       \* broken: counts the sessions instead of comparing them
    LET c == conflict[e] IN
    Live(local[c.about]) /\ Exists(c.remote) /\ Len(local[c.about].sessions) > Len(c.remote.sessions)

KeepsHistory(e) ==
    LET c == conflict[e] IN
    Live(local[c.about]) /\ Exists(c.remote) /\ Extra(local[c.about], c.remote) # <<>>

DiscardedAway(x) == [x EXCEPT !.status = "discarded"]   \* broken: a status instead of a tombstone
Discarded(x) == [x EXCEPT !.deleted = TRUE]

AcceptRemote(e) ==
    LET c == conflict[e]
        gone == IF Exists(c.remote) /\ ~Colliding(e) THEN local
                ELSE IF Exists(shadow[e]) /\ ~Colliding(e) THEN [local EXCEPT ![e] = shadow[e]]
                ELSE [local EXCEPT ![c.about] = IF Live(@) THEN Discarded(@) ELSE @]
        taken == IF ~Exists(c.remote) \/ (~Exists(gone[e]) /\ c.remote.deleted) THEN gone
                 ELSE [gone EXCEPT ![e] = c.remote]
        copy == minted + 1
    IN
    /\ c.open
    /\ KeepsHistory(e) => minted < MaxIds
    /\ minted' = IF KeepsHistory(e) THEN copy ELSE minted
    /\ local' = IF KeepsHistory(e) THEN [taken EXCEPT ![copy] = KeptHistory(local[c.about], c.remote)] ELSE taken
    /\ dirty' = (dirty \ {c.about}) \cup IF KeepsHistory(e) THEN {copy} ELSE {}
    /\ shadow' = IF Exists(c.remote) THEN [shadow EXCEPT ![e] = c.remote] ELSE shadow
    /\ renounced' = IF Exists(c.remote) THEN renounced
                    ELSE renounced \cup ((Worked(local[e]) \ Worked(local'[e])) \cap work)
    /\ Decided(e)
    /\ UNCHANGED <<now, web, server, work, faults>>

-----------------------------------------------------------------------------
Next ==
    \/ Create \/ WebCreate
    \/ \E e \in Ids :
        \/ \E act \in UserActions : Act(e, act) \/ WebActs(e, <<act>>)
        \/ \E outcome \in Outcomes :
              \/ SetOutcome(e, outcome)
              \/ server[e].status # "cancelled" /\ WebActs(e, OutcomeActions(server[e].status, outcome))
        \/ Rate(e) \/ WebRate(e) \/ Delete(e) \/ WebDelete(e)
        \/ Push(e) \/ Refuse(e) \/ Pull(e)
        \/ KeepLocal(e) \/ AcceptRemote(e)

Spec == Init /\ [][Next]_vars

-----------------------------------------------------------------------------
(* Properties.                                                              *)

\* On either side an attempt's status says what its sessions say: running exactly while the last
\* one is open, never begun exactly when there is none, finished exactly with a finishing time, and
\* the sessions follow one another -- through pushes, kept histories and resolved conflicts too.
Fits(x) ==
    Exists(x) =>
        /\ Acceptable(x)
        /\ x.sessions = <<>> => x.status \in Finished \cup {"scheduled"}
        /\ (x.final # Unset) <=> (x.status \in Finished)
StatusFitsSessions == \A e \in Ids : Fits(local[e]) /\ Fits(server[e])

\* What the device would send of a changed attempt is never refused by a server that still is as
\* acknowledged, and leaves there what the device has: any sequence of starts, pauses, finishes and
\* reopens is rebuilt action by action.  (Not when the user kept a local history that differs from
\* the server's where execution_changes does not look: see SettledAgrees.)
Compatible(remote, mine) ==
    /\ \A i \in DOMAIN remote.sessions :
          i \in DOMAIN mine.sessions /\ remote.sessions[i].to \in {Open, mine.sessions[i].to}
    /\ remote.status = "cancelled" => mine.status = "cancelled" /\ mine.final = remote.final
PushReproduces ==
    \A e \in dirty :
        /\ Live(local[e]) /\ Live(shadow[e]) /\ shadow[e].version = server[e].version
        /\ ~Diverged(shadow[e], local[e]) /\ Compatible(shadow[e], local[e])
        => LET x == AppliedAll(server[e], Group(e)) IN
           /\ x.status = local[e].status /\ x.sessions = local[e].sessions /\ x.final = local[e].final
           /\ local[e].rating # Unset => x.rating = local[e].rating

\* Every session the user began on the device is in a live attempt there, unless the user deleted that
\* attempt, or gave it up to a refusal that named no server state.
WorkKept ==
    \A t \in work \ renounced : \E e \in Ids : t \in Worked(local[e])

\* Once the device has nothing to send about an attempt, no conflict, and the server's last version,
\* both show the same status and the same work (the ends of the sessions may differ: a kept local
\* history is compared by their starts).
SettledAgrees ==
    \A e \in Ids :
        e \notin dirty /\ ~conflict[e].open /\ Exists(shadow[e]) /\ shadow[e].version = server[e].version =>
            IF server[e].deleted THEN ~Live(local[e])
            ELSE local[e].status = server[e].status /\ Begun(local[e]) = Begun(server[e])

\* Accepting the server's side of an execution conflict never deletes the work sessions only this
\* device recorded (app/sync/engine.py, "Milestone 6").  It does: a create refused for its placement
\* comes without a server record, and then the attempt is discarded with its sessions.
AcceptNeverDeletesWork ==
    \A t \in work : \E e \in Ids : t \in Worked(local[e])

=============================================================================
