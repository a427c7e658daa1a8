--------------------------- MODULE NativeSessions ---------------------------
(***************************************************************************)
(* The session of a desktop: on the server a family of rotating refresh    *)
(* credentials (backend/native_sessions.py); on the device the access      *)
(* token and credential in memory, and, when the user asked to be kept     *)
(* signed in, the credential in the vault of the system                    *)
(* (app/sync/service.py).  The loop that synchronizes and the jobs of the  *)
(* pages use the session at the same time: each may find its token refused *)
(* and renew it, while the user signs out or in.                           *)
(*                                                                         *)
(* A pair is what a login or a refresh issues: an access token and the     *)
(* credential for the next refresh.  The state lock is held only within    *)
(* one step; the renew lock and the sync lock are held across requests.    *)
(* One account; time is abstract: a token expires, a grace period ends.    *)
(***************************************************************************)
EXTENDS Integers

CONSTANTS
    Threads,    \* the background loop, which synchronizes, and the jobs of the
                \* pages, which synchronize or call the server for the account
    MaxPairs,   \* bound: pairs ever issued
    MaxFaults,  \* bound: lost requests and answers, crashes
    MaxResets   \* bound: resets of the password

ASSUME SessionsAssumption ==
    /\ MaxPairs \in Nat \ {0} /\ MaxFaults \in Nat /\ MaxResets \in Nat

VARIABLES
    family,     \* native_sessions, named by the pair its login issued
    pair,       \* refresh_credentials, and the access tokens issued with them
    epoch,      \* users.credential_epoch
    memory,     \* _token, _refresh_token, _replaced_token, _keep
    restorable, \* _restorable
    active,     \* the account is the device's active one
    vault,      \* the kept credential
    job,        \* per thread: where it is in a request and its renewal, and what it read
    ui,         \* the user's sign-in or sign-out in progress
    alarm,      \* history: the server took the device's own credential for replay
    faults      \* faults so far

vars == <<family, pair, epoch, memory, restorable, active, vault, job, ui, alarm, faults>>
server == <<family, pair, epoch, alarm>>
kept == <<restorable, active, vault>>

Pairs == 1 .. MaxPairs
None == 0
NoFamily == [state |-> "none", epoch |-> 0]
NoPair == [family |-> None, used |-> "no", fresh |-> FALSE]
NoSession == [token |-> None, refresh |-> None, replaced |-> None, keep |-> FALSE]
Idle == [at |-> "idle", token |-> None, sent |-> None, got |-> None, keep |-> FALSE, syncs |-> FALSE,
         restoring |-> FALSE, renewed |-> FALSE, out |-> FALSE]
Free == [at |-> "free", pair |-> None, keep |-> FALSE, epoch |-> 0]

Ref == Pairs \cup {None}
Epochs == 0 .. MaxResets
Families == [state : {"none", "live", "revoked"}, epoch : Epochs]
PairStates == [family : Ref, used : {"no", "recently", "long ago"}, fresh : BOOLEAN]
Sessions == [token : Ref, refresh : Ref, replaced : Ref, keep : BOOLEAN]
Renewing == {"sent", "got", "saved", "refused"}
JobStates == [at : {"idle", "called", "asked", "renew", "drop", "again"} \cup Renewing,
              token : Ref, sent : Ref, got : Ref, keep : BOOLEAN, syncs : BOOLEAN,
              restoring : BOOLEAN, renewed : BOOLEAN, out : BOOLEAN]
UiStates == [at : {"free", "checked", "in", "out"}, pair : Ref, keep : BOOLEAN, epoch : Epochs]

TypeOK ==
    /\ family \in [Pairs -> Families] /\ pair \in [Pairs -> PairStates] /\ epoch \in Epochs
    /\ memory \in Sessions /\ restorable \in BOOLEAN /\ active \in BOOLEAN /\ vault \in Ref
    /\ job \in [Threads -> JobStates] /\ ui \in UiStates
    /\ \A t \in Threads : job[t].at \in Renewing => job[t].sent # None
    /\ alarm \in BOOLEAN /\ faults \in 0 .. MaxFaults

Init ==
    /\ family = [f \in Pairs |-> NoFamily] /\ pair = [p \in Pairs |-> NoPair] /\ epoch = 0
    /\ memory = NoSession /\ restorable = TRUE /\ active = FALSE /\ vault = None
    /\ job = [t \in Threads |-> Idle] /\ ui = Free
    /\ alarm = FALSE /\ faults = 0

Fault == faults < MaxFaults /\ faults' = faults + 1

-----------------------------------------------------------------------------
(* The server.                                                              *)

CanIssue == \E p \in Pairs : pair[p].family = None
New == CHOOSE p \in Pairs : pair[p].family = None
NewPair(f) == [family |-> f, used |-> "no", fresh |-> TRUE]

Live(f) == family[f].state = "live"
Current(f) == family[f].epoch = epoch

\* Every request with an access token is checked against its family.
Accepts(p) == pair[p].fresh /\ Live(pair[p].family) /\ Current(pair[p].family)

Spent(p) == pair[p].used # "no"
JustSpent(p) == Current(pair[p].family) /\ pair[p].used = "recently"

RotatesAgain(p) == Live(pair[p].family) /\ Current(pair[p].family)  \* broken: a credential is spent twice

\* refresh: a new pair for a credential that was not used yet.
Rotates(p) == Live(pair[p].family) /\ ~Spent(p) /\ Current(pair[p].family)
Rotate(p) ==
    /\ pair' = [pair EXCEPT ![p].used = "recently", ![New] = NewPair(pair[p].family)]
    /\ UNCHANGED <<family, epoch, alarm>>

\* Otherwise it is refused; unless it was used just now, its family ends.
Reject(p) ==
    LET f == pair[p].family IN
    /\ family' = IF Live(f) /\ ~JustSpent(p) THEN [family EXCEPT ![f].state = "revoked"] ELSE family
    /\ alarm' = (alarm \/ (Live(f) /\ ~JustSpent(p) /\ Spent(p)))
    /\ UNCHANGED <<pair, epoch>>

\* Time passes; of a session that has ended it changes nothing.
ExpireToken(p) ==
    /\ pair[p].fresh /\ Live(pair[p].family)
    /\ pair' = [pair EXCEPT ![p].fresh = FALSE]
    /\ UNCHANGED <<family, epoch, alarm, memory, kept, job, ui, faults>>

EndGrace(p) ==
    /\ pair[p].used = "recently" /\ Live(pair[p].family)
    /\ pair' = [pair EXCEPT ![p].used = "long ago"]
    /\ UNCHANGED <<family, epoch, alarm, memory, kept, job, ui, faults>>

\* The password is reset or changed elsewhere: every session ends, and a login whose
\* password was checked before begins one that nothing accepts.
ResetPassword ==
    /\ epoch < MaxResets /\ epoch' = epoch + 1
    /\ family' = [f \in Pairs |-> IF Live(f) THEN [family[f] EXCEPT !.state = "revoked"] ELSE family[f]]
    /\ UNCHANGED <<pair, alarm, memory, kept, job, ui, faults>>

-----------------------------------------------------------------------------
(* The user signs in and out.                                               *)

HoldsRenewLock(t) == job[t].at \in Renewing

\* The sync lock: a run holds it once it has read its token, until it ends or starts again.
Syncing == \E t \in Threads : job[t].syncs /\ job[t].at \notin {"called", "again"}
Goto(t, fields) == job' = [job EXCEPT ![t] = fields]

\* The login itself holds no lock.
SignIn(keep) ==
    /\ ui.at = "free"
    /\ ui' = [at |-> "checked", pair |-> None, keep |-> keep, epoch |-> epoch]
    /\ UNCHANGED <<server, memory, kept, job, faults>>

Start ==
    /\ ui.at = "checked" /\ CanIssue
    /\ family' = [family EXCEPT ![New] = [state |-> "live", epoch |-> ui.epoch]]
    /\ pair' = [pair EXCEPT ![New] = NewPair(New)]
    /\ ui' = [ui EXCEPT !.at = "in", !.pair = New]
    /\ UNCHANGED <<epoch, alarm, memory, kept, job, faults>>

Establish ==
    /\ ui.at = "in" /\ ~Syncing
    /\ memory' = [token |-> ui.pair, refresh |-> ui.pair, replaced |-> None, keep |-> ui.keep]
    /\ vault' = IF ui.keep THEN ui.pair ELSE None
    /\ active' = TRUE /\ restorable' = FALSE /\ ui' = Free
    /\ UNCHANGED <<server, job, faults>>

SignOut ==
    /\ ui.at = "free" /\ active /\ ~Syncing
    /\ ui' = [Free EXCEPT !.at = "out", !.pair = IF memory.refresh # None THEN memory.refresh ELSE vault]
    /\ memory' = NoSession /\ restorable' = FALSE /\ active' = FALSE /\ vault' = None
    /\ job' = [t \in Threads |-> [job[t] EXCEPT !.out = @ \/ HoldsRenewLock(t)]]
    /\ UNCHANGED <<server, faults>>

\* Then the family is revoked on the server, when it can be reached.
Revoke ==
    /\ ui.at = "out"
    /\ family' = IF ui.pair # None THEN [family EXCEPT ![pair[ui.pair].family].state = "revoked"] ELSE family
    /\ ui' = Free
    /\ UNCHANGED <<pair, epoch, alarm, memory, kept, job, faults>>

RevokeLost ==
    /\ ui.at = "out" /\ Fault /\ ui' = Free
    /\ UNCHANGED <<server, memory, kept, job>>

-----------------------------------------------------------------------------
(* A thread uses the session: _authorized, sync_now.                        *)

Request(t) ==
    /\ job[t].at = "idle" /\ memory.token # None
    /\ \/ Goto(t, [Idle EXCEPT !.at = "asked", !.token = memory.token])
       \/ Goto(t, [Idle EXCEPT !.at = "called", !.token = memory.token, !.syncs = TRUE])
    /\ UNCHANGED <<server, memory, kept, ui, faults>>

\* A run waits for the sync lock with the token it read.
TakeLock(t) ==
    /\ job[t].at = "called" /\ ~Syncing
    /\ Goto(t, [job[t] EXCEPT !.at = "asked"])
    /\ UNCHANGED <<server, memory, kept, ui, faults>>

\* With a new token a call is repeated with it; a run starts over, with the token it finds.
Retry(t, token) ==
    IF job[t].syncs THEN [Idle EXCEPT !.at = "again", !.syncs = TRUE]
    ELSE [Idle EXCEPT !.at = "asked", !.token = token, !.renewed = TRUE]
GivenUp(t) == [Idle EXCEPT !.at = "drop", !.token = job[t].token, !.syncs = job[t].syncs]

\* The answer: done, or the token was refused and is renewed once.
Answer(t) ==
    /\ job[t].at = "asked"
    /\ Goto(t, IF Accepts(job[t].token) THEN Idle
               ELSE IF job[t].renewed THEN GivenUp(t) ELSE [job[t] EXCEPT !.at = "renew"])
    /\ UNCHANGED <<server, memory, kept, ui, faults>>

Again(t) ==
    /\ job[t].at = "again"
    /\ Goto(t, IF memory.token = None THEN Idle
               ELSE [Idle EXCEPT !.at = "called", !.token = memory.token, !.renewed = TRUE, !.syncs = TRUE])
    /\ UNCHANGED <<server, memory, kept, ui, faults>>

\* _drop_token: never the token of a session begun since.
DropToken(t) ==
    /\ job[t].at = "drop"
    /\ memory' = IF memory.token = job[t].token THEN [memory EXCEPT !.token = None] ELSE memory
    /\ Goto(t, Idle)
    /\ UNCHANGED <<server, kept, ui, faults>>

-----------------------------------------------------------------------------
(* The renewal, and the restoring of a kept session: one at a time.         *)

NeverWaits == TRUE  \* broken: renewals are not serialized
RenewLockFree == \A t \in Threads : ~HoldsRenewLock(t)

\* Another thread renewed the token meanwhile, or the session changed.
Replaced(t) == memory.token # job[t].token

BlindlyRenews == TRUE  \* broken: a login without a credential is renewed too
HasCredential == memory.refresh # None

BeginRenew(t) ==
    /\ job[t].at = "renew" /\ RenewLockFree
    /\ Goto(t, CASE Replaced(t) /\ memory.replaced = job[t].token /\ memory.token # None ->
                        Retry(t, memory.token)
                 [] Replaced(t) /\ (memory.replaced # job[t].token \/ memory.token = None) ->
                        GivenUp(t)
                 [] ~Replaced(t) /\ ~HasCredential -> GivenUp(t)
                 [] OTHER -> [job[t] EXCEPT !.at = "sent", !.sent = memory.refresh, !.keep = memory.keep])
    /\ UNCHANGED <<server, memory, kept, ui, faults>>

\* A run before a session is there: the first after a start, or after a failure of it.
BeginRestore(t) ==
    /\ job[t].at = "idle" /\ memory.token = None /\ restorable /\ RenewLockFree
    /\ IF active /\ vault # None
       THEN Goto(t, [Idle EXCEPT !.at = "sent", !.sent = vault, !.keep = TRUE, !.restoring = TRUE])
            /\ UNCHANGED restorable
       ELSE restorable' = FALSE /\ UNCHANGED job
    /\ UNCHANGED <<server, memory, active, vault, ui, faults>>

Exchange(t) ==
    /\ job[t].at = "sent"
    /\ IF Rotates(job[t].sent)
       THEN CanIssue /\ Rotate(job[t].sent) /\ Goto(t, [job[t] EXCEPT !.at = "got", !.got = New])
       ELSE Reject(job[t].sent) /\ Goto(t, [job[t] EXCEPT !.at = "refused"])
    /\ UNCHANGED <<memory, kept, ui, faults>>

\* A TransportError, before the server or after it: nothing changes on the device.
Unreachable(t) ==
    /\ job[t].at \in {"sent", "got"} /\ Fault
    /\ Goto(t, Idle)
    /\ UNCHANGED <<server, memory, kept, ui>>

\* 401 or 409: the credential is given up.
RenewRefused(t) ==
    /\ job[t].at = "refused" /\ ~job[t].restoring
    /\ memory' = IF Replaced(t) THEN memory ELSE [memory EXCEPT !.refresh = None]
    /\ vault' = IF ~Replaced(t) /\ job[t].keep THEN None ELSE vault
    /\ Goto(t, GivenUp(t))
    /\ UNCHANGED <<server, restorable, active, ui, faults>>

RestoreRefused(t) ==
    /\ job[t].at = "refused" /\ job[t].restoring
    /\ vault' = None /\ restorable' = FALSE /\ Goto(t, Idle)
    /\ UNCHANGED <<server, memory, active, ui, faults>>

NotKept(t) == vault  \* broken: the vault keeps the credential that was spent
Kept(t) == IF job[t].keep THEN job[t].got ELSE vault

\* At once: the old credential is spent.
SaveKept(t) ==
    /\ job[t].at = "got"
    /\ vault' = Kept(t)
    /\ restorable' = (restorable /\ ~job[t].restoring)
    /\ Goto(t, [job[t] EXCEPT !.at = "saved"])
    /\ UNCHANGED <<server, memory, active, ui, faults>>

Renewed(t) ==
    /\ job[t].at = "saved" /\ ~job[t].restoring
    /\ memory' = IF Replaced(t) THEN memory
                 ELSE [memory EXCEPT !.token = job[t].got, !.refresh = job[t].got, !.replaced = job[t].token]
    /\ Goto(t, IF Replaced(t) THEN GivenUp(t) ELSE Retry(t, job[t].got))
    /\ UNCHANGED <<server, kept, ui, faults>>

DecidedByToken == memory.token # None  \* broken: a sign-out meanwhile is not noticed
\* Signed out or in meanwhile: that decision stands.
Decided == memory.token # None \/ ~active
Restored(t) ==
    /\ job[t].at = "saved" /\ job[t].restoring
    /\ memory' = IF Decided THEN memory
                 ELSE [token |-> job[t].got, refresh |-> job[t].got, replaced |-> None, keep |-> TRUE]
    /\ Goto(t, Idle)
    /\ UNCHANGED <<server, kept, ui, faults>>

\* The process ends; the vault and the active account stay.
Restart ==
    /\ Fault
    /\ memory' = NoSession /\ restorable' = TRUE
    /\ job' = [t \in Threads |-> Idle] /\ ui' = Free
    /\ UNCHANGED <<server, active, vault>>

-----------------------------------------------------------------------------
Next ==
    \/ \E p \in Pairs : ExpireToken(p) \/ EndGrace(p)
    \/ ResetPassword \/ Restart
    \/ \E keep \in BOOLEAN : SignIn(keep)
    \/ Start \/ Establish \/ SignOut \/ Revoke \/ RevokeLost
    \/ \E t \in Threads :
        \/ BeginRestore(t) \/ Again(t) \/ TakeLock(t)
        \/ Request(t) \/ Answer(t) \/ DropToken(t)
        \/ BeginRenew(t) \/ Exchange(t) \/ Unreachable(t)
        \/ RenewRefused(t) \/ RestoreRefused(t) \/ SaveKept(t) \/ Renewed(t) \/ Restored(t)

Spec == Init /\ [][Next]_vars

-----------------------------------------------------------------------------
(* Properties.                                                              *)

\* A live family has exactly one credential that can still be exchanged, whatever threads,
\* retries and reuses of spent ones do (refresh, logout): a session never forks.
OneLiveCredential ==
    \A f \in Pairs : Live(f) =>
        \E p \in Pairs : \A q \in Pairs : pair[q].family = f /\ ~Spent(q) <=> q = p

\* A renewal or a restoring that was under way when the user signed out never gives the device
\* the session it obtained, whatever the user did since.
NoLateSession ==
    [][\A t \in Threads : job[t].out /\ job[t].got # None => memory'.token # job[t].got]_vars

\* As long as no answer is lost and the device does not stop, the server never takes one of its
\* requests for the replay of a stolen credential.
NoFalseAlarm == faults = 0 => ~alarm

\* As long as no answer is lost and the device does not stop, the credential in the vault can be
\* exchanged whenever none is being exchanged: a restart would find it unspent.
KeptIsUnspent == faults = 0 /\ RenewLockFree /\ vault # None => ~Spent(vault)

=============================================================================
