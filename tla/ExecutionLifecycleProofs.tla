----------------------- MODULE ExecutionLifecycleProofs -----------------------
(***************************************************************************)
(* What ExecutionLifecycle promises of the attempts of a placement, for    *)
(* every number of attempts, user actions and faults.                      *)
(*                                                                         *)
(* An attempt is sound if its status says what its sessions say (Sound);   *)
(* every action keeps it so, on the device as on the server, and so does   *)
(* every group of operations the server does not refuse.                   *)
(* The changes a push sends rebuild the device's sessions one by one: the  *)
(* first n of them, for every n (Along), after a session begun but not yet *)
(* ended (Halfway).                                                        *)
(* The inductive invariant (IInv) adds that what the device knows of the   *)
(* server was so, that one attempt holds the placement, and that work that *)
(* counts is in sight.                                                     *)
(***************************************************************************)
EXTENDS ExecutionLifecycle, SequenceTheorems, WellFoundedInduction, TLAPS

-----------------------------------------------------------------------------
(* Induction over a number is by its least counterexample.                 *)

\* Every set of numbers that is not empty has a least one.
LEMMA LeastNumber ==
    ASSUME NEW S \in SUBSET Nat, S # {}
    PROVE  \E m \in S : \A n \in S : m <= n
<1> DEFINE R == {pair \in Nat \X Nat : pair[1] < pair[2]}
<1>0. IsWellFoundedOn(R, Nat)
  BY NatLessThanWellFounded DEF OpToRel
<1>1. PICK m \in S : \A n \in S : ~(<<n, m>> \in R)
  <2> HIDE DEF R
  <2> QED BY <1>0, WFMin, Zenon
<1>2. \A n \in S : m <= n
  <2> TAKE n \in S
  <2>1. n \in Nat /\ m \in Nat
    OBVIOUS
  <2>2. CASE n < m
    <3>1. <<n, m>> \in R
      BY <2>1, <2>2
    <3> HIDE DEF R
    <3> QED BY <1>1, <3>1
  <2> QED BY <2>1, <2>2
<1> QED BY <1>2

-----------------------------------------------------------------------------
(* Sessions.                                                                *)

\* They follow one another, and only the last may still be open.
InOrder(s) ==
    /\ \A i \in DOMAIN s : s[i].to # Open => s[i].from <= s[i].to
    /\ \A i, j \in DOMAIN s : i < j => s[i].to # Open /\ s[i].to <= s[j].from
Running(s) == s # <<>> /\ s[Len(s)].to = Open
Before(s, t) == \A i \in DOMAIN s : s[i].from <= t /\ s[i].to <= t
Starts(s) == {s[i].from : i \in DOMAIN s}
Begin(at) == [from |-> at, to |-> Open]

\* A sequence of sessions has their types, position by position.
LEMMA SessionFacts ==
    ASSUME NEW s \in Seq(Session)
    PROVE  /\ Len(s) \in Nat /\ DOMAIN s = 1 .. Len(s)
           /\ \A i \in DOMAIN s : /\ s[i].from \in 1 .. MaxTime /\ s[i].to \in 0 .. MaxTime
                                  /\ s[i].from \in Int /\ s[i].to \in Int
                                  /\ s[i] = [from |-> s[i].from, to |-> s[i].to]
           /\ s = <<>> <=> Len(s) = 0
<1>1. Len(s) \in Nat /\ DOMAIN s = 1 .. Len(s) /\ (s = <<>> <=> Len(s) = 0)
  BY EmptySeq, LenProperties
<1>2. ASSUME NEW i \in DOMAIN s
      PROVE  s[i] \in Session
  BY <1>2, <1>1, ElementOfSeq
<1> QED BY <1>1, <1>2, LifecycleAssumption DEF Session, Instants

\* All sessions have ended unless the last one runs.
LEMMA NotRunning ==
    ASSUME NEW s \in Seq(Session), InOrder(s), ~ Running(s)
    PROVE  \A i \in DOMAIN s : s[i].to # Open
BY SessionFacts DEF InOrder, Running

\* A session that begins when the others have ended leaves them in order, and running.
LEMMA Opening ==
    ASSUME NEW s \in Seq(Session), InOrder(s), ~ Running(s),
           NEW at \in 1 .. MaxTime, Before(s, at)
    PROVE  LET u == Append(s, Begin(at)) IN
           /\ u \in Seq(Session) /\ InOrder(u) /\ Running(u) /\ Before(u, at)
           /\ Starts(u) = Starts(s) \cup {at}
           /\ Len(u) = Len(s) + 1 /\ u # <<>>
<1> DEFINE u == Append(s, Begin(at))
<1>1. Begin(at) \in Session
  BY LifecycleAssumption DEF Begin, Session, Instants, Open
<1>2. /\ u \in Seq(Session) /\ Len(u) = Len(s) + 1
      /\ \A i \in 1 .. Len(s) : u[i] = s[i]
      /\ u[Len(s) + 1] = Begin(at)
  BY <1>1, AppendProperties
<1>3. /\ DOMAIN u = 1 .. Len(s) + 1 /\ DOMAIN s = 1 .. Len(s) /\ Len(s) \in Nat
  BY <1>2, SessionFacts
<1>4. Begin(at).from = at /\ Begin(at).to = Open /\ at \in Int /\ Open \in Int /\ Open <= at
  BY LifecycleAssumption DEF Begin, Open
<1> HIDE DEF u
<1>5. InOrder(u)
  <2>1. ASSUME NEW i \in DOMAIN u, u[i].to # Open
        PROVE  u[i].from <= u[i].to
    BY <2>1, <1>2, <1>3, <1>4 DEF InOrder
  <2>2. ASSUME NEW i \in DOMAIN u, NEW j \in DOMAIN u, i < j
        PROVE  u[i].to # Open /\ u[i].to <= u[j].from
    <3>1. i \in DOMAIN s /\ u[i] = s[i] /\ s[i].to # Open
      BY <2>2, <1>2, <1>3, NotRunning
    <3>2. CASE j \in DOMAIN s
      BY <2>2, <3>1, <3>2, <1>2, <1>3 DEF InOrder
    <3>3. CASE j = Len(s) + 1
      BY <3>1, <3>3, <1>2, <1>4 DEF Before
    <3> QED BY <3>2, <3>3, <1>3
  <2> QED BY <2>1, <2>2 DEF InOrder
<1>6. Running(u)
  BY <1>2, <1>3, <1>4, SessionFacts DEF Running
<1>7. Before(u, at)
  BY <1>2, <1>3, <1>4 DEF Before
<1>8. Starts(u) = Starts(s) \cup {at}
  BY <1>2, <1>3, <1>4 DEF Starts
<1>9. u # <<>>
  BY <1>6 DEF Running
<1> QED BY <1>2, <1>5, <1>6, <1>7, <1>8, <1>9 DEF u

\* Ending what runs leaves the sessions in order, begun when they were, and not running.
LEMMA Closing ==
    ASSUME NEW s \in Seq(Session), InOrder(s),
           NEW at \in 1 .. MaxTime, Before(s, at)
    PROVE  LET u == Ended(s, at) IN
           /\ u \in Seq(Session) /\ InOrder(u) /\ ~ Running(u) /\ Before(u, at)
           /\ Starts(u) = Starts(s)
           /\ Len(u) = Len(s) /\ (u = <<>> <=> s = <<>>)
           /\ ~ Running(s) => u = s
<1> DEFINE u == Ended(s, at)
<1>1. /\ DOMAIN s = 1 .. Len(s) /\ Len(s) \in Nat /\ at \in Int /\ at # Open /\ Open <= at
      /\ \A i \in DOMAIN s : s[i].from \in 1 .. MaxTime /\ s[i].to \in 0 .. MaxTime
  BY SessionFacts, LifecycleAssumption DEF Open
<1>2. /\ DOMAIN u = DOMAIN s
      /\ \A i \in DOMAIN s : u[i].from = s[i].from /\ u[i].to = IF s[i].to = Open THEN at ELSE s[i].to
      /\ \A i \in DOMAIN s : u[i] = IF s[i].to = Open THEN [s[i] EXCEPT !.to = at] ELSE s[i]
  BY SessionFacts DEF Ended
<1>3. ASSUME NEW i \in DOMAIN s
      PROVE  u[i] \in Session
  <2>1. s[i] \in Session
    BY <1>1, ElementOfSeq
  <2> QED BY <1>2, <2>1, LifecycleAssumption DEF Session, Instants
<1>4. u = [i \in 1 .. Len(s) |-> u[i]]
  BY <1>1, <1>2 DEF Ended
<1>5. u \in Seq(Session)
  BY <1>1, <1>3, <1>4, IsASeq
<1>6. Len(u) = Len(s)
  BY <1>1, <1>2, <1>5, SessionFacts
<1> HIDE DEF u
<1>7. InOrder(u)
  <2>1. ASSUME NEW i \in DOMAIN u, u[i].to # Open
        PROVE  u[i].from <= u[i].to
    BY <2>1, <1>1, <1>2 DEF InOrder, Before
  <2>2. ASSUME NEW i \in DOMAIN u, NEW j \in DOMAIN u, i < j
        PROVE  u[i].to # Open /\ u[i].to <= u[j].from
    BY <2>2, <1>1, <1>2 DEF InOrder, Before
  <2> QED BY <2>1, <2>2 DEF InOrder
<1>8. ~ Running(u)
  BY <1>1, <1>2, <1>5, <1>6, SessionFacts, SMTT(60) DEF Running
<1>9. Before(u, at) /\ Starts(u) = Starts(s)
  BY <1>1, <1>2 DEF Before, Starts
<1>10. ~ Running(s) => u = s
  <2> SUFFICES ASSUME ~ Running(s) PROVE u = s
    OBVIOUS
  <2>1. \A i \in DOMAIN s : u[i] = s[i]
    BY NotRunning, <1>2
  <2> QED BY <2>1, <1>5, <1>6, <1>1, SeqEqual
<1>11. u = <<>> <=> s = <<>>
  BY <1>5, <1>6, SessionFacts
<1> QED BY <1>5, <1>6, <1>7, <1>8, <1>9, <1>10, <1>11 DEF u

-----------------------------------------------------------------------------
(* Attempts.                                                                *)

Kinds == {"start", "pause", "resume", "complete", "skip", "cancel", "reopen"}
Starting == {"start", "resume"}
Finishing == {"complete", "skip", "cancel"}

\* The status says what the sessions say.
Told(x) ==
    /\ Running(x.sessions) <=> x.status = "in_progress"
    /\ x.status = "scheduled" => x.sessions = <<>>
    /\ x.sessions = <<>> => x.status \in Finished \cup {"scheduled"}
    /\ x.final # Unset <=> x.status \in Finished
    /\ x.status \in Finished => Before(x.sessions, x.final)
Sound(x) ==
    /\ x \in Execution /\ InOrder(x.sessions)
    /\ Exists(x) => Told(x) /\ x.version # 0
    /\ ~ Exists(x) => x = Absent

ByTime(x, t) == Before(x.sessions, t) /\ x.final <= t

\* When an attempt was worked on is a matter of its sessions only.
LEMMA BegunStarts == ASSUME NEW x PROVE Begun(x) = Starts(x.sessions)
BY DEF Begun, Starts

\* No attempt is a sound record.
LEMMA AbsentSound == Sound(Absent) /\ ~ Exists(Absent) /\ \A t \in Nat : ByTime(Absent, t)
<1>1. <<>> \in Seq(Session) /\ DOMAIN Absent.sessions = {}
  BY EmptySeq DEF Absent
<1>2. Absent \in Execution
  BY <1>1, LifecycleAssumption DEF Absent, Execution, Unset, Instants, Pending, Finished
<1> QED BY <1>1, <1>2 DEF Sound, Exists, InOrder, ByTime, Before, Absent, Unset

\* A new attempt is sound, and without work.
LEMMA FreshSound == Sound(Fresh) /\ Live(Fresh) /\ Begun(Fresh) = {} /\ \A t \in Nat : ByTime(Fresh, t)
<1>1. <<>> \in Seq(Session) /\ DOMAIN Fresh.sessions = {}
  BY EmptySeq DEF Fresh, Absent
<1>2. Fresh \in Execution
  BY AbsentSound DEF Sound, Fresh, Execution, Pending
<1> QED BY <1>1, <1>2
    DEF Sound, Live, Exists, InOrder, ByTime, Before, Begun, Told, Running, Fresh, Absent, Unset, Finished

\* Soundness is what the property asks of a status, and more.
LEMMA SoundFits == ASSUME NEW x, Sound(x) PROVE Fits(x)
<1> SUFFICES ASSUME Exists(x) PROVE Fits(x)
  BY DEF Fits
<1>1. x.sessions \in Seq(Session) /\ InOrder(x.sessions) /\ Told(x)
  BY DEF Sound, Execution
<1>2. Acceptable(x)
  BY <1>1, SessionFacts DEF Acceptable, InOrder, Told, Running
<1> QED BY <1>1, <1>2 DEF Fits, Told

\* What one action makes of a sound attempt.
Performs(x, y, act, at) ==
    /\ Exists(y) /\ y.deleted = x.deleted /\ y.placed = x.placed /\ y.rating = x.rating
    /\ y.status = IF act = "reopen" THEN ReopenTarget(x.sessions # <<>>) ELSE Target(act)
    /\ y.sessions = IF act \in Starting THEN Append(x.sessions, Begin(at))
                    ELSE IF act = "reopen" THEN x.sessions ELSE Ended(x.sessions, at)
    /\ y.final = IF act \in Finishing THEN at ELSE Unset

\* What an action that is allowed makes of a sound attempt is sound.
LEMMA PerformsSound ==
    ASSUME NEW x, Sound(x), Exists(x), NEW act \in Kinds, x.status \in Sources(act),
           NEW at \in 1 .. MaxTime, Before(x.sessions, at),
           NEW y \in Execution, y.version # 0, Performs(x, y, act, at)
    PROVE  /\ Sound(y) /\ ByTime(y, at)
           /\ Begun(y) = Begun(x) \cup (IF act \in Starting THEN {at} ELSE {})
<1>1. x.sessions \in Seq(Session) /\ InOrder(x.sessions) /\ Told(x) /\ Before(x.sessions, at)
  BY DEF Sound, Execution
<1>2. at # Unset /\ Unset <= at /\ at <= at
  BY LifecycleAssumption DEF Unset
<1>3. CASE act \in Starting
  <2>1. ~ Running(x.sessions)
    BY <1>1, <1>3 DEF Told, Sources, Starting
  <2>2. /\ y.sessions = Append(x.sessions, Begin(at)) /\ y.status = "in_progress" /\ y.final = Unset
    BY <1>3 DEF Performs, Starting, Finishing, Target
  <2>3. /\ InOrder(y.sessions) /\ Running(y.sessions) /\ Before(y.sessions, at)
        /\ Starts(y.sessions) = Starts(x.sessions) \cup {at} /\ y.sessions # <<>>
    BY <1>1, <2>1, <2>2, Opening
  <2>4. Told(y)
    BY <2>2, <2>3 DEF Told, Finished
  <2> QED BY <1>2, <1>3, <2>2, <2>3, <2>4, BegunStarts DEF Sound, Performs, ByTime
<1>4. CASE act = "reopen"
  <2>1. ~ Running(x.sessions)
    BY <1>1, <1>4 DEF Told, Sources
  <2>2. /\ y.sessions = x.sessions /\ y.status = ReopenTarget(x.sessions # <<>>) /\ y.final = Unset
    BY <1>4 DEF Performs, Starting, Finishing
  <2>3. Told(y)
    BY <1>1, <2>1, <2>2 DEF Told, Finished, ReopenTarget
  <2> QED BY <1>1, <1>2, <1>4, <2>2, <2>3, BegunStarts DEF Sound, Performs, ByTime, Starting
<1>5. CASE act \in {"pause"} \cup Finishing
  <2>1. /\ y.sessions = Ended(x.sessions, at) /\ y.status = Target(act)
        /\ y.final = IF act \in Finishing THEN at ELSE Unset
    BY <1>5 DEF Performs, Starting, Finishing
  <2>2. /\ InOrder(y.sessions) /\ ~ Running(y.sessions) /\ Before(y.sessions, at)
        /\ Starts(y.sessions) = Starts(x.sessions) /\ (y.sessions = <<>> <=> x.sessions = <<>>)
    BY <1>1, <2>1, Closing
  <2>3. act = "pause" => x.sessions # <<>>
    BY <1>1 DEF Told, Sources, Finished
  <2>4. y.status \in Finished <=> act \in Finishing
    BY <1>5, <2>1 DEF Target, Finishing, Finished
  <2>5. Told(y)
    <3>1. y.status \notin {"in_progress", "scheduled"}
      BY <1>5, <2>1 DEF Target, Finishing
    <3>2. y.sessions = <<>> => act # "pause"
      BY <2>2, <2>3
    <3>3. y.status \in Finished => y.final = at
      BY <2>1, <2>4
    <3> QED BY <1>2, <1>5, <2>1, <2>2, <2>4, <3>1, <3>2, <3>3 DEF Told
  <2> QED BY <1>2, <1>5, <2>1, <2>2, <2>5, BegunStarts DEF Sound, Performs, ByTime, Starting, Finishing
<1> QED BY <1>3, <1>4, <1>5 DEF Kinds, Starting, Finishing

-----------------------------------------------------------------------------
(* One action, on the device and on the server.                             *)

\* The device performs an action its status allows.
LEMMA DonePerforms ==
    ASSUME NEW x, Sound(x), Live(x), NEW act \in Kinds, x.status \in Sources(act),
           NEW at \in 1 .. MaxTime, ByTime(x, at)
    PROVE  LET y == Done(x, act, at) IN
           /\ y \in Execution /\ y.version = x.version /\ Live(y)
           /\ Performs(x, y, act, at)
<1> DEFINE y == Done(x, act, at)
<1>1. /\ x \in Execution /\ x.sessions \in Seq(Session) /\ InOrder(x.sessions) /\ Told(x)
      /\ Before(x.sessions, at) /\ ~ x.deleted /\ Exists(x)
  BY DEF Sound, Execution, ByTime, Live
<1>2. at \in Instants /\ Unset \in Instants
  BY LifecycleAssumption DEF Instants, Unset
<1>3. CASE act \in Starting
  <2>1. ~ Running(x.sessions)
    BY <1>1, <1>3 DEF Told, Sources, Starting
  <2>2. Append(x.sessions, Begin(at)) \in Seq(Session)
    BY <1>1, <2>1, Opening
  <2>3. y = [x EXCEPT !.status = "in_progress", !.sessions = Append(x.sessions, Begin(at))]
    BY <1>3 DEF Done, Opened, Starting, Begin
  <2>4. x.final = Unset
    BY <1>1, <1>3 DEF Told, Sources, Starting, Finished
  <2>5. y \in Execution
    BY <1>1, <2>2, <2>3 DEF Execution, Pending
  <2> QED BY <1>1, <1>3, <2>3, <2>4, <2>5
      DEF Execution, Performs, Live, Exists, Starting, Finishing, Target
<1>4. CASE act \in {"pause"} \cup Finishing
  <2>1. Ended(x.sessions, at) \in Seq(Session)
    BY <1>1, Closing
  <2>2. /\ act = "pause" => y = [x EXCEPT !.status = "paused", !.sessions = Ended(x.sessions, at)]
        /\ act \in Finishing => y = [x EXCEPT !.status = Target(act), !.sessions = Ended(x.sessions, at), !.final = at]
    BY <1>4 DEF Done, Closed, Finishing, Target
  <2>3. act = "pause" => x.final = Unset
    BY <1>1 DEF Told, Sources, Finished
  <2>4. act \in Finishing => Target(act) \in Finished
    BY DEF Target, Finishing, Finished
  <2>5. y \in Execution
    BY <1>1, <1>2, <1>4, <2>1, <2>2, <2>4 DEF Execution, Pending
  <2>6. y.status = Target(act) /\ y.sessions = Ended(x.sessions, at) /\ y.version = x.version
        /\ y.deleted = x.deleted /\ y.placed = x.placed /\ y.rating = x.rating
        /\ y.final = IF act \in Finishing THEN at ELSE Unset
    BY <1>1, <1>4, <2>2, <2>3, ZenonT(60) DEF Execution, Target, Finishing
  <2>7. Exists(y)
    BY <1>4, <2>4, <2>6 DEF Exists, Finished, Target, Finishing
  <2> QED BY <1>1, <1>4, <2>5, <2>6, <2>7 DEF Performs, Live, Starting, Finishing
<1>5. CASE act = "reopen"
  <2>1. y = [x EXCEPT !.status = ReopenTarget(x.sessions # <<>>), !.final = Unset]
    BY <1>5 DEF Done
  <2> QED BY <1>1, <1>2, <1>5, <2>1
      DEF Execution, Performs, Live, Exists, Starting, Finishing, ReopenTarget, Pending
<1> QED BY <1>3, <1>4, <1>5 DEF Kinds, Starting, Finishing

\* What the device makes of a sound attempt is sound.
LEMMA DoneSound ==
    ASSUME NEW x, Sound(x), Live(x), NEW act \in Kinds, x.status \in Sources(act),
           NEW at \in 1 .. MaxTime, ByTime(x, at)
    PROVE  LET y == Done(x, act, at) IN
           /\ Sound(y) /\ ByTime(y, at) /\ Live(y) /\ y.placed = x.placed
           /\ y.status = IF act = "reopen" THEN ReopenTarget(x.sessions # <<>>) ELSE Target(act)
           /\ y.final = IF act \in Finishing THEN at ELSE Unset
           /\ Begun(y) = Begun(x) \cup (IF act \in Starting THEN {at} ELSE {})
<1> DEFINE y == Done(x, act, at)
<1>1. /\ y \in Execution /\ y.version = x.version /\ Live(y) /\ Performs(x, y, act, at)
  BY DonePerforms
<1>2. Exists(x) /\ x.version # 0 /\ Before(x.sessions, at)
  BY DEF Live, Sound, ByTime
<1> HIDE DEF y
<1>3. /\ Sound(y) /\ ByTime(y, at)
      /\ Begun(y) = Begun(x) \cup (IF act \in Starting THEN {at} ELSE {})
  BY <1>1, <1>2, PerformsSound
<1> QED BY <1>1, <1>3 DEF Performs, y

\* The server performs an action it does not refuse.
LEMMA AppliedPerforms ==
    ASSUME NEW x, Sound(x), Exists(x), NEW act \in Kinds,
           NEW at \in 1 .. MaxTime, ~ ActionRefused(x, act, at)
    PROVE  LET y == ActionApplied(x, act, at) IN
           /\ x.status \in Sources(act) /\ Before(x.sessions, at)
           /\ y \in Execution /\ y.version = x.version + 1
           /\ Performs(x, y, act, at)
<1> DEFINE y == ActionApplied(x, act, at)
<1>1. /\ x \in Execution /\ x.sessions \in Seq(Session) /\ InOrder(x.sessions) /\ Told(x)
      /\ x.version + 1 \in Nat /\ x.version + 1 # 0
  BY DEF Sound, Execution
<1>2. at \in Instants /\ Unset \in Instants /\ at \in Int /\ Open <= at
  BY LifecycleAssumption DEF Instants, Unset, Open
<1> HIDE DEF y
<1>3. x.status \in Sources(act)
  BY DEF ActionRefused
<1>4. Before(x.sessions, at)
  <2> SUFFICES ASSUME NEW i \in DOMAIN x.sessions
               PROVE  x.sessions[i].from <= at /\ x.sessions[i].to <= at
    BY DEF Before
  <2>1. x.sessions[i].from \in Int /\ x.sessions[i].to \in Int
    BY <1>1, SessionFacts
  <2>2. ~ (at < IF x.sessions[i].to = Open THEN x.sessions[i].from ELSE x.sessions[i].to)
    BY DEF ActionRefused
  <2> QED BY <1>1, <1>2, <2>1, <2>2 DEF InOrder
<1>5. CASE act \in Starting
  <2>1. ~ Running(x.sessions)
    BY <1>1, <1>3, <1>5 DEF Told, Sources, Starting
  <2>2. Append(x.sessions, Begin(at)) \in Seq(Session)
    BY <1>1, <1>4, <2>1, Opening
  <2>3. y = [x EXCEPT !.status = "in_progress", !.sessions = Append(x.sessions, Begin(at)),
                      !.version = x.version + 1]
    BY <1>1, <1>5 DEF y, ActionApplied, Starting, Begin, Target, Execution
  <2>4. x.final = Unset
    BY <1>1, <1>3, <1>5 DEF Told, Sources, Starting, Finished
  <2>5. y \in Execution
    BY <1>1, <2>2, <2>3 DEF Execution, Pending
  <2>6. Performs(x, y, act, at) /\ y.version = x.version + 1
    BY <1>1, <1>5, <2>3, <2>4, <2>5
    DEF Execution, Performs, Exists, Starting, Finishing, Target
  <2> QED BY <1>3, <1>4, <2>5, <2>6 DEF y
<1>6. CASE act \in {"pause"} \cup Finishing
  <2>1. Ended(x.sessions, at) \in Seq(Session)
    BY <1>1, <1>4, Closing
  <2>2. act = "pause" => x.final = Unset
    BY <1>1, <1>3 DEF Told, Sources, Finished
  <2>3. y = [x EXCEPT !.status = Target(act), !.sessions = Ended(x.sessions, at),
                      !.final = IF act \in Finishing THEN at ELSE Unset, !.version = x.version + 1]
    BY <1>1, <1>6, <2>2 DEF y, ActionApplied, Finishing, Execution
  <2>4. Target(act) \in {"paused"} \cup Finished
    BY <1>6 DEF Target, Finishing, Finished
  <2>5. y \in Execution
    BY <1>1, <1>2, <2>1, <2>3, <2>4 DEF Execution, Pending
  <2>6. Performs(x, y, act, at) /\ y.version = x.version + 1
    BY <1>1, <1>6, <2>3, <2>4, <2>5
    DEF Execution, Performs, Exists, Starting, Finishing, Finished
  <2> QED BY <1>3, <1>4, <2>5, <2>6 DEF y
<1>7. CASE act = "reopen"
  <2>1. Ended(x.sessions, at) = x.sessions
    <3>1. ~ Running(x.sessions)
      BY <1>1, <1>3, <1>7 DEF Told, Sources
    <3> QED BY <1>1, <1>4, <3>1, Closing
  <2>2. y = [x EXCEPT !.status = ReopenTarget(x.sessions # <<>>), !.sessions = x.sessions,
                      !.final = Unset, !.version = x.version + 1]
    BY <1>1, <1>7, <2>1 DEF y, ActionApplied, Execution
  <2>3. ReopenTarget(x.sessions # <<>>) \in {"paused", "scheduled"}
    BY DEF ReopenTarget
  <2>4. y \in Execution
    BY <1>1, <1>2, <2>2, <2>3 DEF Execution, Pending
  <2>5. Performs(x, y, act, at) /\ y.version = x.version + 1
    BY <1>1, <1>7, <2>2, <2>3, <2>4 DEF Execution, Performs, Exists, Starting, Finishing
  <2> QED BY <1>3, <1>4, <2>4, <2>5 DEF y
<1> QED BY <1>5, <1>6, <1>7 DEF y, Kinds, Starting, Finishing

-----------------------------------------------------------------------------
(* Several operations.                                                      *)

\* An operation at a time that is not after t.
Timely(op, t) ==
    \/ op.kind \in Kinds /\ op.at \in 1 .. t
    \/ op.kind = "feedback" /\ op.at \in 0 .. 1

\* The status and the finishing time an operation leaves.
StatusBy(x, kind) ==
    CASE kind = "feedback" -> x.status
      [] kind = "reopen" -> ReopenTarget(x.sessions # <<>>)
      [] OTHER -> Target(kind)
FinalBy(x, kind, at) ==
    IF kind = "feedback" THEN x.final ELSE IF kind \in Finishing THEN at ELSE Unset

\* A refused group leaves nothing that could be an attempt.
LEMMA SoundNotRefused == ASSUME NEW x, Sound(x) PROVE x # Refused
<1>1. x.version \in Nat
  BY DEF Sound, Execution
<1>2. Refused.version = -1
  BY DEF Refused, Absent
<1> QED BY <1>1, <1>2

\* What is before a time is before a later one.
LEMMA Earlier ==
    ASSUME NEW s \in Seq(Session), NEW m \in Nat, NEW n \in Nat, m <= n, Before(s, m)
    PROVE  Before(s, n)
BY SessionFacts DEF Before

\* An operation the server does not refuse leaves a sound attempt, of the version after its base.
LEMMA AppliedSound ==
    ASSUME NEW t \in 0 .. MaxTime, NEW x, Sound(x), Exists(x), ByTime(x, t),
           NEW op, Timely(op, t), Applied(x, op) # Refused
    PROVE  LET y == Applied(x, op) IN
           /\ ~ x.deleted /\ x.version = op.base
           /\ Sound(y) /\ Exists(y) /\ ByTime(y, t) /\ y.version = x.version + 1
           /\ ~ y.deleted /\ y.placed = x.placed
           /\ Begun(y) = Begun(x) \cup (IF op.kind \in Starting THEN {op.at} ELSE {})
           /\ y.status = StatusBy(x, op.kind) /\ y.final = FinalBy(x, op.kind, op.at)
<1> DEFINE y == Applied(x, op)
<1>1. ~ x.deleted /\ x.version = op.base
  BY DEF Applied
<1>2. x \in Execution /\ InOrder(x.sessions) /\ Told(x) /\ x.version # 0
  BY DEF Sound
<1>3. x.version \in Nat /\ x.version + 1 \in Nat /\ x.version + 1 # 0 /\ x.sessions \in Seq(Session)
      /\ x.deleted \in BOOLEAN
  BY <1>2 DEF Execution
<1>4. CASE op.kind = "feedback"
  <2>1. y = [x EXCEPT !.rating = op.at, !.version = x.version + 1]
    BY <1>1, <1>2, <1>4, SoundNotRefused DEF Applied, Execution
  <2> HIDE DEF y
  <2>2. op.at \in 0 .. 1
    BY <1>4 DEF Timely, Kinds
  <2>3. y \in Execution
    BY <1>2, <1>3, <2>1, <2>2 DEF Execution
  <2>4. /\ y.status = x.status /\ y.sessions = x.sessions /\ y.final = x.final
        /\ y.placed = x.placed /\ y.deleted = x.deleted /\ y.version = x.version + 1
    BY <1>2, <2>1 DEF Execution
  <2>5. Told(y)
    BY <1>2, <2>4 DEF Told
  <2> QED BY <1>1, <1>2, <1>3, <1>4, <2>3, <2>4, <2>5
      DEF Sound, Exists, ByTime, Begun, StatusBy, FinalBy, Starting, y
<1>5. CASE op.kind \in Kinds
  <2>1. op.kind # "feedback" /\ op.at \in 1 .. t /\ op.at \in 1 .. MaxTime
    BY <1>5, LifecycleAssumption DEF Kinds, Timely
  <2>2. ~ ActionRefused(x, op.kind, op.at) /\ y = ActionApplied(x, op.kind, op.at)
    BY <2>1 DEF Applied
  <2> HIDE DEF y
  <2>3. /\ x.status \in Sources(op.kind) /\ Before(x.sessions, op.at)
        /\ y \in Execution /\ y.version = x.version + 1
        /\ Performs(x, y, op.kind, op.at)
    BY <1>5, <2>1, <2>2, AppliedPerforms
  <2>4. /\ Sound(y) /\ ByTime(y, op.at)
        /\ Begun(y) = Begun(x) \cup (IF op.kind \in Starting THEN {op.at} ELSE {})
    BY <1>3, <1>5, <2>1, <2>3, PerformsSound
  <2>5. ByTime(y, t)
    <3>1. y.sessions \in Seq(Session) /\ y.final \in Nat
      BY <2>3, LifecycleAssumption DEF Execution, Instants
    <3>2. op.at \in Nat /\ t \in Nat /\ op.at <= t
      BY <2>1
    <3> QED BY <2>4, <3>1, <3>2, Earlier DEF ByTime
  <2>6. y.status = StatusBy(x, op.kind) /\ y.final = FinalBy(x, op.kind, op.at)
    BY <1>5, <2>1, <2>3 DEF Performs, StatusBy, FinalBy
  <2> QED BY <1>1, <2>3, <2>4, <2>5, <2>6 DEF Performs, y
<1> QED BY <1>4, <1>5 DEF Timely

\* f holds what the first n operations make of x, for every n up to m.
Steps(f, x, ops, m) ==
    f = [n \in 0 .. m |-> IF n = 0 THEN x ELSE Applied(f[n - 1], ops[n])]

\* Operations can be applied one after the other, however many there are.
LEMMA StepsExists ==
    ASSUME NEW x, NEW ops, NEW m \in Nat
    PROVE  \E f : Steps(f, x, ops, m)
<1> DEFINE None == {k \in Nat : ~ \E f : Steps(f, x, ops, k)}
<1>1. SUFFICES ASSUME None # {} PROVE FALSE
  OBVIOUS
<1>2. PICK k \in None : \A n \in None : k <= n
  BY <1>1, LeastNumber
<1>3. k # 0
  <2> DEFINE f == [n \in 0 .. 0 |-> x]
  <2>1. Steps(f, x, ops, 0)
    BY DEF Steps
  <2> QED BY <1>2, <2>1
<1>4. PICK f : Steps(f, x, ops, k - 1)
  BY <1>2, <1>3
<1> DEFINE g == [n \in 0 .. k |-> IF n = 0 THEN x ELSE Applied(f[n - 1], ops[n])]
<1> DEFINE G(n) == IF n = 0 THEN x ELSE Applied(g[n - 1], ops[n])
<1>5. k \in Nat \ {0}
  BY <1>2, <1>3
<1>6. \A n \in 0 .. k - 1 : g[n] = f[n]
  BY <1>4, <1>5 DEF Steps
<1>7. \A n \in 0 .. k : g[n] = G(n)
  <2> TAKE n \in 0 .. k
  <2>1. CASE n = 0
    BY <1>5, <2>1
  <2>2. CASE n # 0
    <3>1. n - 1 \in 0 .. k - 1
      BY <1>5, <2>2
    <3>2. g[n - 1] = f[n - 1]
      BY <1>6, <3>1
    <3> QED BY <2>2, <3>2
  <2> QED BY <2>1, <2>2
<1>8. Steps(g, x, ops, k)
  <2>1. g = [i \in 0 .. k |-> g[i]]
    OBVIOUS
  <2>2. g = [n \in 0 .. k |-> G(n)]
    <3> HIDE DEF g
    <3> QED BY <1>7, <2>1
  <2> HIDE DEF g
  <2> QED BY <2>2 DEF Steps
<1> QED BY <1>2, <1>8

\* AppliedAll is the last of those states.
LEMMA AppliedAllSteps ==
    ASSUME NEW x, NEW ops, Len(ops) \in Nat
    PROVE  \E f : Steps(f, x, ops, Len(ops)) /\ AppliedAll(x, ops) = f[Len(ops)]
<1> DEFINE f == CHOOSE f : Steps(f, x, ops, Len(ops))
<1>1. Steps(f, x, ops, Len(ops))
  BY StepsExists
<1>2. AppliedAll(x, ops) = f[Len(ops)]
  BY DEF AppliedAll, Steps
<1> QED BY <1>1, <1>2

\* A group that is not refused has no refused operation in it.
LEMMA NoneRefused ==
    ASSUME NEW x, NEW ops, Len(ops) \in Nat, NEW f, Steps(f, x, ops, Len(ops)), f[Len(ops)] # Refused
    PROVE  \A n \in 0 .. Len(ops) : f[n] # Refused
<1> DEFINE L == Len(ops)
           Back == {k \in 0 .. L : f[L - k] = Refused}
<1>1. SUFFICES ASSUME Back # {} PROVE FALSE
  <2> SUFFICES ASSUME NEW n \in 0 .. L, f[n] = Refused PROVE L - n \in Back
    BY <1>1
  <2> QED BY SMT
<1>2. Back \in SUBSET Nat
  OBVIOUS
<1>3. PICK k \in Back : \A i \in Back : k <= i
  <2> HIDE DEF Back
  <2> QED BY <1>1, <1>2, LeastNumber
<1>4. k \in 0 .. L /\ f[L - k] = Refused /\ k # 0
  BY <1>3
<1>5. PICK n \in 0 .. L - 1 : n = L - k /\ n + 1 = L - (k - 1)
  <2>1. L \in Nat
    OBVIOUS
  <2> HIDE DEF L
  <2>2. L - k \in 0 .. L - 1 /\ (L - k) + 1 = L - (k - 1)
    BY <1>4, <2>1
  <2> QED BY <2>2
<1>6. f[n + 1] = Applied(f[n], ops[n + 1])
  BY <1>5, SMTT(60) DEF Steps
<1>7. f[n + 1] = Refused
  BY <1>4, <1>5, <1>6 DEF Applied
<1>8. k - 1 \in 0 .. L /\ ~ (k <= k - 1)
  BY <1>4
<1>9. k - 1 \in Back
  BY <1>5, <1>7, <1>8
<1> QED BY <1>3, <1>8, <1>9

\* y is what the first n operations make of x.
OnTheWay(y, x, ops, n, t) ==
    /\ Sound(y) /\ Exists(y) /\ ByTime(y, t)
    /\ y.version = x.version + n /\ y.placed = x.placed /\ y.deleted = x.deleted
    /\ Begun(y) = Begun(x) \cup {ops[i].at : i \in {k \in 1 .. n : ops[k].kind \in Starting}}

\* One operation more leaves a sound attempt on the way.
LEMMA OneStepOn ==
    ASSUME NEW t \in 0 .. MaxTime, NEW x, x.version \in Nat, NEW ops, NEW n \in Nat,
           NEW y, OnTheWay(y, x, ops, n, t), Timely(ops[n + 1], t), Applied(y, ops[n + 1]) # Refused
    PROVE  LET z == Applied(y, ops[n + 1]) IN
           /\ OnTheWay(z, x, ops, n + 1, t) /\ ~ x.deleted
           /\ ops[n + 1].base = x.version + n /\ z.status = StatusBy(y, ops[n + 1].kind)
<1> DEFINE op == ops[n + 1]
           z == Applied(y, op)
<1>1. Sound(y) /\ Exists(y) /\ ByTime(y, t) /\ Timely(op, t) /\ z # Refused
  BY DEF OnTheWay
<1>2. /\ ~ y.deleted /\ y.version = op.base
      /\ Sound(z) /\ Exists(z) /\ ByTime(z, t) /\ z.version = y.version + 1
      /\ ~ z.deleted /\ z.placed = y.placed
      /\ Begun(z) = Begun(y) \cup (IF op.kind \in Starting THEN {op.at} ELSE {})
      /\ z.status = StatusBy(y, op.kind)
  <2> HIDE DEF op
  <2> QED BY <1>1, AppliedSound
<1> HIDE DEF z
<1>3. z.deleted = y.deleted
  <2>1. z.deleted \in BOOLEAN /\ y.deleted \in BOOLEAN
    BY <1>1, <1>2 DEF Sound, Execution
  <2> QED BY <1>2, <2>1
<1>4. z.version = x.version + (n + 1)
  BY <1>2 DEF OnTheWay
<1>5. Begun(z) = Begun(x) \cup {ops[i].at : i \in {k \in 1 .. n + 1 : ops[k].kind \in Starting}}
  <2>1. Begun(y) = Begun(x) \cup {ops[i].at : i \in {k \in 1 .. n : ops[k].kind \in Starting}}
    BY DEF OnTheWay
  <2>2. 1 .. n + 1 = (1 .. n) \cup {n + 1}
    OBVIOUS
  <2> QED BY <1>2, <2>1, <2>2, Zenon
<1>6. OnTheWay(z, x, ops, n + 1, t)
  BY <1>2, <1>3, <1>4, <1>5 DEF OnTheWay
<1> QED BY <1>2, <1>6 DEF z, OnTheWay

\* Every state on the way is sound, and every operation has the base version of its state.
LEMMA StepsSound ==
    ASSUME NEW t \in 0 .. MaxTime, NEW x, Sound(x), Exists(x), ByTime(x, t),
           NEW ops, Len(ops) \in Nat, \A i \in 1 .. Len(ops) : Timely(ops[i], t),
           NEW f, Steps(f, x, ops, Len(ops)), f[Len(ops)] # Refused
    PROVE  /\ \A n \in 0 .. Len(ops) : OnTheWay(f[n], x, ops, n, t)
           /\ f[0] = x
           /\ \A n \in 0 .. Len(ops) - 1 : /\ ops[n + 1].base = x.version + n /\ ~ x.deleted
                                           /\ f[n + 1].status = StatusBy(f[n], ops[n + 1].kind)
<1> DEFINE L == Len(ops)
           Off == {n \in 0 .. L : ~ OnTheWay(f[n], x, ops, n, t)}
<1>0. x.version \in Nat
  BY DEF Sound, Execution
<1>1. f[0] = x /\ \A n \in 0 .. L - 1 : f[n + 1] = Applied(f[n], ops[n + 1])
  BY DEF Steps
<1>2. \A n \in 0 .. L : f[n] # Refused
  BY NoneRefused
<1>3. OnTheWay(f[0], x, ops, 0, t)
  <2>1. {ops[i].at : i \in {k \in 1 .. 0 : ops[k].kind \in Starting}} = {}
    OBVIOUS
  <2> QED BY <1>0, <1>1, <2>1 DEF OnTheWay
<1>4. ASSUME NEW n \in 0 .. L - 1, OnTheWay(f[n], x, ops, n, t)
      PROVE  /\ OnTheWay(f[n + 1], x, ops, n + 1, t)
             /\ ops[n + 1].base = x.version + n /\ ~ x.deleted
             /\ f[n + 1].status = StatusBy(f[n], ops[n + 1].kind)
  <2>1. n \in Nat /\ n + 1 \in 1 .. L /\ n + 1 \in 0 .. L
    OBVIOUS
  <2>2. f[n + 1] = Applied(f[n], ops[n + 1]) /\ Applied(f[n], ops[n + 1]) # Refused /\ Timely(ops[n + 1], t)
    BY <1>1, <1>2, <2>1
  <2> QED BY <1>0, <1>4, <2>1, <2>2, OneStepOn
<1>5. Off = {}
  <2> SUFFICES ASSUME Off # {} PROVE FALSE
    OBVIOUS
  <2>1. Off \in SUBSET Nat
    OBVIOUS
  <2>2. PICK k \in Off : \A i \in Off : k <= i
    <3> HIDE DEF Off
    <3> QED BY <2>1, LeastNumber
  <2>3. k \in 0 .. L /\ k # 0 /\ ~ OnTheWay(f[k], x, ops, k, t)
    BY <1>3, <2>2
  <2>4. PICK n \in 0 .. L - 1 : k = n + 1 /\ ~ (k <= n) /\ n \in 0 .. L
    BY <2>3
  <2>5. OnTheWay(f[n], x, ops, n, t)
    BY <2>2, <2>4
  <2> QED BY <1>4, <2>3, <2>4, <2>5
<1>6. \A n \in 0 .. L : OnTheWay(f[n], x, ops, n, t)
  BY <1>5
<1>7. \A n \in 0 .. L - 1 : n \in 0 .. L
  OBVIOUS
<1> HIDE DEF L
<1> QED BY <1>1, <1>4, <1>6, <1>7 DEF L

\* A group that is not refused leaves a sound attempt, and its first base version is the record's.
LEMMA AppliedAllSound ==
    ASSUME NEW t \in 0 .. MaxTime, NEW x, Sound(x), Exists(x), ByTime(x, t),
           NEW ops, Len(ops) \in Nat, \A i \in 1 .. Len(ops) : Timely(ops[i], t),
           AppliedAll(x, ops) # Refused
    PROVE  /\ OnTheWay(AppliedAll(x, ops), x, ops, Len(ops), t)
           /\ Len(ops) # 0 => ~ x.deleted /\ ops[1].base = x.version
<1>1. PICK f : Steps(f, x, ops, Len(ops)) /\ AppliedAll(x, ops) = f[Len(ops)]
  BY AppliedAllSteps
<1>2. f[Len(ops)] # Refused
  BY <1>1
<1>3. /\ \A n \in 0 .. Len(ops) : OnTheWay(f[n], x, ops, n, t)
      /\ \A n \in 0 .. Len(ops) - 1 : ops[n + 1].base = x.version + n /\ ~ x.deleted
  BY <1>1, <1>2, StepsSound, SMT
<1>4. /\ Len(ops) \in 0 .. Len(ops)
      /\ Len(ops) # 0 => 0 \in 0 .. Len(ops) - 1 /\ 0 + 1 = 1
      /\ x.version + 0 = x.version
  BY DEF Sound, Execution
<1> QED BY <1>1, <1>3, <1>4, Zenon

-----------------------------------------------------------------------------
(* The actions that rebuild the device's sessions on the server.            *)

Begins(s) == {s[i].at : i \in {k \in 1 .. Len(s) : s[k].kind \in Starting}}
Change(t) == [kind : Kinds \ {"reopen"}, at : 1 .. t]

\* The sessions two messages begin are those of either.
LEMMA BeginsConcat ==
    ASSUME NEW S, NEW a \in Seq(S), NEW b \in Seq(S)
    PROVE  Begins(a \o b) = Begins(a) \cup Begins(b)
<1> DEFINE c == a \o b
<1>1. /\ Len(c) = Len(a) + Len(b) /\ Len(a) \in Nat /\ Len(b) \in Nat
      /\ \A i \in 1 .. Len(a) + Len(b) : c[i] = IF i <= Len(a) THEN a[i] ELSE b[i - Len(a)]
  BY ConcatProperties, LenProperties
<1> HIDE DEF c
<1>2. ASSUME NEW v \in Begins(c) PROVE v \in Begins(a) \cup Begins(b)
  BY <1>1, <1>2 DEF Begins
<1>3. ASSUME NEW v \in Begins(a) PROVE v \in Begins(c)
  <2>1. PICK k \in 1 .. Len(a) : v = a[k].at /\ a[k].kind \in Starting
    BY <1>3 DEF Begins
  <2>2. k \in 1 .. Len(c) /\ c[k] = a[k]
    BY <1>1
  <2> QED BY <2>1, <2>2 DEF Begins
<1>4. ASSUME NEW v \in Begins(b) PROVE v \in Begins(c)
  <2>1. PICK k \in 1 .. Len(b) : v = b[k].at /\ b[k].kind \in Starting
    BY <1>4 DEF Begins
  <2>2. Len(a) + k \in 1 .. Len(c) /\ ~ (Len(a) + k <= Len(a)) /\ (Len(a) + k) - Len(a) = k
    BY <1>1
  <2>3. c[Len(a) + k] = b[k]
    BY <1>1, <2>2
  <2> QED BY <2>1, <2>2, <2>3 DEF Begins
<1> QED BY <1>2, <1>3, <1>4 DEF c

\* One operation begins a session, if it starts or resumes.
LEMMA BeginsOne ==
    ASSUME NEW c
    PROVE  Begins(<<c>>) = IF c.kind \in Starting THEN {c.at} ELSE {}
BY DEF Begins

\* No operation begins none.
LEMMA BeginsNone == Begins(<<>>) = {}
BY DEF Begins

\* Closing a session takes one change, which begins nothing.
LEMMA CloseFacts ==
    ASSUME NEW t \in 0 .. MaxTime, NEW mine, Sound(mine), ByTime(mine, t),
           NEW i \in DOMAIN mine.sessions, mine.sessions[i].to # Open
    PROVE  /\ Close(mine, i) \in Seq(Change(t)) /\ Len(Close(mine, i)) = 1
           /\ Begins(Close(mine, i)) = {}
<1>1. mine.sessions \in Seq(Session)
  BY DEF Sound, Execution
<1>2. mine.sessions[i].to \in 1 .. t
  BY <1>1, SessionFacts DEF ByTime, Before, Open
<1>3. PICK kind \in Finishing \cup {"pause"} : Close(mine, i) = <<[kind |-> kind, at |-> mine.sessions[i].to]>>
  BY DEF Close, Verb, Finishing
<1>4. [kind |-> kind, at |-> mine.sessions[i].to] \in Change(t)
  BY <1>2, <1>3 DEF Change, Kinds, Finishing
<1>5. kind \notin Starting
  BY <1>3 DEF Starting, Finishing
<1> DEFINE c == [kind |-> kind, at |-> mine.sessions[i].to]
<1>6. c.kind \notin Starting
  BY <1>5
<1>7. Close(mine, i) = <<c>> /\ c \in Change(t)
  BY <1>3, <1>4
<1> HIDE DEF c
<1>8. <<c>> \in Seq(Change(t)) /\ Len(<<c>>) = 1
  BY <1>7
<1>9. Begins(<<c>>) = {}
  BY <1>6, BeginsOne
<1> QED BY <1>7, <1>8, <1>9

\* What is sent of one session: its beginning, if the server lacks it, and its end.
LEMMA SessionActionsFacts ==
    ASSUME NEW t \in 0 .. MaxTime, NEW mine, Sound(mine), ByTime(mine, t),
           NEW remote, Len(remote.sessions) \in Nat,
           NEW i \in DOMAIN mine.sessions
    PROVE  LET s == SessionActions(remote, mine, i) IN
           /\ s \in Seq(Change(t))
           /\ Begins(s) = IF i > Len(remote.sessions) THEN {mine.sessions[i].from} ELSE {}
           /\ i > Len(remote.sessions) => s # <<>>
<1> DEFINE begin == [kind |-> IF i = 1 /\ Base(remote, mine) = "scheduled" THEN "start" ELSE "resume",
                     at |-> mine.sessions[i].from]
           rest == IF mine.sessions[i].to # Open THEN Close(mine, i) ELSE <<>>
           s == SessionActions(remote, mine, i)
<1>1. mine.sessions \in Seq(Session)
  BY DEF Sound, Execution
<1>2. rest \in Seq(Change(t)) /\ Begins(rest) = {}
  BY CloseFacts, BeginsNone, EmptySeq
<1>3. CASE i > Len(remote.sessions)
  <2>1. s = <<begin>> \o rest
    BY <1>3 DEF SessionActions
  <2>2. mine.sessions[i].from \in 1 .. t
    BY <1>1, SessionFacts DEF ByTime, Before
  <2>3. begin \in Change(t) /\ begin.kind \in Starting /\ begin.at = mine.sessions[i].from
    BY <2>2 DEF Change, Kinds, Starting
  <2> HIDE DEF begin, rest
  <2> DEFINE b == <<begin>>
  <2>4. b \in Seq(Change(t)) /\ Len(b) = 1 /\ s = b \o rest
    BY <2>1, <2>3
  <2>5. s \in Seq(Change(t)) /\ Len(s) = 1 + Len(rest) /\ Len(rest) \in Nat
    BY <1>2, <2>4, ConcatProperties, LenProperties
  <2>6. Begins(s) = {mine.sessions[i].from}
    <3>1. Begins(b) = {mine.sessions[i].from}
      BY <2>3, BeginsOne
    <3>2. Begins(s) = Begins(b) \cup Begins(rest)
      <4> HIDE DEF s, b
      <4>1. rest \in Seq(Change(t)) /\ b \in Seq(Change(t)) /\ s = b \o rest
        BY <1>2, <2>4
      <4>2. Begins(b \o rest) = Begins(b) \cup Begins(rest)
        BY <4>1, BeginsConcat
      <4> QED BY <4>1, <4>2
    <3> QED BY <1>2, <3>1, <3>2
  <2>7. s # <<>>
    BY <2>5, EmptySeq
  <2> QED BY <1>3, <2>5, <2>6, <2>7
<1>4. CASE ~ (i > Len(remote.sessions))
  <2>1. s = IF remote.sessions[i].to = Open /\ mine.sessions[i].to # Open THEN Close(mine, i) ELSE <<>>
    BY <1>4 DEF SessionActions
  <2> QED BY <1>4, <2>1, CloseFacts, BeginsNone, EmptySeq
<1> QED BY <1>3, <1>4

\* f holds the actions that turn the server's sessions into the first n of mine, for every n up to m.
Further(w, remote, mine, n) == w \o SessionActions(remote, mine, n)
Recalls(f, remote, mine, m) ==
    f = [n \in 0 .. m |-> IF n = 0 THEN <<>> ELSE Further(f[n - 1], remote, mine, n)]

\* The sessions can be gone through one after the other, however many there are.
LEMMA RecallsExists ==
    ASSUME NEW remote, NEW mine, NEW m \in Nat
    PROVE  \E f : Recalls(f, remote, mine, m)
<1> DEFINE None == {k \in Nat : ~ \E f : Recalls(f, remote, mine, k)}
<1>1. SUFFICES ASSUME None # {} PROVE FALSE
  OBVIOUS
<1>2. PICK k \in None : \A n \in None : k <= n
  BY <1>1, LeastNumber
<1>3. k # 0
  <2> DEFINE f == [n \in 0 .. 0 |-> <<>>]
  <2>1. Recalls(f, remote, mine, 0)
    BY DEF Recalls
  <2> QED BY <1>2, <2>1
<1>4. PICK f : Recalls(f, remote, mine, k - 1)
  BY <1>2, <1>3
<1> DEFINE g == [n \in 0 .. k |-> IF n = 0 THEN <<>> ELSE Further(f[n - 1], remote, mine, n)]
<1> DEFINE G(n) == IF n = 0 THEN <<>> ELSE Further(g[n - 1], remote, mine, n)
<1>5. k \in Nat \ {0}
  BY <1>2, <1>3
<1>6. \A n \in 0 .. k - 1 : g[n] = f[n]
  BY <1>4, <1>5 DEF Recalls
<1>7. \A n \in 0 .. k : g[n] = G(n)
  <2> TAKE n \in 0 .. k
  <2>1. CASE n = 0
    BY <1>5, <2>1
  <2>2. CASE n # 0
    <3>1. n - 1 \in 0 .. k - 1
      BY <1>5, <2>2
    <3>2. g[n - 1] = f[n - 1]
      BY <1>6, <3>1
    <3> QED BY <2>2, <3>2
  <2> QED BY <2>1, <2>2
<1>8. Recalls(g, remote, mine, k)
  <2>1. g = [i \in 0 .. k |-> g[i]]
    OBVIOUS
  <2>2. g = [n \in 0 .. k |-> G(n)]
    <3> HIDE DEF g
    <3> QED BY <1>7, <2>1
  <2> HIDE DEF g
  <2> QED BY <2>2 DEF Recalls
<1> QED BY <1>2, <1>8

\* Work is what has been collected after the last of them.
LEMMA WorkRecalls ==
    ASSUME NEW remote, NEW mine, Len(mine.sessions) \in Nat
    PROVE  \E f : Recalls(f, remote, mine, Len(mine.sessions)) /\ Work(remote, mine) = f[Len(mine.sessions)]
<1> DEFINE f == CHOOSE f : Recalls(f, remote, mine, Len(mine.sessions))
<1>1. Recalls(f, remote, mine, Len(mine.sessions))
  BY RecallsExists
<1>2. Work(remote, mine) = f[Len(mine.sessions)]
  BY DEF Work, Recalls, Further
<1> QED BY <1>1, <1>2


\* w rebuilds the first n sessions of mine, of which the server has the first r.
Rebuilds(w, mine, r, n, t) ==
    /\ w \in Seq(Change(t))
    /\ Begins(w) = {mine.sessions[i].from : i \in {k \in 1 .. n : k > r}}
    /\ w = <<>> => n <= r

\* One session more is rebuilt.
LEMMA RebuildsMore ==
    ASSUME NEW t \in 0 .. MaxTime, NEW mine, Sound(mine), ByTime(mine, t),
           NEW remote, Len(remote.sessions) \in Nat,
           NEW n \in Nat, n + 1 \in DOMAIN mine.sessions,
           NEW w, Rebuilds(w, mine, Len(remote.sessions), n, t)
    PROVE  Rebuilds(Further(w, remote, mine, n + 1), mine, Len(remote.sessions), n + 1, t)
<1> DEFINE r == Len(remote.sessions)
           s == SessionActions(remote, mine, n + 1)
           u == Further(w, remote, mine, n + 1)
<1>1. /\ s \in Seq(Change(t)) /\ w \in Seq(Change(t))
      /\ Begins(s) = IF n + 1 > r THEN {mine.sessions[n + 1].from} ELSE {}
      /\ n + 1 > r => s # <<>>
  BY SessionActionsFacts DEF Rebuilds
<1>0. u = w \o s
  BY DEF Further
<1> HIDE DEF s, u
<1>2. u \in Seq(Change(t)) /\ Begins(u) = Begins(w) \cup Begins(s)
  BY <1>0, <1>1, ConcatProperties, BeginsConcat
<1>3. u = <<>> => w = <<>> /\ s = <<>>
  <2>1. Len(u) = Len(w) + Len(s) /\ Len(w) \in Nat /\ Len(s) \in Nat
    BY <1>0, <1>1, ConcatProperties, LenProperties
  <2>2. u = <<>> => Len(u) = 0
    BY EmptySeq
  <2>3. u = <<>> => Len(w) = 0 /\ Len(s) = 0
    <3> HIDE DEF u
    <3> QED BY <2>1, <2>2
  <2> QED BY <1>1, <2>3, EmptySeq
<1>4. u = <<>> => n + 1 <= r
  BY <1>1, <1>3
<1>5. Begins(u) = {mine.sessions[i].from : i \in {k \in 1 .. n + 1 : k > r}}
  <2>1. Begins(w) = {mine.sessions[i].from : i \in {k \in 1 .. n : k > r}}
    BY DEF Rebuilds
  <2>2. CASE n + 1 > r
    <3>1. {k \in 1 .. n + 1 : k > r} = {k \in 1 .. n : k > r} \cup {n + 1}
      BY <2>2
    <3>2. Begins(u) = {mine.sessions[i].from : i \in {k \in 1 .. n : k > r}} \cup {mine.sessions[n + 1].from}
      BY <1>1, <1>2, <2>1, <2>2
    <3> HIDE DEF u, r
    <3> QED BY <3>1, <3>2
  <2>3. CASE ~ (n + 1 > r)
    <3>1. {k \in 1 .. n + 1 : k > r} = {k \in 1 .. n : k > r}
      BY <2>3
    <3> HIDE DEF u, r
    <3> QED BY <1>1, <1>2, <2>1, <2>3, <3>1
  <2> QED BY <2>2, <2>3
<1> QED BY <1>2, <1>4, <1>5 DEF Rebuilds, s, u

\* Work begins the very sessions the server lacks.
LEMMA WorkRebuilds ==
    ASSUME NEW t \in 0 .. MaxTime, NEW mine, Sound(mine), ByTime(mine, t),
           NEW remote, Len(remote.sessions) \in Nat
    PROVE  Rebuilds(Work(remote, mine), mine, Len(remote.sessions), Len(mine.sessions), t)
<1> DEFINE L == Len(mine.sessions)
           r == Len(remote.sessions)
<1>1. L \in Nat /\ DOMAIN mine.sessions = 1 .. L
  BY SessionFacts DEF Sound, Execution
<1>2. PICK f : Recalls(f, remote, mine, L) /\ Work(remote, mine) = f[L]
  BY <1>1, WorkRecalls
<1>3. f[0] = <<>> /\ \A n \in 0 .. L - 1 : f[n + 1] = Further(f[n], remote, mine, n + 1)
  <2>1. 0 \in 0 .. L /\ \A n \in 0 .. L - 1 : n + 1 \in 0 .. L /\ n + 1 # 0 /\ (n + 1) - 1 = n
    BY <1>1
  <2> HIDE DEF L
  <2>2. \A n \in 0 .. L : f[n] = IF n = 0 THEN <<>> ELSE Further(f[n - 1], remote, mine, n)
    BY <1>2 DEF Recalls
  <2> QED BY <2>1, <2>2
<1>4. Rebuilds(f[0], mine, r, 0, t)
  <2>1. {mine.sessions[i].from : i \in {k \in 1 .. 0 : k > r}} = {}
    OBVIOUS
  <2> QED BY <1>3, <2>1, BeginsNone, EmptySeq DEF Rebuilds
<1> DEFINE Off == {n \in 0 .. L : ~ Rebuilds(f[n], mine, r, n, t)}
<1>5. Off = {}
  <2> SUFFICES ASSUME Off # {} PROVE FALSE
    OBVIOUS
  <2>1. Off \in SUBSET Nat
    OBVIOUS
  <2>2. PICK k \in Off : \A i \in Off : k <= i
    <3> HIDE DEF Off
    <3> QED BY <2>1, LeastNumber
  <2>3. k \in 0 .. L /\ k # 0 /\ ~ Rebuilds(f[k], mine, r, k, t)
    BY <1>4, <2>2
  <2>4. PICK n \in 0 .. L - 1 : k = n + 1 /\ ~ (k <= n) /\ n \in 0 .. L
    BY <1>1, <2>3
  <2>5. Rebuilds(f[n], mine, r, n, t)
    BY <2>2, <2>4
  <2>6. n \in Nat /\ n + 1 \in DOMAIN mine.sessions
    BY <1>1
  <2>7. Rebuilds(f[n + 1], mine, r, n + 1, t)
    BY <1>3, <2>5, <2>6, RebuildsMore
  <2> QED BY <2>3, <2>4, <2>7
<1> QED BY <1>1, <1>2, <1>5

-----------------------------------------------------------------------------
(* Operations whose base versions count up from the record's.              *)

\* What an author who knows x writes for the changes c, and what it makes of x.
Replay(x, c) == AppliedAll(x, Numbered(c, x.version))
Message(t) == [kind : Kinds, at : 1 .. t] \cup [kind : {"feedback"}, at : 0 .. 1]

\* Numbering changes keeps their number, and gives the i-th the base version that i - 1 changes left.
LEMMA NumberedFacts ==
    ASSUME NEW S, NEW c \in Seq(S), NEW v
    PROVE  /\ Len(Numbered(c, v)) = Len(c) /\ Len(c) \in Nat
           /\ DOMAIN Numbered(c, v) = 1 .. Len(c)
           /\ \A i \in 1 .. Len(c) : Numbered(c, v)[i] = Op(c[i].kind, c[i].at, v + i - 1)
<1> DEFINE op(i) == Op(c[i].kind, c[i].at, v + i - 1)
           T == {op(i) : i \in 1 .. Len(c)}
           u == [i \in 1 .. Len(c) |-> op(i)]
<1>1. DOMAIN c = 1 .. Len(c) /\ Len(c) \in Nat
  BY LenProperties
<1>2. Numbered(c, v) = u
  BY <1>1 DEF Numbered
<1>3. \A i \in 1 .. Len(c) : op(i) \in T
  OBVIOUS
<1> HIDE DEF op, T
<1>4. u \in Seq(T)
  BY <1>1, <1>3, IsASeq
<1>5. DOMAIN u = 1 .. Len(c) /\ Len(u) \in Nat /\ DOMAIN u = 1 .. Len(u)
  BY <1>4, LenProperties
<1>6. Len(u) = Len(c)
  <2> HIDE DEF u
  <2> QED BY <1>1, <1>5
<1> QED BY <1>1, <1>2, <1>5, <1>6 DEF op

\* The numbers of the first changes do not depend on those after them.
LEMMA NumberedMore ==
    ASSUME NEW S, NEW c \in Seq(S), NEW a \in S, NEW v \in Nat
    PROVE  LET more == Numbered(Append(c, a), v) IN
           /\ Len(more) = Len(c) + 1
           /\ \A i \in 1 .. Len(c) : more[i] = Numbered(c, v)[i]
           /\ more[Len(c) + 1] = Op(a.kind, a.at, v + Len(c))
<1> DEFINE d == Append(c, a)
<1>1. /\ d \in Seq(S) /\ Len(d) = Len(c) + 1 /\ Len(c) \in Nat
      /\ \A i \in 1 .. Len(c) : d[i] = c[i]
      /\ d[Len(c) + 1] = a
  BY AppendProperties, LenProperties
<1> HIDE DEF d
<1>2. /\ Len(Numbered(d, v)) = Len(c) + 1
      /\ \A i \in 1 .. Len(c) + 1 : Numbered(d, v)[i] = Op(d[i].kind, d[i].at, v + i - 1)
  BY <1>1, NumberedFacts
<1>3. \A i \in 1 .. Len(c) : Numbered(c, v)[i] = Op(c[i].kind, c[i].at, v + i - 1)
  BY NumberedFacts
<1>4. v + (Len(c) + 1) - 1 = v + Len(c) /\ Len(c) + 1 \in 1 .. Len(c) + 1
      /\ \A i \in 1 .. Len(c) : i \in 1 .. Len(c) + 1
  BY <1>1
<1> QED BY <1>1, <1>2, <1>3, <1>4, Zenon DEF d

Same(ops, opp, l) == \A i \in 1 .. l : ops[i] = opp[i]

\* What a group makes of x depends on its operations only.
LEMMA StepsAgree ==
    ASSUME NEW x, NEW ops, NEW opp, NEW m \in Nat, NEW k \in Nat, NEW l \in Nat, l <= m, l <= k,
           NEW f, Steps(f, x, ops, m), NEW g, Steps(g, x, opp, k), Same(ops, opp, l)
    PROVE  f[l] = g[l]
<1> DEFINE Off == {n \in 0 .. l : f[n] # g[n]}
<1>1. f[0] = x /\ \A n \in 0 .. l - 1 : f[n + 1] = Applied(f[n], ops[n + 1])
  BY DEF Steps
<1>2. g[0] = x /\ \A n \in 0 .. l - 1 : g[n + 1] = Applied(g[n], opp[n + 1])
  BY DEF Steps
<1>3. Off = {}
  <2> SUFFICES ASSUME Off # {} PROVE FALSE
    OBVIOUS
  <2>1. Off \in SUBSET Nat
    OBVIOUS
  <2>2. PICK j \in Off : \A i \in Off : j <= i
    <3> HIDE DEF Off
    <3> QED BY <2>1, LeastNumber
  <2>3. j \in 0 .. l /\ j # 0 /\ f[j] # g[j]
    BY <1>1, <1>2, <2>2
  <2>4. PICK n \in 0 .. l - 1 : j = n + 1 /\ ~ (j <= n) /\ n \in 0 .. l /\ n + 1 \in 1 .. l
    BY <2>3
  <2>5. f[n] = g[n]
    BY <2>2, <2>4
  <2> QED BY <1>1, <1>2, <2>3, <2>4, <2>5 DEF Same
<1>4. l \in 0 .. l
  OBVIOUS
<1> QED BY <1>3, <1>4

\* No changes change nothing.
LEMMA ReplayNone == ASSUME NEW x PROVE Replay(x, <<>>) = x
<1> DEFINE ops == Numbered(<<>>, x.version)
<1>1. Len(ops) = 0
  BY EmptySeq, NumberedFacts
<1> HIDE DEF ops
<1>2. PICK f : Steps(f, x, ops, Len(ops)) /\ AppliedAll(x, ops) = f[Len(ops)]
  BY <1>1, AppliedAllSteps
<1>3. f[0] = x
  BY <1>1, <1>2 DEF Steps
<1> QED BY <1>1, <1>2, <1>3 DEF Replay, ops

\* One change more is one operation more on what the changes before it left.
LEMMA ReplayMore ==
    ASSUME NEW x, x.version \in Nat, NEW S, NEW c \in Seq(S), NEW a \in S
    PROVE  Replay(x, Append(c, a)) = Applied(Replay(x, c), Op(a.kind, a.at, x.version + Len(c)))
<1> DEFINE ops == Numbered(c, x.version)
           opp == Numbered(Append(c, a), x.version)
<1>1. /\ Len(ops) = Len(c) /\ Len(opp) = Len(c) + 1 /\ Len(c) \in Nat
      /\ \A i \in 1 .. Len(c) : ops[i] = opp[i]
      /\ opp[Len(c) + 1] = Op(a.kind, a.at, x.version + Len(c))
  BY NumberedFacts, NumberedMore
<1> HIDE DEF ops, opp
<1>2. PICK f : Steps(f, x, ops, Len(ops)) /\ AppliedAll(x, ops) = f[Len(ops)]
  BY <1>1, AppliedAllSteps
<1>3. Len(opp) \in Nat
  BY <1>1
<1>4. PICK g : Steps(g, x, opp, Len(opp)) /\ AppliedAll(x, opp) = g[Len(opp)]
  BY <1>3, AppliedAllSteps
<1>5. f[Len(c)] = g[Len(c)]
  <2>1. Len(c) <= Len(ops) /\ Len(c) <= Len(opp) /\ Len(ops) \in Nat
    BY <1>1
  <2>2. \A i \in 1 .. Len(c) : ops[i] = opp[i]
    BY <1>1
  <2>3. Steps(f, x, ops, Len(ops)) /\ Steps(g, x, opp, Len(opp))
    BY <1>2, <1>4
  <2> DEFINE l == Len(c)
             m == Len(ops)
             k == Len(opp)
  <2>4. l \in Nat /\ m \in Nat /\ k \in Nat /\ l <= m /\ l <= k
    BY <1>1, <1>3, <2>1
  <2>6. Same(ops, opp, l) /\ Steps(f, x, ops, m) /\ Steps(g, x, opp, k)
    BY <2>2, <2>3 DEF Same
  <2> HIDE DEF l, m, k
  <2>5. f[l] = g[l]
    BY <2>4, <2>6, StepsAgree
  <2> QED BY <2>5 DEF l
<1>6. \A n \in 0 .. Len(opp) - 1 : g[n + 1] = Applied(g[n], opp[n + 1])
  BY <1>3, <1>4 DEF Steps
<1>7. Len(c) \in 0 .. Len(opp) - 1
  BY <1>1
<1>8. g[Len(c) + 1] = Applied(g[Len(c)], opp[Len(c) + 1])
  BY <1>6, <1>7
<1> QED BY <1>1, <1>2, <1>4, <1>5, <1>8 DEF Replay, ops, opp

\* Changes that are not refused leave a sound attempt, begun where they begin sessions.
LEMMA ReplaySound ==
    ASSUME NEW t \in 0 .. MaxTime, NEW x, Sound(x), Exists(x), ByTime(x, t),
           NEW c \in Seq(Message(t)), Replay(x, c) # Refused
    PROVE  LET y == Replay(x, c) IN
           /\ Sound(y) /\ Exists(y) /\ ByTime(y, t)
           /\ y.version = x.version + Len(c) /\ y.placed = x.placed /\ y.deleted = x.deleted
           /\ Begun(y) = Begun(x) \cup Begins(c)
           /\ c # <<>> => ~ x.deleted
<1> DEFINE ops == Numbered(c, x.version)
           y == Replay(x, c)
<1>1. /\ Len(ops) = Len(c) /\ Len(ops) \in Nat
      /\ \A i \in 1 .. Len(c) : ops[i] = Op(c[i].kind, c[i].at, x.version + i - 1)
  BY NumberedFacts
<1> HIDE DEF ops
<1>2. \A i \in 1 .. Len(c) : ops[i].kind = c[i].kind /\ ops[i].at = c[i].at
  <2> TAKE i \in 1 .. Len(c)
  <2>1. ops[i] = Op(c[i].kind, c[i].at, x.version + i - 1)
    BY <1>1
  <2> QED BY <2>1 DEF Op
<1>3. \A i \in 1 .. Len(ops) : Timely(ops[i], t)
  <2> SUFFICES ASSUME NEW i \in 1 .. Len(c) PROVE Timely(ops[i], t)
    BY <1>1
  <2>1. c[i] \in Message(t)
    BY ElementOfSeq
  <2> QED BY <1>2, <2>1 DEF Message, Timely
<1>4. AppliedAll(x, ops) = y /\ y # Refused
  BY DEF Replay, ops
<1> HIDE DEF y
<1>5. OnTheWay(y, x, ops, Len(ops), t) /\ (Len(ops) # 0 => ~ x.deleted /\ ops[1].base = x.version)
  BY <1>1, <1>3, <1>4, AppliedAllSound
<1>6. {ops[i].at : i \in {k \in 1 .. Len(ops) : ops[k].kind \in Starting}} = Begins(c)
  BY <1>1, <1>2 DEF Begins
<1>7. c # <<>> => Len(ops) # 0
  BY <1>1, EmptySeq
<1> QED BY <1>1, <1>5, <1>6, <1>7 DEF OnTheWay, y

\* The last change says the status and the finishing time.
LEMMA ReplayLast ==
    ASSUME NEW t \in 0 .. MaxTime, NEW x, Sound(x), Exists(x), ByTime(x, t),
           NEW c \in Seq(Message(t)), NEW a \in Message(t), Replay(x, Append(c, a)) # Refused
    PROVE  /\ Replay(x, c) # Refused
           /\ Replay(x, Append(c, a)).status = StatusBy(Replay(x, c), a.kind)
           /\ Replay(x, Append(c, a)).final = FinalBy(Replay(x, c), a.kind, a.at)
<1> DEFINE y == Replay(x, c)
           op == Op(a.kind, a.at, x.version + Len(c))
<1>1. x.version \in Nat
  BY DEF Sound, Execution
<1>2. Replay(x, Append(c, a)) = Applied(y, op)
  BY <1>1, ReplayMore
<1>3. y # Refused
  BY <1>2 DEF Applied
<1>4. Sound(y) /\ Exists(y) /\ ByTime(y, t)
  BY <1>3, ReplaySound
<1>5. Timely(op, t) /\ op.kind = a.kind /\ op.at = a.at
  BY DEF Message, Timely, Op
<1> HIDE DEF y, op
<1>6. Applied(y, op).status = StatusBy(y, op.kind) /\ Applied(y, op).final = FinalBy(y, op.kind, op.at)
  BY <1>2, <1>4, <1>5, AppliedSound
<1> QED BY <1>2, <1>3, <1>5, <1>6 DEF y

-----------------------------------------------------------------------------
(* What the changes between two states of an attempt make of the first.    *)

\* Nothing or one message, after others: a message more.
LEMMA OneMore ==
    ASSUME NEW S, NEW c \in Seq(S), NEW a \in S
    PROVE  c \o <<a>> = Append(c, a) /\ c \o <<>> = c
BY AppendIsConcat, ConcatEmptySeq

ReopenPart(remote, mine) ==
    IF Base(remote, mine) # remote.status THEN <<[kind |-> "reopen", at |-> now]>> ELSE <<>>
VerbPart(remote, mine) ==
    IF mine.status \in Finished /\ StatusAfter(remote, mine) # mine.status
    THEN <<[kind |-> Verb(mine.status), at |-> mine.final]>> ELSE <<>>
RatingPart(remote, mine) ==
    IF mine.rating \notin {Unset, remote.rating} THEN <<[kind |-> "feedback", at |-> mine.rating]>> ELSE <<>>

\* The parts are messages of this time, and only those of Work begin sessions.
LEMMA PartsFacts ==
    ASSUME now \in 0 .. MaxTime,
           NEW d, Sound(d), Exists(d), ByTime(d, now), NEW l, Sound(l), Exists(l), ByTime(l, now)
    PROVE  LET S == Message(now)
               p == ReopenPart(d, l)
               w == Work(d, l)
               v == VerbPart(d, l)
               r == RatingPart(d, l)
           IN  /\ p \in Seq(S) /\ w \in Seq(S) /\ v \in Seq(S) /\ r \in Seq(S)
               /\ w \in Seq(Change(now))
               /\ Changes(d, l) = ((p \o w) \o v) \o r
               /\ Begins(p) = {} /\ Begins(v) = {} /\ Begins(r) = {}
               /\ Begins(w) = {l.sessions[i].from : i \in {k \in 1 .. Len(l.sessions) : k > Len(d.sessions)}}
               /\ w = <<>> => Len(l.sessions) <= Len(d.sessions)
<1> DEFINE S == Message(now)
           p == ReopenPart(d, l)
           w == Work(d, l)
           v == VerbPart(d, l)
           r == RatingPart(d, l)
<1>1. /\ d \in Execution /\ l \in Execution /\ d.sessions \in Seq(Session) /\ l.sessions \in Seq(Session)
      /\ Told(d) /\ Told(l) /\ d.final \in Instants /\ l.final \in Instants /\ l.rating \in 0 .. 1
  BY DEF Sound, Execution
<1>2. Changes(d, l) = ((p \o w) \o v) \o r
  BY DEF Changes, ReopenPart, VerbPart, RatingPart
<1>3. p \in Seq(S) /\ Begins(p) = {}
  <2> DEFINE c == [kind |-> "reopen", at |-> now]
  <2>1. CASE Base(d, l) # d.status
    <3>1. d.status \in Finished
      BY <2>1 DEF Base, Sources, Finished
    <3>2. d.final # Unset /\ d.final <= now /\ d.final \in Nat
      BY <1>1, <3>1, LifecycleAssumption DEF Told, ByTime, Instants
    <3>3. now \in 1 .. now
      BY <3>2 DEF Unset
    <3>4. c \in S /\ c.kind \notin Starting
      BY <3>3 DEF Message, Kinds, Starting
    <3>5. p = <<c>>
      BY <2>1 DEF ReopenPart
    <3> HIDE DEF c, p, S
    <3>6. <<c>> \in Seq(S)
      BY <3>4
    <3> QED BY <3>4, <3>5, <3>6, BeginsOne
  <2>2. CASE ~ (Base(d, l) # d.status)
    <3>1. p = <<>>
      BY <2>2 DEF ReopenPart
    <3> QED BY <3>1, BeginsNone, EmptySeq
  <2> QED BY <2>1, <2>2
<1>4. v \in Seq(S) /\ Begins(v) = {}
  <2> DEFINE c == [kind |-> Verb(l.status), at |-> l.final]
  <2>1. CASE l.status \in Finished /\ StatusAfter(d, l) # l.status
    <3>1. l.final # Unset /\ l.final <= now /\ l.final \in Nat
      BY <1>1, <2>1, LifecycleAssumption DEF Told, ByTime, Instants
    <3>2. l.final \in 1 .. now
      BY <3>1 DEF Unset
    <3>3. c \in S /\ c.kind \notin Starting
      BY <3>2 DEF Message, Kinds, Starting, Verb
    <3>4. v = <<c>>
      BY <2>1 DEF VerbPart
    <3> HIDE DEF c, v, S
    <3>5. <<c>> \in Seq(S)
      BY <3>3
    <3> QED BY <3>3, <3>4, <3>5, BeginsOne
  <2>2. CASE ~ (l.status \in Finished /\ StatusAfter(d, l) # l.status)
    <3>1. v = <<>>
      BY <2>2 DEF VerbPart
    <3> QED BY <3>1, BeginsNone, EmptySeq
  <2> QED BY <2>1, <2>2
<1>5. r \in Seq(S) /\ Begins(r) = {}
  <2> DEFINE c == [kind |-> "feedback", at |-> l.rating]
  <2>1. CASE l.rating \notin {Unset, d.rating}
    <3>1. c \in S /\ c.kind \notin Starting
      BY <1>1 DEF Message, Starting
    <3>2. r = <<c>>
      BY <2>1 DEF RatingPart
    <3> HIDE DEF c, r, S
    <3>3. <<c>> \in Seq(S)
      BY <3>1
    <3> QED BY <3>1, <3>2, <3>3, BeginsOne
  <2>2. CASE ~ (l.rating \notin {Unset, d.rating})
    <3>1. r = <<>>
      BY <2>2 DEF RatingPart
    <3> QED BY <3>1, BeginsNone, EmptySeq
  <2> QED BY <2>1, <2>2
<1>6. Len(d.sessions) \in Nat
  BY <1>1, SessionFacts
<1>7. Rebuilds(w, l, Len(d.sessions), Len(l.sessions), now)
  BY <1>6, WorkRebuilds
<1>8. w \in Seq(Change(now)) /\ w \in Seq(S)
  <2>1. Change(now) \subseteq S
    BY DEF Change, Message
  <2>2. w \in Seq(Change(now))
    BY <1>7 DEF Rebuilds
  <2> HIDE DEF S, w
  <2> QED BY <2>1, <2>2, SeqMonotonic
<1> HIDE DEF p, w, v, r, S
<1>9. /\ Begins(w) = {l.sessions[i].from : i \in {k \in 1 .. Len(l.sessions) : k > Len(d.sessions)}}
      /\ w = <<>> => Len(l.sessions) <= Len(d.sessions)
  BY <1>7 DEF Rebuilds
<1> QED BY <1>2, <1>3, <1>4, <1>5, <1>8, <1>9 DEF p, w, v, r, S

\* Work leaves the status execution_changes goes by.
LEMMA AfterWork ==
    ASSUME now \in 0 .. MaxTime,
           NEW d, Sound(d), Exists(d), ByTime(d, now), NEW l, Sound(l), Exists(l), ByTime(l, now),
           Replay(d, ReopenPart(d, l) \o Work(d, l)) # Refused
    PROVE  Replay(d, ReopenPart(d, l) \o Work(d, l)).status = StatusAfter(d, l)
<1> DEFINE S == Message(now)
           p == ReopenPart(d, l)
           w == Work(d, l)
           a == p \o w
<1>1. p \in Seq(S) /\ w \in Seq(S) /\ w \in Seq(Change(now))
  BY PartsFacts
<1>2. Replay(d, a) # Refused
  OBVIOUS
<1> HIDE DEF S, p, w
<1>3. ASSUME NEW q \in Seq(S), NEW m \in S, Replay(d, Append(q, m)) # Refused
      PROVE  /\ Replay(d, q) # Refused
             /\ Replay(d, Append(q, m)).status = StatusBy(Replay(d, q), m.kind)
  BY <1>3, ReplayLast DEF S
<1>4. Replay(d, a).status = StatusAfter(d, l)
  <2>1. CASE w = <<>>
    <3>1. a = p
      BY <1>1, <2>1, ConcatEmptySeq
    <3>2. StatusAfter(d, l) = Base(d, l)
      BY <2>1 DEF StatusAfter, w
    <3>3. CASE p = <<>>
      <4>1. Base(d, l) = d.status
        BY <3>3 DEF p, ReopenPart
      <4> QED BY <3>1, <3>2, <3>3, <4>1, ReplayNone
    <3>4. CASE p # <<>>
      <4> DEFINE m == [kind |-> "reopen", at |-> now]
      <4>1. p = <<m>> /\ Base(d, l) # d.status
        BY <3>4 DEF p, ReopenPart
      <4>2. m \in S
        <5> HIDE DEF m
        <5>1. p \in Seq(S) /\ Len(<<m>>) = 1 /\ 1 \in 1 .. 1 /\ <<m>>[1] = m
          BY <1>1
        <5> QED BY <4>1, <5>1, ElementOfSeq
      <4>3. m.kind = "reopen"
        OBVIOUS
      <4> HIDE DEF m
      <4>4. p = Append(<<>>, m)
        BY <4>1
      <4>5. Replay(d, Append(<<>>, m)) # Refused
        BY <1>2, <3>1, <4>4
      <4>6. Replay(d, Append(<<>>, m)).status = StatusBy(Replay(d, <<>>), m.kind)
        <5>1. <<>> \in Seq(S)
          BY EmptySeq
        <5> QED BY <1>3, <4>2, <4>5, <5>1
      <4>7. StatusBy(d, "reopen") = ReopenTarget(d.sessions # <<>>)
        BY DEF StatusBy
      <4>8. Base(d, l) = ReopenTarget(d.sessions # <<>>)
        BY <4>1 DEF Base
      <4> QED BY <3>1, <3>2, <4>3, <4>4, <4>6, <4>7, <4>8, ReplayNone
    <3> QED BY <3>3, <3>4
  <2>2. CASE w # <<>>
    <3>1. PICK u \in Seq(Change(now)), m \in Change(now) : w = Append(u, m)
      BY <1>1, <2>2, SequenceEmptyOrAppend
    <3>2. u \in Seq(S) /\ m \in S /\ m.kind \in Kinds \ {"reopen"}
      <4>1. Change(now) \subseteq S
        BY DEF Change, Message, S
      <4> QED BY <3>1, <4>1, SeqMonotonic DEF Change
    <3>3. StatusAfter(d, l) = Target(m.kind)
      <4>1. Len(w) = Len(u) + 1 /\ w[Len(u) + 1] = m
        BY <3>1, AppendProperties
      <4> QED BY <2>2, <4>1 DEF StatusAfter, w
    <3>4. a = Append(p \o u, m) /\ p \o u \in Seq(S)
      <4>0. p \in Seq(S) /\ <<m>> \in Seq(S) /\ p \o u \in Seq(S)
        BY <1>1, <3>2, ConcatProperties
      <4>1. w = u \o <<m>>
        BY <3>1, <3>2, OneMore
      <4>2. p \o (u \o <<m>>) = (p \o u) \o <<m>>
        BY <3>2, <4>0, ConcatAssociative
      <4>3. (p \o u) \o <<m>> = Append(p \o u, m)
        BY <3>2, <4>0, OneMore
      <4> QED BY <4>0, <4>1, <4>2, <4>3
    <3>5. Replay(d, Append(p \o u, m)).status = StatusBy(Replay(d, p \o u), m.kind)
      <4>1. Replay(d, Append(p \o u, m)) # Refused
        BY <1>2, <3>4
      <4> QED BY <1>3, <3>2, <3>4, <4>1
    <3>6. StatusBy(Replay(d, p \o u), m.kind) = Target(m.kind)
      BY <3>2 DEF StatusBy, Kinds
    <3> QED BY <3>3, <3>4, <3>5, <3>6
  <2> QED BY <2>1, <2>2
<1> QED BY <1>4 DEF p, w

\* Replayed on the attempt they were made from and not refused, the changes leave the device's status
\* and the device's work.
LEMMA PushFacts ==
    ASSUME now \in 0 .. MaxTime,
           NEW d, Sound(d), Live(d), ByTime(d, now), NEW l, Sound(l), Live(l), ByTime(l, now),
           ~ Diverged(d, l), Replay(d, Changes(d, l)) # Refused
    PROVE  LET x == Replay(d, Changes(d, l)) IN
           /\ Sound(x) /\ Live(x) /\ ByTime(x, now) /\ x.placed = d.placed
           /\ x.version = d.version + Len(Changes(d, l)) /\ Len(Changes(d, l)) \in Nat
           /\ Changes(d, l) = <<>> <=> Len(Changes(d, l)) = 0
           /\ x.status = l.status /\ Begun(x) = Begun(l)
<1> DEFINE S == Message(now)
           p == ReopenPart(d, l)
           w == Work(d, l)
           v == VerbPart(d, l)
           r == RatingPart(d, l)
           c == Changes(d, l)
           x == Replay(d, c)
<1>0. Exists(d) /\ Exists(l) /\ ~ d.deleted /\ d.version \in Nat
      /\ l.status \in Pending \cup Finished \cup {"absent"}
  BY DEF Live, Sound, Execution
<1>1. /\ p \in Seq(S) /\ w \in Seq(S) /\ v \in Seq(S) /\ r \in Seq(S)
      /\ w \in Seq(Change(now))
      /\ c = ((p \o w) \o v) \o r
      /\ Begins(p) = {} /\ Begins(v) = {} /\ Begins(r) = {}
      /\ Begins(w) = {l.sessions[i].from : i \in {k \in 1 .. Len(l.sessions) : k > Len(d.sessions)}}
  BY <1>0, PartsFacts
<1> HIDE DEF S, p, w, v, r, c
<1> DEFINE a == p \o w
           b == a \o v
<1>2. a \in Seq(S) /\ b \in Seq(S) /\ c \in Seq(S) /\ c = b \o r
  BY <1>1, ConcatProperties
<1>3. Begins(c) = Begins(w)
  <2>1. p \in Seq(S) /\ w \in Seq(S) /\ v \in Seq(S) /\ r \in Seq(S)
    BY <1>1
  <2>2. Begins(a) = Begins(p) \cup Begins(w)
    BY <2>1, BeginsConcat
  <2> HIDE DEF a
  <2>3. Begins(b) = Begins(a) \cup Begins(v)
    BY <1>2, <2>1, BeginsConcat
  <2> HIDE DEF b
  <2>4. Begins(b \o r) = Begins(b) \cup Begins(r)
    BY <1>2, <2>1, BeginsConcat
  <2> QED BY <1>1, <1>2, <2>2, <2>3, <2>4
<1>4. x # Refused
  BY DEF c
<1>5. /\ Sound(x) /\ Exists(x) /\ ByTime(x, now)
      /\ x.version = d.version + Len(c) /\ x.placed = d.placed /\ x.deleted = d.deleted
      /\ Begun(x) = Begun(d) \cup Begins(c)
  BY <1>0, <1>2, <1>4, ReplaySound, ZenonT(60) DEF S
<1>6. Begun(x) = Begun(l)
  <2>1. /\ d.sessions \in Seq(Session) /\ l.sessions \in Seq(Session)
    BY DEF Sound, Execution
  <2>2. /\ DOMAIN d.sessions = 1 .. Len(d.sessions) /\ DOMAIN l.sessions = 1 .. Len(l.sessions)
        /\ Len(d.sessions) \in Nat /\ Len(l.sessions) \in Nat
    BY <2>1, SessionFacts
  <2>3. /\ Len(d.sessions) <= Len(l.sessions)
        /\ \A i \in 1 .. Len(d.sessions) : d.sessions[i].from = l.sessions[i].from
    BY <2>2 DEF Diverged
  <2>4. Begun(d) = {l.sessions[i].from : i \in {k \in 1 .. Len(l.sessions) : ~ (k > Len(d.sessions))}}
    BY <2>2, <2>3, SMTT(60) DEF Begun
  <2>5. Begun(l) = {l.sessions[i].from : i \in 1 .. Len(l.sessions)}
    BY <2>2 DEF Begun
  <2> HIDE DEF x
  <2> QED BY <1>1, <1>3, <1>5, <2>4, <2>5
<1> HIDE DEF x
<1>7. ASSUME NEW q \in Seq(S), NEW m \in S, Replay(d, Append(q, m)) # Refused
      PROVE  /\ Replay(d, q) # Refused
             /\ Replay(d, Append(q, m)).status = StatusBy(Replay(d, q), m.kind)
  BY <1>0, <1>7, ReplayLast DEF S
<1>8. Replay(d, b) # Refused /\ x.status = Replay(d, b).status
  <2> HIDE DEF a, b
  <2>1. CASE r = <<>>
    <3>1. c = b
      BY <1>2, <2>1, ConcatEmptySeq
    <3> QED BY <1>4, <3>1 DEF x
  <2>2. CASE r # <<>>
    <3> DEFINE m == [kind |-> "feedback", at |-> l.rating]
    <3>1. r = <<m>>
      BY <2>2 DEF r, RatingPart
    <3>2. m \in S /\ m.kind = "feedback"
      BY DEF S, Message, Sound, Execution, Live, Exists, RatingPart, r
    <3> HIDE DEF m
    <3>3. c = Append(b, m)
      BY <1>2, <3>1, <3>2, OneMore
    <3>4. Replay(d, Append(b, m)) # Refused
      BY <1>4, <3>3 DEF x
    <3>5. Replay(d, b) # Refused /\ Replay(d, Append(b, m)).status = StatusBy(Replay(d, b), m.kind)
      BY <1>2, <1>7, <3>2, <3>4
    <3> QED BY <3>2, <3>3, <3>5 DEF StatusBy, x
  <2> QED BY <2>1, <2>2
<1>9. /\ Replay(d, a) # Refused
      /\ IF v = <<>> THEN Replay(d, b).status = Replay(d, a).status ELSE Replay(d, b).status = l.status
  <2>1. CASE v = <<>>
    <3> HIDE DEF a
    <3>1. b = a
      BY <1>2, <2>1, ConcatEmptySeq
    <3> QED BY <1>8, <2>1, <3>1
  <2>2. CASE v # <<>>
    <3> DEFINE m == [kind |-> Verb(l.status), at |-> l.final]
    <3>1. v = <<m>> /\ l.status \in Finished
      BY <2>2 DEF v, VerbPart
    <3>2. m.kind = Verb(l.status)
      OBVIOUS
    <3>3. m \in S
      <4> HIDE DEF m
      <4>1. v \in Seq(S) /\ Len(<<m>>) = 1 /\ 1 \in 1 .. 1 /\ <<m>>[1] = m
        BY <1>1
      <4> QED BY <3>1, <4>1, ElementOfSeq
    <3> HIDE DEF m, a
    <3>4. b = Append(a, m)
      BY <1>2, <3>1, <3>3, OneMore
    <3>5. Replay(d, Append(a, m)) # Refused
      BY <1>8, <3>4
    <3>6. Replay(d, a) # Refused /\ Replay(d, Append(a, m)).status = StatusBy(Replay(d, a), m.kind)
      BY <1>2, <1>7, <3>3, <3>5
    <3>7. StatusBy(Replay(d, a), Verb(l.status)) = l.status
      BY <3>1 DEF StatusBy, Verb, Target, Finished
    <3> QED BY <2>2, <3>2, <3>4, <3>6, <3>7
  <2> QED BY <2>1, <2>2
<1>10. Replay(d, a).status = StatusAfter(d, l)
  BY <1>0, <1>9, AfterWork DEF p, w
<1>11. v = <<>> => StatusAfter(d, l) = l.status
  BY DEF v, VerbPart, Diverged
<1>12. x.status = l.status
  BY <1>8, <1>9, <1>10, <1>11
<1>13. Len(c) \in Nat /\ (c = <<>> <=> Len(c) = 0)
  BY <1>2, EmptySeq, LenProperties
<1>14. Live(x)
  BY <1>0, <1>5 DEF Live, Sound, Execution
<1> QED BY <1>5, <1>6, <1>12, <1>13, <1>14 DEF x, c

-----------------------------------------------------------------------------
(* The very sessions a push rebuilds.                                       *)

\* What the server makes of one change more, and of some changes after others.
Takes(y, a) == Applied(y, Op(a.kind, a.at, y.version))

\* A change more is refused after a refusal, and otherwise meets the version it was numbered for.
LEMMA ReplayTakes ==
    ASSUME NEW t \in 0 .. MaxTime, NEW x, Sound(x), Exists(x), ByTime(x, t),
           NEW c \in Seq(Message(t)), NEW a \in Message(t)
    PROVE  /\ Replay(x, c) = Refused => Replay(x, Append(c, a)) = Refused
           /\ Replay(x, c) # Refused => Replay(x, Append(c, a)) = Takes(Replay(x, c), a)
<1> DEFINE y == Replay(x, c)
<1>1. x.version \in Nat
  BY DEF Sound, Execution
<1>2. Replay(x, Append(c, a)) = Applied(y, Op(a.kind, a.at, x.version + Len(c)))
  BY <1>1, ReplayMore
<1>3. y # Refused => y.version = x.version + Len(c)
  BY ReplaySound
<1> HIDE DEF y
<1> QED BY <1>2, <1>3 DEF Takes, Applied, y

\* An action on a live attempt is performed, or refused for its status or its time.
LEMMA TakesAction ==
    ASSUME NEW y, Sound(y), Live(y), NEW a, a.kind \in Kinds, a.at \in 1 .. MaxTime
    PROVE  /\ Takes(y, a) # Refused <=> y.status \in Sources(a.kind) /\ Before(y.sessions, a.at)
           /\ Takes(y, a) # Refused => Performs(y, Takes(y, a), a.kind, a.at)
<1>1. y # Refused /\ ~ y.deleted /\ Exists(y) /\ a.kind # "feedback" /\ y.version \in Nat
      /\ y.sessions \in Seq(Session) /\ InOrder(y.sessions)
  BY SoundNotRefused DEF Live, Kinds, Sound, Execution
<1>2. Takes(y, a) = IF ActionRefused(y, a.kind, a.at) THEN Refused ELSE ActionApplied(y, a.kind, a.at)
  BY <1>1 DEF Takes, Applied, Op
<1>3. ASSUME ~ ActionRefused(y, a.kind, a.at)
      PROVE  /\ y.status \in Sources(a.kind) /\ Before(y.sessions, a.at)
             /\ Takes(y, a) # Refused /\ Performs(y, Takes(y, a), a.kind, a.at)
  <2> DEFINE z == ActionApplied(y, a.kind, a.at)
  <2>1. /\ y.status \in Sources(a.kind) /\ Before(y.sessions, a.at)
        /\ z \in Execution /\ z.version = y.version + 1 /\ Performs(y, z, a.kind, a.at)
    BY <1>1, <1>3, AppliedPerforms
  <2> HIDE DEF z
  <2>2. z # Refused
    BY <2>1 DEF Execution, Refused, Absent
  <2> QED BY <1>2, <1>3, <2>1, <2>2 DEF z
<1>4. ASSUME y.status \in Sources(a.kind), Before(y.sessions, a.at)
      PROVE  ~ ActionRefused(y, a.kind, a.at)
  BY <1>1, <1>4, SessionFacts, LifecycleAssumption DEF ActionRefused, Before
<1> QED BY <1>2, <1>3, <1>4

\* The i-th session on the server when the first n of the device's have been gone through.
Piece(d, l, n, i) ==
    IF i <= Len(d.sessions) /\ (d.sessions[i].to # Open \/ n < i) THEN d.sessions[i] ELSE l.sessions[i]
Reached(d, n) == IF n <= Len(d.sessions) THEN Len(d.sessions) ELSE n

\* y is the server's attempt then: under way, finished as the device's, or one that was not reopened.
Underway(y, d, l, n) ==
    \/ y.status \in Pending
    \/ n = Len(l.sessions) /\ y.status = l.status /\ y.final = l.final
    \/ y = d /\ Base(d, l) \in Finished
GoneThrough(y, d, l, n) ==
    /\ Len(y.sessions) = Reached(d, n)
    /\ \A i \in 1 .. Reached(d, n) : y.sessions[i] = Piece(d, l, n, i)
    /\ y.rating = d.rating
    /\ Underway(y, d, l, n)

\* Nothing in the way of going through them: what ended has the same end, and what has to be reopened was.
Smooth(d, l) == Compatible(d, l) /\ (Base(d, l) \in Pending \/ Len(l.sessions) = Len(d.sessions))

\* Two attempts with the same beginnings, as far as the first goes.
Pair(d, l) ==
    /\ Sound(d) /\ Live(d) /\ ByTime(d, now) /\ Sound(l) /\ Live(l) /\ ByTime(l, now)
    /\ ~ Diverged(d, l)

\* The sessions of such attempts.
LEMMA PairFacts ==
    ASSUME NEW d, NEW l, Pair(d, l)
    PROVE  /\ d.sessions \in Seq(Session) /\ l.sessions \in Seq(Session)
           /\ Len(d.sessions) \in Nat /\ Len(l.sessions) \in Nat /\ Len(d.sessions) <= Len(l.sessions)
           /\ DOMAIN d.sessions = 1 .. Len(d.sessions) /\ DOMAIN l.sessions = 1 .. Len(l.sessions)
           /\ InOrder(d.sessions) /\ InOrder(l.sessions)
           /\ \A i \in 1 .. Len(d.sessions) : d.sessions[i].from = l.sessions[i].from
           /\ \A i \in 1 .. Len(d.sessions) : d.sessions[i].to = Open => i = Len(d.sessions)
           /\ \A i \in 1 .. Len(l.sessions) : l.sessions[i].to = Open => i = Len(l.sessions)
           /\ Told(d) /\ Told(l) /\ Exists(d) /\ Exists(l)
<1>1. /\ d.sessions \in Seq(Session) /\ l.sessions \in Seq(Session)
      /\ InOrder(d.sessions) /\ InOrder(l.sessions) /\ Told(d) /\ Told(l) /\ Exists(d) /\ Exists(l)
  BY DEF Pair, Sound, Live, Execution
<1>2. /\ Len(d.sessions) \in Nat /\ Len(l.sessions) \in Nat
      /\ DOMAIN d.sessions = 1 .. Len(d.sessions) /\ DOMAIN l.sessions = 1 .. Len(l.sessions)
  BY <1>1, SessionFacts
<1>3. Len(d.sessions) <= Len(l.sessions)
      /\ \A i \in 1 .. Len(d.sessions) : d.sessions[i].from = l.sessions[i].from
  BY <1>2 DEF Pair, Diverged
<1>4. ASSUME NEW s \in Seq(Session), InOrder(s), Len(s) \in Nat, DOMAIN s = 1 .. Len(s)
      PROVE  \A i \in 1 .. Len(s) : s[i].to = Open => i = Len(s)
  <2> SUFFICES ASSUME NEW i \in 1 .. Len(s), s[i].to = Open PROVE i = Len(s)
    OBVIOUS
  <2>1. Len(s) \in DOMAIN s /\ i \in DOMAIN s /\ ~ (i < Len(s))
    BY <1>4 DEF InOrder
  <2> QED BY <1>4, <2>1
<1> QED BY <1>1, <1>2, <1>3, <1>4

\* Sessions with the same beginning and the same end are the same.
LEMMA PairEqual ==
    ASSUME NEW d, NEW l, Pair(d, l), NEW i \in 1 .. Len(d.sessions), d.sessions[i].to = l.sessions[i].to
    PROVE  d.sessions[i] = l.sessions[i]
<1>1. i \in DOMAIN d.sessions /\ i \in DOMAIN l.sessions /\ d.sessions[i].from = l.sessions[i].from
  BY PairFacts
<1>2. d.sessions \in Seq(Session) /\ l.sessions \in Seq(Session)
  BY PairFacts
<1>3. /\ d.sessions[i] = [from |-> d.sessions[i].from, to |-> d.sessions[i].to]
      /\ l.sessions[i] = [from |-> l.sessions[i].from, to |-> l.sessions[i].to]
  BY <1>1, <1>2, SessionFacts
<1> QED BY <1>1, <1>3

\* With nothing in the way, what the server has of the sessions gone through is what the device has.
LEMMA PieceSmooth ==
    ASSUME NEW d, NEW l, Pair(d, l), Compatible(d, l), NEW n \in 0 .. Len(l.sessions), NEW i \in 1 .. n
    PROVE  Piece(d, l, n, i) = l.sessions[i]
<1>1. i \in 1 .. Len(l.sessions) /\ ~ (n < i) /\ (i <= Len(d.sessions) => i \in DOMAIN d.sessions)
  BY PairFacts
<1>2. CASE i <= Len(d.sessions) /\ d.sessions[i].to # Open
  <2>1. d.sessions[i].to = l.sessions[i].to /\ d.sessions[i].from = l.sessions[i].from
    BY <1>1, <1>2, PairFacts DEF Compatible
  <2>2. d.sessions[i] = l.sessions[i]
    BY <1>2, <2>1, PairEqual
  <2> QED BY <1>2, <2>2 DEF Piece
<1>3. CASE ~ (i <= Len(d.sessions) /\ d.sessions[i].to # Open)
  BY <1>1, <1>3 DEF Piece
<1> QED BY <1>2, <1>3

\* A session the server need not be told of: it has it, or it still runs on both sides.
Silent(d, l, m) == m <= Len(d.sessions) /\ ~ (d.sessions[m].to = Open /\ l.sessions[m].to # Open)

\* Nothing is sent of it, and the server has gone through it.
LEMMA SilentStep ==
    ASSUME NEW d, NEW l, Pair(d, l), NEW n \in Nat, n + 1 \in 1 .. Len(l.sessions), Silent(d, l, n + 1),
           NEW y, GoneThrough(y, d, l, n)
    PROVE  GoneThrough(y, d, l, n + 1)
<1>1. Reached(d, n) = Len(d.sessions) /\ Reached(d, n + 1) = Len(d.sessions) /\ n < Len(l.sessions)
  BY PairFacts DEF Reached, Silent
<1>2. ASSUME NEW i \in 1 .. Len(d.sessions)
      PROVE  Piece(d, l, n, i) = Piece(d, l, n + 1, i)
  <2>1. CASE i # n + 1
    BY <2>1, PairFacts DEF Piece
  <2>2. CASE i = n + 1 /\ d.sessions[i].to # Open
    BY <2>2 DEF Piece
  <2>3. CASE i = n + 1 /\ d.sessions[i].to = Open
    <3>1. l.sessions[i].to = Open /\ d.sessions[i].from = l.sessions[i].from /\ i \in 1 .. Len(l.sessions)
      BY <2>3, PairFacts DEF Silent
    <3>2. d.sessions[i] = l.sessions[i]
      BY <2>3, <3>1, PairEqual
    <3> QED BY <3>2 DEF Piece
  <2> QED BY <2>1, <2>2, <2>3
<1>3. Underway(y, d, l, n + 1)
  BY <1>1 DEF GoneThrough, Underway
<1> QED BY <1>1, <1>2, <1>3 DEF GoneThrough

\* y has all sessions before the next one, and has begun that one.
Halfway(y, d, l, n) ==
    /\ y.status = "in_progress" /\ y.rating = d.rating
    /\ Len(d.sessions) <= n + 1 /\ Len(y.sessions) = n + 1
    /\ y.sessions[n + 1] = Begin(l.sessions[n + 1].from)
    /\ Piece(d, l, n + 1, n + 1) = l.sessions[n + 1]
    /\ \A i \in 1 .. n : y.sessions[i] = Piece(d, l, n + 1, i)

\* If the device has not ended it either, that is all there is to do.
LEMMA HalfwayRuns ==
    ASSUME NEW d, NEW l, Pair(d, l), NEW n \in Nat, n + 1 \in 1 .. Len(l.sessions),
           l.sessions[n + 1].to = Open, NEW y, Halfway(y, d, l, n)
    PROVE  GoneThrough(y, d, l, n + 1)
<1>1. Reached(d, n + 1) = n + 1
  BY PairFacts DEF Reached, Halfway
<1>2. n + 1 \in DOMAIN l.sessions /\ l.sessions \in Seq(Session)
  BY PairFacts
<1>3. l.sessions[n + 1] = [from |-> l.sessions[n + 1].from, to |-> l.sessions[n + 1].to]
  BY <1>2, SessionFacts
<1>4. y.sessions[n + 1] = Piece(d, l, n + 1, n + 1)
  BY <1>3 DEF Halfway, Begin
<1>5. \A i \in 1 .. n + 1 : i \in 1 .. n \/ i = n + 1
  OBVIOUS
<1> QED BY <1>1, <1>4, <1>5 DEF GoneThrough, Underway, Halfway, Pending

\* The change that ends a session of the device: a pause, or the action that finished the attempt.
LEMMA CloseKind ==
    ASSUME NEW d, NEW l, Pair(d, l), NEW i \in 1 .. Len(l.sessions), l.sessions[i].to # Open
    PROVE  \E a \in Change(now) :
              /\ Close(l, i) = <<a>> /\ a.at = l.sessions[i].to
              /\ \/ a.kind = "pause"
                 \/ /\ a.kind \in Finishing /\ i = Len(l.sessions)
                    /\ l.status = Target(a.kind) /\ l.final = a.at
<1> DEFINE ends == i = Len(l.sessions) /\ l.status \in Finished /\ l.final \in {Unset, l.sessions[i].to}
           kind == IF ends THEN Verb(l.status) ELSE "pause"
           a == [kind |-> kind, at |-> l.sessions[i].to]
<1>1. Close(l, i) = <<a>>
  BY DEF Close
<1>2. l.sessions \in Seq(Session) /\ i \in DOMAIN l.sessions /\ Before(l.sessions, now) /\ Told(l)
  BY PairFacts DEF Pair, ByTime
<1>3. l.sessions[i].to \in 1 .. now
  BY <1>2, SessionFacts DEF Before, Open
<1>4. kind = "pause" \/ kind \in Finishing
  BY DEF Verb, Finishing
<1>5. a \in Change(now)
  BY <1>3, <1>4 DEF Change, Kinds, Finishing
<1>6. ends => l.status = Target(kind) /\ l.final = l.sessions[i].to
  BY <1>2 DEF Told, Verb, Target, Finished
<1>7. kind \in Finishing => ends
  BY DEF Finishing
<1> QED BY <1>1, <1>4, <1>5, <1>6, <1>7

\* The server ends a session that has begun as the device ended it.
LEMMA HalfwayEnds ==
    ASSUME now \in 0 .. MaxTime, NEW d, NEW l, Pair(d, l), NEW n \in Nat, n + 1 \in 1 .. Len(l.sessions),
           l.sessions[n + 1].to # Open, NEW y, Sound(y), Live(y), Halfway(y, d, l, n),
           NEW a \in Change(now), a.at = l.sessions[n + 1].to,
           \/ a.kind = "pause"
           \/ /\ a.kind \in Finishing /\ n + 1 = Len(l.sessions) /\ l.status = Target(a.kind) /\ l.final = a.at
    PROVE  Takes(y, a) # Refused /\ GoneThrough(Takes(y, a), d, l, n + 1)
<1> DEFINE z == Takes(y, a)
           m == n + 1
<1>1. /\ y.sessions \in Seq(Session) /\ InOrder(y.sessions) /\ DOMAIN y.sessions = 1 .. m /\ m \in DOMAIN y.sessions
      /\ Len(y.sessions) = m
  BY SessionFacts DEF Sound, Execution, Halfway
<1>2. /\ l.sessions \in Seq(Session) /\ m \in DOMAIN l.sessions /\ InOrder(l.sessions)
      /\ a.at \in 1 .. MaxTime /\ a.kind \in Kinds
  BY PairFacts, LifecycleAssumption DEF Change
<1>3. y.sessions[m].from = l.sessions[m].from /\ y.sessions[m].to = Open /\ l.sessions[m].from <= a.at
  BY <1>2 DEF Halfway, Begin, InOrder
<1>4. Before(y.sessions, a.at)
  <2> SUFFICES ASSUME NEW i \in DOMAIN y.sessions PROVE y.sessions[i].from <= a.at /\ y.sessions[i].to <= a.at
    BY DEF Before
  <2>1. CASE i = m
    BY <1>2, <1>3, <2>1 DEF Open
  <2>2. CASE i # m
    <3>1. i < m
      BY <1>1, <2>2
    <3>2. y.sessions[i].to # Open /\ y.sessions[i].to <= y.sessions[m].from /\ y.sessions[i].from <= y.sessions[i].to
      BY <1>1, <3>1 DEF InOrder
    <3>3. y.sessions[i].from \in Int /\ y.sessions[i].to \in Int /\ l.sessions[m].from \in Int
      BY <1>1, <1>2, SessionFacts
    <3> QED BY <1>2, <1>3, <3>2, <3>3
  <2> QED BY <2>1, <2>2
<1>5. y.status \in Sources(a.kind)
  BY DEF Halfway, Sources, Finishing, Pending
<1>6. z # Refused /\ Performs(y, z, a.kind, a.at)
  BY <1>2, <1>4, <1>5, TakesAction
<1>7. /\ z.status = Target(a.kind) /\ z.sessions = Ended(y.sessions, a.at) /\ z.rating = d.rating
      /\ z.final = IF a.kind \in Finishing THEN a.at ELSE Unset
  BY <1>6 DEF Performs, Halfway, Finishing, Starting
<1> HIDE DEF z
<1>8. Len(z.sessions) = m
  BY <1>1, <1>2, <1>4, <1>7, Closing
<1>9. ASSUME NEW i \in 1 .. m
      PROVE  z.sessions[i] = Piece(d, l, m, i)
  <2>1. z.sessions[i] = IF y.sessions[i].to = Open THEN [y.sessions[i] EXCEPT !.to = a.at] ELSE y.sessions[i]
    BY <1>1, <1>7 DEF Ended
  <2>2. CASE i = m
    <3>1. z.sessions[m] = [Begin(l.sessions[m].from) EXCEPT !.to = l.sessions[m].to]
      BY <1>3, <2>1, <2>2 DEF Halfway
    <3>2. z.sessions[m] = [from |-> l.sessions[m].from, to |-> l.sessions[m].to]
      BY <3>1 DEF Begin
    <3>3. l.sessions[m] = [from |-> l.sessions[m].from, to |-> l.sessions[m].to]
      BY <1>2, SessionFacts
    <3> QED BY <2>2, <3>2, <3>3 DEF Halfway
  <2>3. CASE i # m
    <3>1. i \in 1 .. n /\ i < m /\ i \in DOMAIN y.sessions
      BY <1>1, <2>3
    <3>2. y.sessions[i].to # Open
      BY <1>1, <3>1 DEF InOrder
    <3> QED BY <2>1, <3>1, <3>2 DEF Halfway
  <2> QED BY <2>2, <2>3
<1>10. Underway(z, d, l, m)
  BY <1>7 DEF Underway, Target, Pending
<1>11. Reached(d, m) = m
  BY PairFacts DEF Reached, Halfway
<1> QED BY <1>6, <1>7, <1>8, <1>9, <1>10, <1>11 DEF GoneThrough, z

\* A session the server has begun and the device has ended: the server is halfway through it.
LEMMA HalfwayThere ==
    ASSUME NEW d, NEW l, Pair(d, l), NEW n \in Nat, n + 1 \in 1 .. Len(l.sessions),
           n + 1 <= Len(d.sessions), ~ Silent(d, l, n + 1),
           NEW y, Sound(y), Live(y), GoneThrough(y, d, l, n)
    PROVE  Halfway(y, d, l, n)
<1>1. /\ d.sessions[n + 1].to = Open /\ n + 1 \in 1 .. Len(d.sessions) /\ n + 1 = Len(d.sessions)
  BY PairFacts DEF Silent
<1>2. Reached(d, n) = n + 1
  BY <1>1 DEF Reached
<1>3. Len(y.sessions) = n + 1 /\ \A i \in 1 .. n + 1 : y.sessions[i] = Piece(d, l, n, i)
  BY <1>2 DEF GoneThrough
<1>4. \A i \in 1 .. n : Piece(d, l, n, i) = Piece(d, l, n + 1, i)
  BY <1>1 DEF Piece
<1>5. y.sessions[n + 1] = Begin(l.sessions[n + 1].from)
  <2>1. y.sessions[n + 1] = d.sessions[n + 1]
    BY <1>1, <1>3 DEF Piece
  <2>2. d.sessions \in Seq(Session) /\ n + 1 \in DOMAIN d.sessions /\ d.sessions[n + 1].from = l.sessions[n + 1].from
    BY <1>1, PairFacts
  <2>3. d.sessions[n + 1] = [from |-> d.sessions[n + 1].from, to |-> d.sessions[n + 1].to]
    BY <2>2, SessionFacts
  <2> QED BY <1>1, <2>1, <2>2, <2>3 DEF Begin
<1>6. Piece(d, l, n + 1, n + 1) = l.sessions[n + 1]
  BY <1>1 DEF Piece
<1>7. y.status = "in_progress"
  <2>1. y.sessions # <<>> /\ y.sessions[Len(y.sessions)].to = Open
    <3>1. y.sessions \in Seq(Session)
      BY DEF Sound, Execution
    <3> QED BY <1>3, <1>5, <3>1, SessionFacts DEF Begin
  <2> QED BY <2>1 DEF Running, Sound, Live, Told
<1> QED BY <1>1, <1>3, <1>4, <1>5, <1>6, <1>7 DEF Halfway, GoneThrough

\* The change that begins a session of the device.
Beginning(d, l, i) ==
    [kind |-> IF i = 1 /\ Base(d, l) = "scheduled" THEN "start" ELSE "resume", at |-> l.sessions[i].from]

\* Where the server has no more sessions than have been gone through, it begins the next one as the
\* device did, if nothing is in the way.
LEMMA HalfwayBegins ==
    ASSUME now \in 0 .. MaxTime, NEW d, NEW l, Pair(d, l), NEW n \in Nat, n + 1 \in 1 .. Len(l.sessions),
           n + 1 > Len(d.sessions), NEW y, Sound(y), Live(y), GoneThrough(y, d, l, n)
    PROVE  LET z == Takes(y, Beginning(d, l, n + 1)) IN
           /\ Beginning(d, l, n + 1) \in Change(now)
           /\ z # Refused => Halfway(z, d, l, n)
           /\ Smooth(d, l) => z # Refused
<1> DEFINE m == n + 1
           a == Beginning(d, l, m)
           z == Takes(y, a)
<1>1. /\ y.sessions \in Seq(Session) /\ InOrder(y.sessions) /\ Told(y) /\ y.status \in Pending \cup Finished
      /\ Exists(y)
  BY DEF Sound, Live, Exists, Execution
<1>2. /\ l.sessions \in Seq(Session) /\ m \in DOMAIN l.sessions /\ InOrder(l.sessions)
      /\ Before(l.sessions, now)
  BY PairFacts DEF Pair, ByTime
<1>3. /\ a.kind \in Starting /\ a.at = l.sessions[m].from /\ a.at \in 1 .. now /\ a \in Change(now)
  <2>1. l.sessions[m].from \in 1 .. now
    BY <1>2, SessionFacts DEF Before
  <2> QED BY <2>1 DEF Beginning, Change, Kinds, Starting
<1>4. /\ Reached(d, n) = n /\ Len(y.sessions) = n /\ DOMAIN y.sessions = 1 .. n
      /\ \A i \in 1 .. n : y.sessions[i] = Piece(d, l, n, i)
  <2>1. Reached(d, n) = n
    BY PairFacts DEF Reached
  <2> QED BY <1>1, <2>1, SessionFacts DEF GoneThrough
<1>5. a.kind \in Kinds /\ a.at \in 1 .. MaxTime
  BY <1>3, LifecycleAssumption DEF Kinds, Starting
<1> HIDE DEF a
<1>6. ASSUME z # Refused
      PROVE  Halfway(z, d, l, n)
  <2>1. y.status \in Sources(a.kind) /\ Before(y.sessions, a.at) /\ Performs(y, z, a.kind, a.at)
    BY <1>5, <1>6, TakesAction
  <2>2. z.sessions = Append(y.sessions, Begin(a.at)) /\ z.status = "in_progress" /\ z.rating = d.rating
    BY <1>3, <2>1 DEF Performs, GoneThrough, Starting, Target
  <2>3. ~ Running(y.sessions)
    BY <1>1, <1>3, <2>1 DEF Told, Sources, Starting
  <2>4. Len(z.sessions) = n + 1
    BY <1>1, <1>4, <1>5, <2>1, <2>2, <2>3, Opening
  <2> HIDE DEF z
  <2>5. Begin(a.at) \in Session
    BY <1>5, LifecycleAssumption DEF Begin, Session, Instants, Open
  <2>6. z.sessions[n + 1] = Begin(a.at) /\ \A i \in 1 .. n : z.sessions[i] = y.sessions[i]
    BY <1>1, <1>4, <2>2, <2>5, AppendProperties
  <2>7. \A i \in 1 .. n : Piece(d, l, n, i) = Piece(d, l, m, i)
    BY DEF Piece
  <2>8. Piece(d, l, m, m) = l.sessions[m]
    BY PairFacts DEF Piece
  <2>9. Len(d.sessions) <= n + 1
    BY PairFacts
  <2> QED BY <1>3, <1>4, <2>2, <2>4, <2>6, <2>7, <2>8, <2>9 DEF Halfway
<1>7. ASSUME Smooth(d, l)
      PROVE  z # Refused
  <2>1. Compatible(d, l) /\ Base(d, l) \in Pending
    BY <1>7, PairFacts DEF Smooth
  <2>2. y.status \in Pending
    <3>1. Base(d, l) \notin Finished
      BY <2>1 DEF Pending, Finished
    <3> QED BY <3>1, PairFacts DEF GoneThrough, Underway
  <2>3. \A i \in 1 .. n : y.sessions[i] = l.sessions[i] /\ i < m /\ i \in DOMAIN l.sessions
    <3> TAKE i \in 1 .. n
    <3>1. n \in 0 .. Len(l.sessions)
      BY PairFacts
    <3>2. Piece(d, l, n, i) = l.sessions[i]
      BY <2>1, <3>1, PieceSmooth
    <3> QED BY <1>4, <3>1, <3>2, PairFacts
  <2>4. Before(y.sessions, a.at)
    <3> SUFFICES ASSUME NEW i \in 1 .. n PROVE l.sessions[i].from <= a.at /\ l.sessions[i].to <= a.at
      BY <1>4, <2>3 DEF Before
    <3>1. i < m /\ i \in DOMAIN l.sessions
      BY <2>3
    <3>2. l.sessions[i].to # Open /\ l.sessions[i].to <= l.sessions[m].from /\ l.sessions[i].from <= l.sessions[i].to
      BY <1>2, <3>1 DEF InOrder
    <3>3. l.sessions[i].from \in Int /\ l.sessions[i].to \in Int
      BY <1>2, <3>1, SessionFacts
    <3> QED BY <1>3, <3>2, <3>3
  <2>5. y.status \in Sources(a.kind)
    <3>1. CASE n = 0
      <4>1. y.sessions = <<>>
        BY <1>1, <1>4, <3>1, SessionFacts
      <4>2. y.status = "scheduled"
        BY <1>1, <2>2, <4>1 DEF Told, Pending, Finished
      <4>3. d.sessions = <<>>
        BY <3>1, PairFacts, SessionFacts
      <4>4. Base(d, l) = "scheduled"
        BY <2>1, <4>3, PairFacts DEF Base, Told, ReopenTarget, Pending, Finished
      <4> QED BY <3>1, <4>2, <4>4 DEF a, Beginning, Sources
    <3>2. CASE n # 0
      <4>1. n \in 1 .. n /\ y.sessions # <<>>
        BY <1>1, <1>4, <3>2, SessionFacts
      <4>2. l.sessions[n].to # Open
        BY <1>2, <2>3, <4>1 DEF InOrder
      <4>3. ~ Running(y.sessions)
        BY <1>4, <2>3, <4>1, <4>2 DEF Running
      <4>4. y.status = "paused"
        BY <1>1, <2>2, <4>1, <4>3 DEF Told, Pending
      <4>5. a.kind = "resume"
        BY <3>2 DEF a, Beginning
      <4> QED BY <4>4, <4>5 DEF Sources
    <3> QED BY <3>1, <3>2
  <2> QED BY <1>5, <2>4, <2>5, TakesAction
<1> QED BY <1>3, <1>6, <1>7 DEF z, a

\* Two messages after others: one, and then the other.
LEMMA TwoMore ==
    ASSUME NEW T, NEW c \in Seq(T), NEW a \in T, NEW b \in T
    PROVE  c \o (<<a>> \o <<b>>) = (c \o <<a>>) \o <<b>>
<1>1. <<a>> \in Seq(T) /\ <<b>> \in Seq(T)
  OBVIOUS
<1> QED BY <1>1, ConcatAssociative

\* A push that has come to y, after the first n sessions: refused, or all of them gone through.
Along(d, l, c, n) ==
    /\ c \in Seq(Message(now))
    /\ Replay(d, c) # Refused => GoneThrough(Replay(d, c), d, l, n)
    /\ Smooth(d, l) => Replay(d, c) # Refused

\* What is not refused is a live attempt, and whatever follows a refusal is refused.
LEMMA AlongFacts ==
    ASSUME now \in 0 .. MaxTime, NEW d, NEW l, Pair(d, l), NEW c \in Seq(Message(now)), NEW a \in Message(now)
    PROVE  /\ Replay(d, c) # Refused => Sound(Replay(d, c)) /\ Live(Replay(d, c))
           /\ c \o <<a>> = Append(c, a) /\ c \o <<a>> \in Seq(Message(now))
           /\ Replay(d, c) = Refused => Replay(d, c \o <<a>>) = Refused
           /\ Replay(d, c) # Refused => Replay(d, c \o <<a>>) = Takes(Replay(d, c), a)
<1>1. Sound(d) /\ Exists(d) /\ ByTime(d, now) /\ ~ d.deleted
  BY DEF Pair, Live
<1>2. Replay(d, c) # Refused => Sound(Replay(d, c)) /\ Live(Replay(d, c))
  BY <1>1, ReplaySound DEF Live
<1>3. c \o <<a>> = Append(c, a) /\ c \o <<a>> \in Seq(Message(now))
  BY OneMore, AppendProperties
<1>4. /\ Replay(d, c) = Refused => Replay(d, Append(c, a)) = Refused
      /\ Replay(d, c) # Refused => Replay(d, Append(c, a)) = Takes(Replay(d, c), a)
  BY <1>1, ReplayTakes
<1> QED BY <1>2, <1>3, <1>4

\* The push goes through one session more.
LEMMA AlongMore ==
    ASSUME now \in 0 .. MaxTime, NEW d, NEW l, Pair(d, l), NEW n \in Nat, n + 1 \in 1 .. Len(l.sessions),
           NEW c, Along(d, l, c, n)
    PROVE  Along(d, l, c \o SessionActions(d, l, n + 1), n + 1)
<1> DEFINE S == Message(now)
           s == SessionActions(d, l, n + 1)
           y == Replay(d, c)
           b == Beginning(d, l, n + 1)
           ended == l.sessions[n + 1].to # Open
<1>1. /\ c \in Seq(S) /\ (y # Refused => GoneThrough(y, d, l, n)) /\ (Smooth(d, l) => y # Refused)
  BY DEF Along
<1>2. Change(now) \subseteq S
  BY DEF Change, Message
<1>3. s = IF n + 1 > Len(d.sessions) THEN <<b>> \o (IF ended THEN Close(l, n + 1) ELSE <<>>)
          ELSE IF Silent(d, l, n + 1) THEN <<>> ELSE Close(l, n + 1)
  <2>1. n + 1 > Len(d.sessions) <=> ~ (n + 1 <= Len(d.sessions))
    BY PairFacts
  <2> QED BY <2>1, Zenon DEF SessionActions, Silent, Beginning
<1>4. ASSUME ended
      PROVE  \E a \in Change(now) :
              /\ Close(l, n + 1) = <<a>> /\ a.at = l.sessions[n + 1].to
              /\ \/ a.kind = "pause"
                 \/ /\ a.kind \in Finishing /\ n + 1 = Len(l.sessions)
                    /\ l.status = Target(a.kind) /\ l.final = a.at
  BY <1>4, CloseKind
<1>5. CASE Silent(d, l, n + 1)
  <2>1. c \o s = c
    BY <1>1, <1>3, <1>5, PairFacts, ConcatEmptySeq DEF Silent
  <2>2. y # Refused => GoneThrough(y, d, l, n + 1)
    BY <1>1, <1>5, SilentStep
  <2> QED BY <1>1, <2>1, <2>2 DEF Along
<1>6. CASE ~ Silent(d, l, n + 1) /\ n + 1 <= Len(d.sessions)
  <2>1. s = Close(l, n + 1) /\ ended
    BY <1>3, <1>6, PairFacts DEF Silent
  <2>2. PICK a \in Change(now) :
              /\ s = <<a>> /\ a.at = l.sessions[n + 1].to
              /\ \/ a.kind = "pause"
                 \/ /\ a.kind \in Finishing /\ n + 1 = Len(l.sessions)
                    /\ l.status = Target(a.kind) /\ l.final = a.at
    BY <1>4, <2>1
  <2>3. /\ c \o s \in Seq(S)
        /\ y = Refused => Replay(d, c \o s) = Refused
        /\ y # Refused => Sound(y) /\ Live(y) /\ Replay(d, c \o s) = Takes(y, a)
    <3>1. a \in S
      BY <1>2
    <3>2. /\ c \o <<a>> \in Seq(S)
          /\ y = Refused => Replay(d, c \o <<a>>) = Refused
          /\ y # Refused => Sound(y) /\ Live(y) /\ Replay(d, c \o <<a>>) = Takes(y, a)
      BY <1>1, <3>1, AlongFacts
    <3> HIDE DEF s, y, S
    <3> QED BY <2>2, <3>2
  <2>4. y # Refused => Takes(y, a) # Refused /\ GoneThrough(Takes(y, a), d, l, n + 1)
    <3> SUFFICES ASSUME y # Refused PROVE Takes(y, a) # Refused /\ GoneThrough(Takes(y, a), d, l, n + 1)
      OBVIOUS
    <3>1. Halfway(y, d, l, n)
      BY <1>1, <1>6, <2>3, HalfwayThere
    <3> HIDE DEF y
    <3> QED BY <2>1, <2>2, <2>3, <3>1, HalfwayEnds
  <2> HIDE DEF y, s
  <2> QED BY <1>1, <2>3, <2>4 DEF Along, s
<1>7. CASE n + 1 > Len(d.sessions)
  <2> DEFINE z == Takes(y, b)
  <2>1. y # Refused => /\ Sound(y) /\ Live(y) /\ b \in Change(now)
                       /\ z # Refused => Halfway(z, d, l, n)
                       /\ Smooth(d, l) => z # Refused
    <3>1. ASSUME y # Refused PROVE Sound(y) /\ Live(y)
      BY <1>1, <3>1, ReplaySound DEF Pair, Live
    <3> HIDE DEF y
    <3> QED BY <1>1, <1>7, <3>1, HalfwayBegins
  <2>2. b \in S
    <3>1. l.sessions \in Seq(Session) /\ n + 1 \in DOMAIN l.sessions /\ Before(l.sessions, now)
      BY PairFacts DEF Pair, ByTime
    <3>2. l.sessions[n + 1].from \in 1 .. now
      BY <3>1, SessionFacts DEF Before
    <3> QED BY <3>2 DEF Beginning, Message, Kinds
  <2> HIDE DEF b
  <2>3. /\ c \o <<b>> \in Seq(S)
        /\ y = Refused => Replay(d, c \o <<b>>) = Refused
        /\ y # Refused => Replay(d, c \o <<b>>) = z
    BY <1>1, <2>2, AlongFacts
  <2>4. CASE ~ ended
    <3>1. c \o s = c \o <<b>>
      <4>1. s = <<b>> \o <<>> /\ <<b>> \in Seq(S)
        BY <1>3, <1>7, <2>2, <2>4
      <4> QED BY <4>1, ConcatEmptySeq
    <3>2. z # Refused /\ Halfway(z, d, l, n) => GoneThrough(z, d, l, n + 1)
      <4> HIDE DEF z
      <4> QED BY <2>4, HalfwayRuns
    <3> HIDE DEF z, y, s
    <3> QED BY <1>1, <2>1, <2>3, <3>1, <3>2 DEF Along, s
  <2>5. CASE ended
    <3>1. PICK a \in Change(now) :
              /\ Close(l, n + 1) = <<a>> /\ a.at = l.sessions[n + 1].to
              /\ \/ a.kind = "pause"
                 \/ /\ a.kind \in Finishing /\ n + 1 = Len(l.sessions)
                    /\ l.status = Target(a.kind) /\ l.final = a.at
      BY <1>4, <2>5
    <3>2. c \o s = (c \o <<b>>) \o <<a>>
      <4>1. s = <<b>> \o <<a>>
        BY <1>3, <1>7, <2>5, <3>1
      <4>2. a \in S
        BY <1>2
      <4> HIDE DEF S, s
      <4>3. c \o (<<b>> \o <<a>>) = (c \o <<b>>) \o <<a>>
        BY <1>1, <2>2, <4>2, TwoMore
      <4> QED BY <4>1, <4>3
    <3> DEFINE q == c \o <<b>>
               x == Replay(d, q)
    <3>3. q \in Seq(S) /\ a \in S /\ (y = Refused => x = Refused) /\ (y # Refused => x = z)
      BY <1>2, <2>3
    <3> HIDE DEF q
    <3>4. /\ q \o <<a>> \in Seq(S)
          /\ x = Refused => Replay(d, q \o <<a>>) = Refused
          /\ x # Refused => Sound(x) /\ Live(x) /\ Replay(d, q \o <<a>>) = Takes(x, a)
      BY <3>3, AlongFacts
    <3> HIDE DEF x, y, z, s
    <3>5. x # Refused => Halfway(x, d, l, n)
      BY <2>1, <3>3
    <3>6. x # Refused => Takes(x, a) # Refused /\ GoneThrough(Takes(x, a), d, l, n + 1)
      BY <2>5, <3>1, <3>4, <3>5, HalfwayEnds
    <3>7. Smooth(d, l) => x # Refused
      BY <1>1, <2>1, <3>3
    <3> QED BY <3>2, <3>4, <3>6, <3>7 DEF Along, q, s, x
  <2> QED BY <2>4, <2>5
<1> QED BY <1>5, <1>6, <1>7, PairFacts

\* A push begins by reopening what was finished and is not any more.
LEMMA AlongStart ==
    ASSUME now \in 0 .. MaxTime, NEW d, NEW l, Pair(d, l)
    PROVE  Along(d, l, ReopenPart(d, l), 0)
<1> DEFINE p == ReopenPart(d, l)
           S == Message(now)
<1>1. /\ Sound(d) /\ Exists(d) /\ ByTime(d, now) /\ Live(d) /\ Sound(l) /\ Exists(l) /\ ByTime(l, now)
      /\ d.status \in Pending \cup Finished
  BY DEF Pair, Live, Sound, Exists, Execution
<1>2. p \in Seq(S)
  BY <1>1, PartsFacts
<1>3. Reached(d, 0) = Len(d.sessions) /\ \A i \in 1 .. Len(d.sessions) : Piece(d, l, 0, i) = d.sessions[i]
  BY PairFacts DEF Reached, Piece
<1>4. CASE Base(d, l) = d.status
  <2>1. p = <<>> /\ Replay(d, p) = d
    BY <1>4, ReplayNone DEF ReopenPart
  <2>2. d # Refused
    BY <1>1, SoundNotRefused
  <2>3. GoneThrough(d, d, l, 0)
    BY <1>1, <1>3, <1>4 DEF GoneThrough, Underway
  <2> QED BY <1>2, <2>1, <2>2, <2>3 DEF Along
<1>5. CASE Base(d, l) # d.status
  <2> DEFINE m == [kind |-> "reopen", at |-> now]
  <2>1. p = <<m>> /\ m.kind = "reopen" /\ m.at = now
    BY <1>5 DEF ReopenPart
  <2>2. d.status \in Sources("reopen") /\ Base(d, l) = ReopenTarget(d.sessions # <<>>)
    BY <1>5 DEF Base
  <2> HIDE DEF m
  <2>3. m \in S
    <3>1. Len(<<m>>) = 1 /\ 1 \in 1 .. 1 /\ <<m>>[1] = m
      OBVIOUS
    <3> HIDE DEF S
    <3> QED BY <1>2, <2>1, <3>1, ElementOfSeq
  <2>4. now \in 1 .. MaxTime
    <3>1. m.at \in 1 .. now
      BY <2>1, <2>3 DEF Message
    <3> QED BY <2>1, <3>1
  <2>5. Replay(d, p) = Takes(d, m)
    <3>1. <<>> \in Seq(S) /\ p = Append(<<>>, m) /\ d # Refused
      BY <1>1, <2>1, SoundNotRefused
    <3>2. Replay(d, <<>>) # Refused => Replay(d, Append(<<>>, m)) = Takes(Replay(d, <<>>), m)
      BY <1>1, <2>3, <3>1, ReplayTakes
    <3> QED BY <3>1, <3>2, ReplayNone
  <2>6. Takes(d, m) # Refused /\ Performs(d, Takes(d, m), "reopen", now)
    <3>1. m.kind \in Kinds /\ m.at \in 1 .. MaxTime /\ d.status \in Sources(m.kind) /\ Before(d.sessions, m.at)
      BY <1>1, <2>1, <2>2, <2>4 DEF Kinds, ByTime
    <3> QED BY <1>1, <2>1, <3>1, TakesAction
  <2> DEFINE z == Takes(d, m)
  <2>7. z.sessions = d.sessions /\ z.rating = d.rating /\ z.status \in Pending
    BY <2>6 DEF Performs, Starting, ReopenTarget, Pending
  <2> HIDE DEF z
  <2>8. GoneThrough(z, d, l, 0)
    BY <1>3, <2>7 DEF GoneThrough, Underway
  <2> QED BY <1>2, <2>5, <2>6, <2>8 DEF Along, z
<1> QED BY <1>4, <1>5

\* With Work, a push has gone through all sessions.
LEMMA AlongWork ==
    ASSUME now \in 0 .. MaxTime, NEW d, NEW l, Pair(d, l)
    PROVE  Along(d, l, ReopenPart(d, l) \o Work(d, l), Len(l.sessions))
<1> DEFINE p == ReopenPart(d, l)
           L == Len(l.sessions)
           S == Message(now)
<1>1. L \in Nat /\ Along(d, l, p, 0) /\ p \in Seq(S)
  BY PairFacts, AlongStart DEF Along
<1>2. PICK f : Recalls(f, d, l, L) /\ Work(d, l) = f[L]
  BY <1>1, WorkRecalls
<1>3. f[0] = <<>> /\ \A n \in 0 .. L - 1 : f[n + 1] = f[n] \o SessionActions(d, l, n + 1)
  <2>1. 0 \in 0 .. L /\ \A n \in 0 .. L - 1 : n + 1 \in 0 .. L /\ n + 1 # 0 /\ (n + 1) - 1 = n
    BY <1>1
  <2> HIDE DEF L
  <2>2. \A n \in 0 .. L : f[n] = IF n = 0 THEN <<>> ELSE Further(f[n - 1], d, l, n)
    BY <1>2 DEF Recalls
  <2> QED BY <2>1, <2>2 DEF Further
<1>4. \A n \in 0 .. L - 1 : SessionActions(d, l, n + 1) \in Seq(S)
  <2> TAKE n \in 0 .. L - 1
  <2>1. n + 1 \in DOMAIN l.sessions /\ Sound(l) /\ ByTime(l, now) /\ Len(d.sessions) \in Nat
    BY <1>1, PairFacts DEF Pair
  <2>2. SessionActions(d, l, n + 1) \in Seq(Change(now))
    BY <2>1, SessionActionsFacts
  <2>3. Change(now) \subseteq S
    BY DEF Change, Message
  <2> HIDE DEF S
  <2> QED BY <2>2, <2>3, SeqMonotonic
<1> HIDE DEF p, S
<1> DEFINE Gone0(n) == f[n] \in Seq(S) /\ Along(d, l, p \o f[n], n)
           Off == {n \in 0 .. L : ~ Gone0(n)}
<1>5. Gone0(0)
  <2>1. f[0] = <<>> /\ f[0] \in Seq(S) /\ p \o f[0] = p
    BY <1>1, <1>3, ConcatEmptySeq, EmptySeq
  <2> QED BY <1>1, <2>1
<1>6. ASSUME NEW n \in 0 .. L - 1, Gone0(n)
      PROVE  Gone0(n + 1)
  <2> DEFINE s == SessionActions(d, l, n + 1)
  <2>1. s \in Seq(S) /\ f[n] \in Seq(S) /\ p \in Seq(S) /\ f[n + 1] = f[n] \o s
    BY <1>1, <1>3, <1>4, <1>6
  <2>2. Along(d, l, (p \o f[n]) \o s, n + 1)
    BY <1>1, <1>6, AlongMore
  <2> HIDE DEF s
  <2>3. f[n] \o s \in Seq(S) /\ p \o (f[n] \o s) = (p \o f[n]) \o s
    <3>1. ASSUME NEW a \in Seq(S), NEW b \in Seq(S), NEW c \in Seq(S)
          PROVE  b \o c \in Seq(S) /\ a \o (b \o c) = (a \o b) \o c
      <4>1. b \o c \in Seq(S)
        BY ConcatProperties
      <4>2. a \o (b \o c) = (a \o b) \o c
        BY ConcatAssociative, SMTT(30)
      <4> QED BY <4>1, <4>2
    <3> QED BY <2>1, <3>1
  <2> QED BY <2>1, <2>2, <2>3
<1>7. Off = {}
  <2> SUFFICES ASSUME Off # {} PROVE FALSE
    OBVIOUS
  <2>1. Off \in SUBSET Nat
    OBVIOUS
  <2>2. PICK k \in Off : \A i \in Off : k <= i
    <3> HIDE DEF Off
    <3> QED BY <2>1, LeastNumber
  <2>3. k \in 0 .. L /\ k # 0 /\ ~ Gone0(k)
    BY <1>5, <2>2
  <2>4. PICK n \in 0 .. L - 1 : k = n + 1 /\ ~ (k <= n) /\ n \in 0 .. L
    BY <1>1, <2>3
  <2>5. Gone0(n)
    BY <2>2, <2>4
  <2> QED BY <1>6, <2>3, <2>4, <2>5
<1>8. L \in 0 .. L
  BY <1>1
<1> QED BY <1>2, <1>7, <1>8 DEF p

\* Feedback on a live attempt is taken, and changes nothing else.
LEMMA FeedbackTakes ==
    ASSUME NEW y, Sound(y), Live(y), NEW a, a.kind = "feedback"
    PROVE  LET z == Takes(y, a) IN
           /\ z # Refused
           /\ z.status = y.status /\ z.sessions = y.sessions /\ z.final = y.final /\ z.rating = a.at
<1>1. y \in Execution /\ y # Refused /\ ~ y.deleted /\ y.version \in Nat
  BY SoundNotRefused DEF Sound, Live, Execution
<1>2. Takes(y, a) = [y EXCEPT !.rating = a.at, !.version = y.version + 1]
  BY <1>1 DEF Takes, Applied, Op, Execution
<1> DEFINE z == Takes(y, a)
<1>3. /\ z.status = y.status /\ z.sessions = y.sessions /\ z.final = y.final /\ z.rating = a.at
      /\ z.version = y.version + 1
  BY <1>1, <1>2 DEF Execution
<1> HIDE DEF z
<1>4. z # Refused
  BY <1>1, <1>3 DEF Refused, Absent
<1> QED BY <1>3, <1>4 DEF z

\* Two finished attempts that look finished by the same action have as many sessions.
AsLong(x, y) == x.final = y.final /\ x.final # Unset => Len(x.sessions) = Len(y.sessions)

\* What the device did not reopen, it has as the server has it.
LEMMA NotReopenedSame ==
    ASSUME NEW d, NEW l, Pair(d, l), Compatible(d, l), AsLong(d, l), Base(d, l) \in Finished
    PROVE  d.status = l.status /\ d.final = l.final /\ Len(l.sessions) = Len(d.sessions)
<1>1. Told(d) /\ Told(l) /\ d.status = Base(d, l)
  BY PairFacts DEF Base, ReopenTarget, Finished
<1>2. CASE d.status = "cancelled"
  <2>1. l.status = d.status /\ l.final = d.final
    BY <1>2 DEF Compatible
  <2>2. d.final # Unset
    BY <1>1 DEF Told
  <2> QED BY <2>1, <2>2 DEF AsLong
<1>3. CASE d.status # "cancelled"
  <2>1. d.status \in Sources("reopen")
    BY <1>1, <1>3 DEF Sources, Finished
  <2>2. ~ ReopenedHere(d, l)
    BY <1>1, <2>1 DEF Base, ReopenTarget, Finished
  <2>3. l.status \in Finished /\ l.status = d.status
    BY <2>2 DEF ReopenedHere
  <2>4. d.final # Unset /\ l.final # Unset
    BY <1>1, <2>3 DEF Told
  <2>5. l.final = d.final
    BY <2>2, <2>4 DEF ReopenedHere
  <2> QED BY <2>3, <2>4, <2>5 DEF AsLong
<1> QED BY <1>2, <1>3

\* Nothing is in the way of such changes.
LEMMA CompatibleSmooth ==
    ASSUME NEW d, NEW l, Pair(d, l), Compatible(d, l), AsLong(d, l)
    PROVE  Smooth(d, l)
<1>1. d.status \in Pending \cup Finished
  BY DEF Pair, Live, Sound, Exists, Execution
<1>2. Base(d, l) \in Pending \cup Finished
  BY <1>1 DEF Base, ReopenTarget, Pending
<1> QED BY <1>2, NotReopenedSame DEF Smooth

\* After Work: as many sessions as the device has, and the very same if nothing is in the way.
LEMMA WorkExact ==
    ASSUME now \in 0 .. MaxTime, NEW d, NEW l, Pair(d, l)
    PROVE  LET y == Replay(d, ReopenPart(d, l) \o Work(d, l)) IN
           /\ y # Refused => /\ Sound(y) /\ Live(y) /\ Len(y.sessions) = Len(l.sessions)
                             /\ y.rating = d.rating /\ y.status = StatusAfter(d, l)
                             /\ Underway(y, d, l, Len(l.sessions))
                             /\ Compatible(d, l) => y.sessions = l.sessions
           /\ Smooth(d, l) => y # Refused
<1> DEFINE c == ReopenPart(d, l) \o Work(d, l)
           y == Replay(d, c)
           L == Len(l.sessions)
<1>1. Along(d, l, c, L)
  BY AlongWork
<1>2. Sound(d) /\ Exists(d) /\ ByTime(d, now) /\ Sound(l) /\ Exists(l) /\ ByTime(l, now) /\ ~ d.deleted
  BY DEF Pair, Live
<1>3. y # Refused => y.status = StatusAfter(d, l)
  BY <1>2, AfterWork
<1> HIDE DEF c
<1>4. c \in Seq(Message(now))
  BY <1>1 DEF Along
<1>5. y # Refused => Sound(y) /\ Live(y)
  BY <1>2, <1>4, ReplaySound DEF Live
<1>6. (y # Refused => GoneThrough(y, d, l, L)) /\ (Smooth(d, l) => y # Refused)
  BY <1>1 DEF Along
<1> HIDE DEF y
<1>7. Reached(d, L) = L /\ L \in Nat
  BY PairFacts DEF Reached
<1>8. ASSUME y # Refused, Compatible(d, l)
      PROVE  y.sessions = l.sessions
  <2>1. y.sessions \in Seq(Session) /\ l.sessions \in Seq(Session) /\ Len(y.sessions) = L
    BY <1>5, <1>6, <1>7, <1>8, PairFacts DEF Sound, Execution, GoneThrough
  <2>2. \A i \in 1 .. L : y.sessions[i] = l.sessions[i]
    <3> TAKE i \in 1 .. L
    <3>1. y.sessions[i] = Piece(d, l, L, i)
      BY <1>6, <1>7, <1>8 DEF GoneThrough
    <3>2. L \in 0 .. L
      BY <1>7
    <3> QED BY <1>8, <3>1, <3>2, PieceSmooth
  <2> QED BY <2>1, <2>2, SeqEqual
<1> QED BY <1>3, <1>5, <1>6, <1>7, <1>8 DEF GoneThrough, y, c

\* And after the action that finishes an attempt later than its last session.
LEMMA VerbExact ==
    ASSUME now \in 0 .. MaxTime, NEW d, NEW l, Pair(d, l)
    PROVE  LET b == (ReopenPart(d, l) \o Work(d, l)) \o VerbPart(d, l)
               z == Replay(d, b)
           IN
           /\ b \in Seq(Message(now))
           /\ z # Refused => /\ Sound(z) /\ Live(z) /\ Len(z.sessions) = Len(l.sessions)
                             /\ z.rating = d.rating
           /\ Compatible(d, l) /\ AsLong(d, l) =>
                 z # Refused /\ z.status = l.status /\ z.sessions = l.sessions /\ z.final = l.final
<1> DEFINE a == ReopenPart(d, l) \o Work(d, l)
           v == VerbPart(d, l)
           y == Replay(d, a)
           b == a \o v
           z == Replay(d, b)
           S == Message(now)
<1>1. /\ Sound(d) /\ Exists(d) /\ ByTime(d, now) /\ Sound(l) /\ Exists(l) /\ ByTime(l, now)
      /\ Told(d) /\ Told(l) /\ l.status \in Pending \cup Finished /\ l.final \in Nat
      /\ l.sessions \in Seq(Session) /\ InOrder(l.sessions)
  BY LifecycleAssumption DEF Pair, Live, Sound, Exists, Execution, Instants
<1>2. a \in Seq(S) /\ v \in Seq(S)
  <2>1. ReopenPart(d, l) \in Seq(S) /\ Work(d, l) \in Seq(S) /\ v \in Seq(S)
    BY <1>1, PartsFacts
  <2> QED BY <2>1, ConcatProperties
<1>3. /\ y # Refused => /\ Sound(y) /\ Live(y) /\ Len(y.sessions) = Len(l.sessions)
                        /\ y.rating = d.rating /\ y.status = StatusAfter(d, l)
                        /\ Underway(y, d, l, Len(l.sessions))
                        /\ Compatible(d, l) => y.sessions = l.sessions
      /\ Smooth(d, l) => y # Refused
  BY WorkExact
<1>4. Compatible(d, l) /\ AsLong(d, l) => Smooth(d, l)
  BY CompatibleSmooth
<1> HIDE DEF a
<1>5. CASE ~ (l.status \in Finished /\ StatusAfter(d, l) # l.status)
  <2>1. v = <<>>
    BY <1>5 DEF VerbPart
  <2> HIDE DEF v
  <2>2. b = a
    BY <1>2, <2>1, ConcatEmptySeq
  <2>3. l.status \notin Finished => StatusAfter(d, l) = l.status
    BY DEF Pair, Diverged
  <2>4. StatusAfter(d, l) = l.status
    BY <1>5, <2>3
  <2> HIDE DEF y
  <2>5. ASSUME y # Refused, Compatible(d, l), AsLong(d, l)
        PROVE  y.status = l.status /\ y.sessions = l.sessions /\ y.final = l.final
    <3>1. y.status = l.status /\ y.sessions = l.sessions /\ Told(y) /\ Underway(y, d, l, Len(l.sessions))
      BY <1>3, <2>4, <2>5 DEF Sound, Live
    <3>2. CASE l.status \in Finished
      <4>1. y.status \notin Pending
        BY <3>1, <3>2 DEF Pending, Finished
      <4>2. CASE y.final = l.final
        BY <3>1, <4>2
      <4>3. CASE y = d /\ Base(d, l) \in Finished
        BY <2>5, <3>1, <4>3, NotReopenedSame
      <4> QED BY <3>1, <4>1, <4>2, <4>3 DEF Underway
    <3>3. CASE l.status \notin Finished
      BY <1>1, <3>1, <3>3 DEF Told
    <3> QED BY <3>2, <3>3
  <2>6. /\ b \in Seq(S)
        /\ y # Refused => /\ Sound(y) /\ Live(y) /\ Len(y.sessions) = Len(l.sessions)
                          /\ y.rating = d.rating
        /\ Compatible(d, l) /\ AsLong(d, l) =>
              y # Refused /\ y.status = l.status /\ y.sessions = l.sessions /\ y.final = l.final
    <3> HIDE DEF b
    <3> QED BY <1>2, <1>3, <1>4, <2>2, <2>5
  <2>7. z = y
    <3> HIDE DEF b
    <3> QED BY <2>2 DEF y
  <2> HIDE DEF b
  <2>8. z = Replay(d, b)
    OBVIOUS
  <2> HIDE DEF z
  <2> QED BY <2>6, <2>7, <2>8 DEF a, v, b, z
<1>6. CASE l.status \in Finished /\ StatusAfter(d, l) # l.status
  <2> DEFINE m == [kind |-> Verb(l.status), at |-> l.final]
  <2>1. v = <<m>> /\ m.at = l.final /\ m.kind = Verb(l.status)
    BY <1>6 DEF VerbPart
  <2> HIDE DEF m
  <2>2. m \in S
    <3>1. Len(<<m>>) = 1 /\ 1 \in 1 .. 1 /\ <<m>>[1] = m
      OBVIOUS
    <3> HIDE DEF S, v
    <3> QED BY <1>2, <2>1, <3>1, ElementOfSeq
  <2>3. m.kind \in Finishing /\ m.kind \in Kinds /\ Target(m.kind) = l.status
    BY <1>6, <2>1 DEF Verb, Finishing, Kinds, Target, Finished
  <2>4. m.at \in 1 .. MaxTime
    BY <2>2, <2>3, LifecycleAssumption DEF Message, Finishing
  <2>5. /\ b \in Seq(S) /\ (y = Refused => z = Refused)
        /\ y # Refused => z = Takes(y, m)
    <3>1. b = a \o <<m>>
      BY <2>1
    <3>2. /\ a \o <<m>> \in Seq(S)
          /\ y = Refused => Replay(d, a \o <<m>>) = Refused
          /\ y # Refused => Replay(d, a \o <<m>>) = Takes(y, m)
      BY <1>2, <2>2, AlongFacts
    <3> QED BY <3>1, <3>2
  <2> HIDE DEF b
  <2>6. z # Refused => Sound(z) /\ Live(z)
    <3>1. Sound(d) /\ Exists(d) /\ ByTime(d, now) /\ ~ d.deleted
      BY DEF Pair, Live
    <3> QED BY <2>5, <3>1, ReplaySound DEF Live
  <2> HIDE DEF y, z
  <2>7. ASSUME z # Refused
        PROVE  /\ z.sessions = Ended(y.sessions, m.at) /\ z.rating = d.rating
               /\ z.status = l.status /\ z.final = l.final /\ Before(y.sessions, m.at)
    <3>1. y # Refused /\ Performs(y, z, m.kind, m.at) /\ Before(y.sessions, m.at)
      BY <1>3, <2>3, <2>4, <2>5, <2>7, TakesAction
    <3> QED BY <1>3, <2>1, <2>3, <3>1 DEF Performs, Finishing, Starting
  <2>8. ASSUME z # Refused
        PROVE  Len(z.sessions) = Len(l.sessions)
    <3>1. y.sessions \in Seq(Session) /\ InOrder(y.sessions) /\ Len(y.sessions) = Len(l.sessions)
      BY <1>3, <2>5, <2>8 DEF Sound, Execution
    <3> QED BY <2>4, <2>7, <2>8, <3>1, Closing
  <2>9. ASSUME Compatible(d, l), AsLong(d, l)
        PROVE  z # Refused /\ z.sessions = l.sessions
    <3>1. y # Refused /\ y.sessions = l.sessions /\ Sound(y) /\ Live(y) /\ Underway(y, d, l, Len(l.sessions))
          /\ y.status # l.status
      BY <1>3, <1>4, <1>6, <2>9
    <3>2. y.status \in Pending
      <4>1. ~ (y = d /\ Base(d, l) \in Finished)
        BY <2>9, <3>1, NotReopenedSame
      <4> QED BY <3>1, <4>1 DEF Underway
    <3>3. Before(l.sessions, m.at) /\ ~ Running(l.sessions)
      BY <1>1, <1>6, <2>1 DEF Told, Finished
    <3>4. y.status \in Sources(m.kind)
      BY <2>3, <3>2 DEF Sources, Finishing
    <3>5. z # Refused
      BY <2>3, <2>4, <2>5, <3>1, <3>3, <3>4, TakesAction
    <3>6. Ended(l.sessions, m.at) = l.sessions
      BY <1>1, <2>4, <3>3, Closing
    <3> QED BY <2>7, <3>1, <3>5, <3>6
  <2> QED BY <2>5, <2>6, <2>7, <2>8, <2>9 DEF a, v, b, z, m
<1> QED BY <1>5, <1>6

\* All the changes: a push that is not refused leaves as many sessions as the device has, and with
\* nothing in the way it is not refused, and leaves what the device has.
LEMMA PushExact ==
    ASSUME now \in 0 .. MaxTime, NEW d, NEW l, Pair(d, l)
    PROVE  LET x == Replay(d, Changes(d, l)) IN
           /\ x # Refused => Len(x.sessions) = Len(l.sessions)
           /\ Compatible(d, l) /\ AsLong(d, l) =>
                 /\ x # Refused /\ x.status = l.status /\ x.sessions = l.sessions /\ x.final = l.final
                 /\ l.rating # Unset => x.rating = l.rating
<1> DEFINE b == (ReopenPart(d, l) \o Work(d, l)) \o VerbPart(d, l)
           r == RatingPart(d, l)
           z == Replay(d, b)
           S == Message(now)
<1>1. Sound(d) /\ Exists(d) /\ ByTime(d, now) /\ Sound(l) /\ Exists(l) /\ ByTime(l, now)
  BY DEF Pair, Live
<1>2. Changes(d, l) = b \o r /\ r \in Seq(S)
  BY <1>1, PartsFacts
<1>3. /\ b \in Seq(S)
      /\ z # Refused => /\ Sound(z) /\ Live(z) /\ Len(z.sessions) = Len(l.sessions)
                        /\ z.rating = d.rating
      /\ Compatible(d, l) /\ AsLong(d, l) =>
            z # Refused /\ z.status = l.status /\ z.sessions = l.sessions /\ z.final = l.final
  BY VerbExact
<1> HIDE DEF b
<1>4. CASE l.rating \in {Unset, d.rating}
  <2>1. r = <<>>
    BY <1>4 DEF RatingPart
  <2> HIDE DEF r
  <2>2. Changes(d, l) = b
    BY <1>2, <1>3, <2>1, ConcatEmptySeq
  <2> HIDE DEF z
  <2> QED BY <1>3, <1>4, <2>2 DEF z
<1>5. CASE l.rating \notin {Unset, d.rating}
  <2> DEFINE m == [kind |-> "feedback", at |-> l.rating]
  <2>1. r = <<m>> /\ m.kind = "feedback" /\ m.at = l.rating
    BY <1>5 DEF RatingPart
  <2> HIDE DEF m
  <2>2. m \in S
    <3>1. Len(<<m>>) = 1 /\ 1 \in 1 .. 1 /\ <<m>>[1] = m
      OBVIOUS
    <3> HIDE DEF S, r
    <3> QED BY <1>2, <2>1, <3>1, ElementOfSeq
  <2> DEFINE x == Replay(d, Changes(d, l))
  <2>3. (z = Refused => x = Refused) /\ (z # Refused => x = Takes(z, m))
    <3>1. Changes(d, l) = b \o <<m>>
      BY <1>2, <2>1
    <3>2. /\ z = Refused => Replay(d, b \o <<m>>) = Refused
          /\ z # Refused => Replay(d, b \o <<m>>) = Takes(z, m)
      BY <1>3, <2>2, AlongFacts
    <3> QED BY <3>1, <3>2
  <2> HIDE DEF z, x
  <2>4. z # Refused => /\ x # Refused /\ x.status = z.status /\ x.sessions = z.sessions
                       /\ x.final = z.final /\ x.rating = l.rating
    BY <1>3, <2>1, <2>3, FeedbackTakes
  <2> QED BY <1>3, <2>3, <2>4 DEF x
<1> QED BY <1>4, <1>5

-----------------------------------------------------------------------------
(* The actions of an outcome, on the device and on the web.                *)

\* f holds what the first n actions make of x, for every n up to m.
Dones(f, x, acts, at, m) ==
    f = [n \in 0 .. m |-> IF n = 0 THEN x ELSE Done(f[n - 1], acts[n], at)]

\* Actions can be taken one after the other, however many there are.
LEMMA DonesExists ==
    ASSUME NEW x, NEW acts, NEW at, NEW m \in Nat
    PROVE  \E f : Dones(f, x, acts, at, m)
<1> DEFINE None == {k \in Nat : ~ \E f : Dones(f, x, acts, at, k)}
<1>1. SUFFICES ASSUME None # {} PROVE FALSE
  OBVIOUS
<1>2. PICK k \in None : \A n \in None : k <= n
  BY <1>1, LeastNumber
<1>3. k # 0
  <2> DEFINE f == [n \in 0 .. 0 |-> x]
  <2>1. Dones(f, x, acts, at, 0)
    BY DEF Dones
  <2> QED BY <1>2, <2>1
<1>4. PICK f : Dones(f, x, acts, at, k - 1)
  BY <1>2, <1>3
<1> DEFINE g == [n \in 0 .. k |-> IF n = 0 THEN x ELSE Done(f[n - 1], acts[n], at)]
<1> DEFINE G(n) == IF n = 0 THEN x ELSE Done(g[n - 1], acts[n], at)
<1>5. k \in Nat \ {0}
  BY <1>2, <1>3
<1>6. \A n \in 0 .. k - 1 : g[n] = f[n]
  BY <1>4, <1>5 DEF Dones
<1>7. \A n \in 0 .. k : g[n] = G(n)
  <2> TAKE n \in 0 .. k
  <2>1. CASE n = 0
    BY <1>5, <2>1
  <2>2. CASE n # 0
    <3>1. n - 1 \in 0 .. k - 1
      BY <1>5, <2>2
    <3>2. g[n - 1] = f[n - 1]
      BY <1>6, <3>1
    <3> QED BY <2>2, <3>2
  <2> QED BY <2>1, <2>2
<1>8. Dones(g, x, acts, at, k)
  <2>1. g = [i \in 0 .. k |-> g[i]]
    OBVIOUS
  <2>2. g = [n \in 0 .. k |-> G(n)]
    <3> HIDE DEF g
    <3> QED BY <1>7, <2>1
  <2> HIDE DEF g
  <2> QED BY <2>2 DEF Dones
<1> QED BY <1>2, <1>8

\* DoneAll is the last of those states.
LEMMA DoneAllDones ==
    ASSUME NEW x, NEW acts, NEW at, Len(acts) \in Nat
    PROVE  \E f : Dones(f, x, acts, at, Len(acts)) /\ DoneAll(x, acts, at) = f[Len(acts)]
<1> DEFINE f == CHOOSE f : Dones(f, x, acts, at, Len(acts))
<1>1. Dones(f, x, acts, at, Len(acts))
  BY DonesExists
<1>2. DoneAll(x, acts, at) = f[Len(acts)]
  BY DEF DoneAll, Dones
<1> QED BY <1>1, <1>2

\* A single action.
LEMMA DoneOne ==
    ASSUME NEW x, NEW act, NEW at
    PROVE  DoneAll(x, <<act>>, at) = Done(x, act, at)
<1> DEFINE acts == <<act>>
<1>1. Len(acts) = 1 /\ Len(acts) \in Nat /\ acts[1] = act
  OBVIOUS
<1> HIDE DEF acts
<1>2. PICK f : Dones(f, x, acts, at, Len(acts)) /\ DoneAll(x, acts, at) = f[Len(acts)]
  BY <1>1, DoneAllDones
<1>3. f[0] = x /\ f[1] = Done(f[0], acts[1], at)
  BY <1>1, <1>2 DEF Dones
<1> QED BY <1>1, <1>2, <1>3 DEF acts

\* Two actions.
LEMMA DoneTwo ==
    ASSUME NEW x, NEW act, NEW next, NEW at
    PROVE  DoneAll(x, <<act, next>>, at) = Done(Done(x, act, at), next, at)
<1> DEFINE acts == <<act, next>>
<1>1. Len(acts) = 2 /\ Len(acts) \in Nat /\ acts[1] = act /\ acts[2] = next
  OBVIOUS
<1> HIDE DEF acts
<1>2. PICK f : Dones(f, x, acts, at, Len(acts)) /\ DoneAll(x, acts, at) = f[Len(acts)]
  BY <1>1, DoneAllDones
<1>3. f[0] = x /\ f[1] = Done(f[0], acts[1], at) /\ f[2] = Done(f[1], acts[2], at)
  BY <1>1, <1>2 DEF Dones
<1> QED BY <1>1, <1>2, <1>3 DEF acts

\* An outcome takes at most a reopening and a finishing.
LEMMA OutcomeActs ==
    ASSUME NEW status, NEW outcome \in Outcomes
    PROVE  LET acts == OutcomeActions(status, outcome) IN
           /\ acts \in Seq(Kinds)
           /\ \/ acts = <<>>
              \/ acts = <<"reopen">> /\ status \notin Pending
              \/ \E act \in {"complete", "skip"} : acts = <<act>> /\ status \in Pending
              \/ \E act \in {"complete", "skip"} : acts = <<"reopen", act>> /\ status \notin Pending
<1>1. outcome \in {"pending", "completed", "skipped"}
  BY LifecycleAssumption
<1>2. LET acts == OutcomeActions(status, outcome) IN
      \/ acts = <<>>
      \/ acts = <<"reopen">> /\ status \notin Pending
      \/ acts = <<"complete">> /\ status \in Pending
      \/ acts = <<"skip">> /\ status \in Pending
      \/ acts = <<"reopen", "complete">> /\ status \notin Pending
      \/ acts = <<"reopen", "skip">> /\ status \notin Pending
  <2>1. /\ Append(<<>>, "complete") = <<"complete">> /\ Append(<<>>, "skip") = <<"skip">>
        /\ Append(<<"reopen">>, "complete") = <<"reopen", "complete">>
        /\ Append(<<"reopen">>, "skip") = <<"reopen", "skip">>
    <3>1. ASSUME NEW a, NEW b PROVE Append(<<>>, a) = <<a>> /\ Append(<<b>>, a) = <<b, a>>
      <4> DEFINE S == {a, b}
      <4>1. <<>> \in Seq(S) /\ <<a>> \in Seq(S) /\ <<b>> \in Seq(S) /\ <<b, a>> \in Seq(S) /\ a \in S
        OBVIOUS
      <4>2. /\ Len(<<>>) = 0 /\ Len(<<a>>) = 1 /\ Len(<<b>>) = 1 /\ Len(<<b, a>>) = 2
            /\ <<a>>[1] = a /\ <<b>>[1] = b /\ <<b, a>>[1] = b /\ <<b, a>>[2] = a
        OBVIOUS
      <4> HIDE DEF S
      <4>3. Append(<<>>, a) \in Seq(S) /\ Len(Append(<<>>, a)) = 1 /\ Append(<<>>, a)[1] = a
        BY <4>1, <4>2, AppendProperties
      <4>4. /\ Append(<<b>>, a) \in Seq(S) /\ Len(Append(<<b>>, a)) = 2
            /\ Append(<<b>>, a)[1] = b /\ Append(<<b>>, a)[2] = a
        BY <4>1, <4>2, AppendProperties
      <4>5. Append(<<>>, a) = <<a>>
        BY <4>1, <4>2, <4>3, SeqEqual
      <4>6. Append(<<b>>, a) = <<b, a>>
        <5> DEFINE u == Append(<<b>>, a)
                   v == <<b, a>>
        <5>1. /\ u \in Seq(S) /\ v \in Seq(S) /\ Len(u) = 2 /\ Len(v) = 2
              /\ u[1] = v[1] /\ u[2] = v[2]
          BY <4>1, <4>2, <4>4
        <5> HIDE DEF u, v
        <5>2. \A i \in 1 .. Len(u) : u[i] = v[i]
          BY <5>1
        <5>3. u = v
          BY <5>1, <5>2, SeqEqual
        <5> QED BY <5>3 DEF u, v
      <4> QED BY <4>5, <4>6
    <3> QED BY <3>1, Zenon
  <2>2. CASE outcome = "pending"
    <3>1. OutcomeActions(status, outcome) = IF status \in Pending THEN <<>> ELSE <<"reopen">>
      BY <2>2 DEF OutcomeActions
    <3> QED BY <3>1, Zenon
  <2>3. CASE outcome = "completed"
    <3>1. OutcomeActions(status, outcome) =
            IF status = "completed" THEN <<>>
            ELSE IF status \in Pending THEN Append(<<>>, "complete") ELSE Append(<<"reopen">>, "complete")
      BY <2>3 DEF OutcomeActions
    <3> QED BY <2>1, <3>1, Zenon
  <2>4. CASE outcome = "skipped"
    <3>1. OutcomeActions(status, outcome) =
            IF status \in {"skipped", "cancelled"} THEN <<>>
            ELSE IF status \in Pending THEN Append(<<>>, "skip") ELSE Append(<<"reopen">>, "skip")
      BY <2>4 DEF OutcomeActions
    <3> QED BY <2>1, <3>1, Zenon
  <2> QED BY <1>1, <2>2, <2>3, <2>4
<1>3. /\ <<>> \in Seq(Kinds) /\ <<"reopen">> \in Seq(Kinds) /\ <<"complete">> \in Seq(Kinds)
      /\ <<"skip">> \in Seq(Kinds) /\ <<"reopen", "complete">> \in Seq(Kinds)
      /\ <<"reopen", "skip">> \in Seq(Kinds)
  BY DEF Kinds
<1> QED BY <1>2, <1>3

\* Setting an outcome keeps a live attempt sound, and its work.
LEMMA OutcomeSound ==
    ASSUME NEW x, Sound(x), Live(x), x.status # "cancelled", NEW outcome \in Outcomes,
           OutcomeActions(x.status, outcome) # <<>>, NEW at \in 1 .. MaxTime, ByTime(x, at)
    PROVE  LET y == DoneAll(x, OutcomeActions(x.status, outcome), at) IN
           /\ Sound(y) /\ ByTime(y, at) /\ Live(y) /\ y.placed = x.placed
           /\ y.final \in {at, Unset} /\ Begun(y) = Begun(x)
<1> DEFINE acts == OutcomeActions(x.status, outcome)
           y == DoneAll(x, acts, at)
           Kept(z) == Sound(z) /\ ByTime(z, at) /\ Live(z) /\ z.placed = x.placed /\ Begun(z) = Begun(x)
<1>1. ASSUME NEW z, Kept(z), NEW act \in {"reopen", "complete", "skip"}, z.status \in Sources(act)
      PROVE  /\ Kept(Done(z, act, at)) /\ Done(z, act, at).final \in {at, Unset}
             /\ act = "reopen" => Done(z, act, at).status \in Pending
  <2> DEFINE u == Done(z, act, at)
  <2>1. act \in Kinds /\ act \notin Starting
    BY DEF Kinds, Starting
  <2>2. /\ Sound(u) /\ ByTime(u, at) /\ Live(u) /\ u.placed = z.placed
        /\ u.status = (IF act = "reopen" THEN ReopenTarget(z.sessions # <<>>) ELSE Target(act))
        /\ u.final = (IF act \in Finishing THEN at ELSE Unset)
        /\ Begun(u) = Begun(z) \cup (IF act \in Starting THEN {at} ELSE {})
    BY <1>1, <2>1, DoneSound
  <2> HIDE DEF u
  <2>3. Begun(u) = Begun(z) /\ u.final \in {at, Unset}
    BY <2>1, <2>2
  <2>4. act = "reopen" => u.status \in Pending
    BY <2>2 DEF ReopenTarget, Pending
  <2>5. Kept(u)
    BY <1>1, <2>2, <2>3
  <2> QED BY <2>3, <2>4, <2>5 DEF u
<1>2. Kept(x)
  OBVIOUS
<1>3. SUFFICES Kept(y) /\ y.final \in {at, Unset}
  OBVIOUS
<1>4. x.status \notin Pending => x.status \in Sources("reopen")
  BY DEF Sound, Execution, Live, Exists, Sources, Finished
<1>5. \A act \in {"complete", "skip"} : Sources(act) = Pending
  BY DEF Sources
<1> HIDE DEF acts, Kept
<1>6. CASE acts = <<"reopen">> /\ x.status \notin Pending
  <2>1. y = Done(x, "reopen", at)
    BY <1>6, DoneOne
  <2> QED BY <1>1, <1>2, <1>4, <1>6, <2>1
<1>7. ASSUME NEW act \in {"complete", "skip"}, acts = <<act>>, x.status \in Pending
      PROVE  Kept(y) /\ y.final \in {at, Unset}
  <2>1. y = Done(x, act, at)
    BY <1>7, DoneOne
  <2> QED BY <1>1, <1>2, <1>5, <1>7, <2>1
<1>8. ASSUME NEW act \in {"complete", "skip"}, acts = <<"reopen", act>>, x.status \notin Pending
      PROVE  Kept(y) /\ y.final \in {at, Unset}
  <2>1. y = Done(Done(x, "reopen", at), act, at)
    BY <1>8, DoneTwo
  <2>2. Kept(Done(x, "reopen", at)) /\ Done(x, "reopen", at).status \in Pending
    BY <1>1, <1>2, <1>4, <1>8
  <2> QED BY <1>1, <1>5, <2>1, <2>2
<1> QED BY <1>6, <1>7, <1>8, OutcomeActs DEF acts

\* The actions of the web that are not refused keep a live attempt sound, and its work.
AtOnce(acts, t) == [i \in DOMAIN acts |-> [kind |-> acts[i], at |-> t]]
\* Actions of one moment that the server does not refuse leave a sound attempt, whose finishing time
\* is that moment, or none.
LEMMA WebSound ==
    ASSUME NEW t \in 1 .. MaxTime, NEW x, Sound(x), Live(x), ByTime(x, t),
           NEW acts \in Seq(Kinds), acts # <<>>,
           Replay(x, AtOnce(acts, t)) # Refused
    PROVE  LET y == Replay(x, AtOnce(acts, t)) IN
           /\ Sound(y) /\ Live(y) /\ ByTime(y, t) /\ y.placed = x.placed
           /\ y.version > x.version /\ y.final \in {t, Unset} /\ Begun(x) \subseteq Begun(y)
<1> DEFINE T == [kind : Kinds, at : {t}]
           c == [i \in 1 .. Len(acts) |-> [kind |-> acts[i], at |-> t]]
           y == Replay(x, c)
<1>1. DOMAIN acts = 1 .. Len(acts) /\ Len(acts) \in Nat /\ Len(acts) # 0
  BY EmptySeq, LenProperties
<1>2. c \in Seq(T)
  <2>1. \A i \in 1 .. Len(acts) : [kind |-> acts[i], at |-> t] \in T
    BY ElementOfSeq
  <2> HIDE DEF T
  <2> QED BY <1>1, <2>1, IsASeq
<1>3. c # <<>>
  <2>1. DOMAIN c = 1 .. Len(acts)
    OBVIOUS
  <2>2. DOMAIN c = 1 .. Len(c) /\ Len(c) \in Nat
    BY <1>2, LenProperties
  <2> HIDE DEF c
  <2> QED BY <1>1, <2>1, <2>2
<1>4. Replay(x, AtOnce(acts, t)) = y
  BY <1>1 DEF AtOnce
<1> HIDE DEF c
<1>5. PICK q \in Seq(T), m \in T : c = Append(q, m)
  BY <1>2, <1>3, SequenceEmptyOrAppend
<1>6. q \in Seq(Message(t)) /\ m \in Message(t) /\ c \in Seq(Message(t)) /\ m.kind \in Kinds /\ m.at = t
  <2>1. T \subseteq Message(t)
    BY DEF Message
  <2>2. m.kind \in Kinds /\ m.at = t
    OBVIOUS
  <2> HIDE DEF T
  <2> QED BY <1>2, <1>5, <2>1, <2>2, SeqMonotonic
<1>7. t \in 0 .. MaxTime /\ Exists(x) /\ ~ x.deleted /\ x.version \in Nat /\ y # Refused
  BY <1>4 DEF Live, Sound, Execution
<1>8. /\ Sound(y) /\ Exists(y) /\ ByTime(y, t)
      /\ y.version = x.version + Len(c) /\ y.placed = x.placed /\ y.deleted = x.deleted
      /\ Begun(y) = Begun(x) \cup Begins(c)
  BY <1>6, <1>7, ReplaySound
<1>9. y.final = FinalBy(Replay(x, q), m.kind, m.at)
  BY <1>5, <1>6, <1>7, ReplayLast
<1>10. y.final \in {t, Unset}
  BY <1>6, <1>9 DEF FinalBy, Kinds
<1>11. Len(c) \in Nat /\ Len(c) # 0
  BY <1>2, <1>3, EmptySeq
<1>12. Live(y)
  BY <1>7, <1>8 DEF Live, Sound, Execution
<1> HIDE DEF y
<1> QED BY <1>4, <1>7, <1>8, <1>10, <1>11, <1>12

-----------------------------------------------------------------------------
(* The history a device keeps when it accepts the server's.                *)

OneKept(u, mine, remote, n) ==
    IF mine.sessions[n].from \in Begun(remote) THEN u ELSE Append(u, mine.sessions[n])

\* f holds those of the first n sessions of mine that remote has not, for every n up to m.
Extras(f, mine, remote, m) ==
    f = [n \in 0 .. m |-> IF n = 0 THEN <<>> ELSE OneKept(f[n - 1], mine, remote, n)]

\* The sessions can be sifted one after the other, however many there are.
LEMMA ExtrasExists ==
    ASSUME NEW mine, NEW remote, NEW m \in Nat
    PROVE  \E f : Extras(f, mine, remote, m)
<1> DEFINE None == {k \in Nat : ~ \E f : Extras(f, mine, remote, k)}
<1>1. SUFFICES ASSUME None # {} PROVE FALSE
  OBVIOUS
<1>2. PICK k \in None : \A n \in None : k <= n
  BY <1>1, LeastNumber
<1>3. k # 0
  <2> DEFINE f == [n \in 0 .. 0 |-> <<>>]
  <2>1. Extras(f, mine, remote, 0)
    BY DEF Extras
  <2> QED BY <1>2, <2>1
<1>4. PICK f : Extras(f, mine, remote, k - 1)
  BY <1>2, <1>3
<1> DEFINE g == [n \in 0 .. k |-> IF n = 0 THEN <<>> ELSE OneKept(f[n - 1], mine, remote, n)]
<1> DEFINE G(n) == IF n = 0 THEN <<>> ELSE OneKept(g[n - 1], mine, remote, n)
<1>5. k \in Nat \ {0}
  BY <1>2, <1>3
<1>6. \A n \in 0 .. k - 1 : g[n] = f[n]
  BY <1>4, <1>5 DEF Extras
<1>7. \A n \in 0 .. k : g[n] = G(n)
  <2> TAKE n \in 0 .. k
  <2>1. CASE n = 0
    BY <1>5, <2>1
  <2>2. CASE n # 0
    <3>1. n - 1 \in 0 .. k - 1
      BY <1>5, <2>2
    <3>2. g[n - 1] = f[n - 1]
      BY <1>6, <3>1
    <3> QED BY <2>2, <3>2
  <2> QED BY <2>1, <2>2
<1>8. Extras(g, mine, remote, k)
  <2>1. g = [i \in 0 .. k |-> g[i]]
    OBVIOUS
  <2>2. g = [n \in 0 .. k |-> G(n)]
    <3> HIDE DEF g
    <3> QED BY <1>7, <2>1
  <2> HIDE DEF g
  <2> QED BY <2>2 DEF Extras
<1> QED BY <1>2, <1>8

\* Extra is what is left after the last of them.
LEMMA ExtraExtras ==
    ASSUME NEW mine, NEW remote, Len(mine.sessions) \in Nat
    PROVE  \E f : Extras(f, mine, remote, Len(mine.sessions)) /\ Extra(mine, remote) = f[Len(mine.sessions)]
<1> DEFINE f == CHOOSE f : Extras(f, mine, remote, Len(mine.sessions))
<1>1. Extras(f, mine, remote, Len(mine.sessions))
  BY ExtrasExists
<1>2. Extra(mine, remote) = f[Len(mine.sessions)]
  BY DEF Extra, Extras, OneKept
<1> QED BY <1>1, <1>2

\* u holds those of the first n sessions of mine that remote has not.
Keeps(u, mine, remote, n) ==
    /\ u \in Seq(Session) /\ InOrder(u)
    /\ \A i \in DOMAIN u : \E j \in 1 .. n : u[i] = mine.sessions[j]
    /\ Starts(u) = {mine.sessions[j].from : j \in 1 .. n} \ Begun(remote)

\* One session more is sifted.
LEMMA KeepsMore ==
    ASSUME NEW mine, mine.sessions \in Seq(Session), InOrder(mine.sessions), NEW remote,
           NEW n \in Nat, n + 1 \in 1 .. Len(mine.sessions), NEW u, Keeps(u, mine, remote, n)
    PROVE  Keeps(OneKept(u, mine, remote, n + 1), mine, remote, n + 1)
<1> DEFINE s == mine.sessions[n + 1]
           v == Append(u, s)
           B(m) == {mine.sessions[j].from : j \in 1 .. m}
<1>1. /\ u \in Seq(Session) /\ InOrder(u) /\ Starts(u) = B(n) \ Begun(remote)
      /\ \A i \in DOMAIN u : \E j \in 1 .. n : u[i] = mine.sessions[j]
  BY DEF Keeps
<1>2. /\ Len(mine.sessions) \in Nat /\ DOMAIN mine.sessions = 1 .. Len(mine.sessions)
      /\ DOMAIN u = 1 .. Len(u) /\ Len(u) \in Nat
  BY <1>1, SessionFacts
<1>3. B(n + 1) = B(n) \cup {s.from}
  <2>1. 1 .. n + 1 = (1 .. n) \cup {n + 1}
    OBVIOUS
  <2> QED BY <2>1
<1>4. \A j \in 1 .. n : j \in 1 .. n + 1
  OBVIOUS
<1>5. CASE s.from \in Begun(remote)
  <2>1. OneKept(u, mine, remote, n + 1) = u
    BY <1>5 DEF OneKept
  <2>2. Starts(u) = B(n + 1) \ Begun(remote)
    <3> HIDE DEF B, s
    <3> QED BY <1>1, <1>3, <1>5
  <2>3. \A i \in DOMAIN u : \E j \in 1 .. n + 1 : u[i] = mine.sessions[j]
    BY <1>1, <1>4
  <2> QED BY <1>1, <2>1, <2>2, <2>3 DEF Keeps
<1>6. CASE s.from \notin Begun(remote)
  <2>1. OneKept(u, mine, remote, n + 1) = v
    BY <1>6 DEF OneKept
  <2>2. s \in Session
    BY <1>2, ElementOfSeq
  <2>3. s.to # Open => s.from <= s.to
    BY <1>2 DEF InOrder
  <2>4. \A i \in DOMAIN u : u[i].to # Open /\ u[i].to <= s.from
    <3> TAKE i \in DOMAIN u
    <3>1. PICK j \in 1 .. n : u[i] = mine.sessions[j]
      BY <1>1
    <3>2. j \in DOMAIN mine.sessions /\ n + 1 \in DOMAIN mine.sessions /\ j < n + 1
      BY <1>2
    <3> QED BY <3>1, <3>2 DEF InOrder
  <2> HIDE DEF s
  <2>5. /\ v \in Seq(Session) /\ Len(v) = Len(u) + 1
        /\ \A i \in 1 .. Len(u) : v[i] = u[i]
        /\ v[Len(u) + 1] = s
    BY <1>1, <2>2, AppendProperties
  <2> HIDE DEF v
  <2>6. DOMAIN v = 1 .. Len(u) + 1
    BY <2>5, SessionFacts
  <2>7. InOrder(v)
    <3>1. ASSUME NEW i \in DOMAIN v, v[i].to # Open
          PROVE  v[i].from <= v[i].to
      BY <3>1, <1>1, <1>2, <2>3, <2>5, <2>6 DEF InOrder
    <3>2. ASSUME NEW i \in DOMAIN v, NEW j \in DOMAIN v, i < j
          PROVE  v[i].to # Open /\ v[i].to <= v[j].from
      BY <3>2, <1>1, <1>2, <2>4, <2>5, <2>6 DEF InOrder
    <3> QED BY <3>1, <3>2 DEF InOrder
  <2>8. \A i \in DOMAIN v : \E j \in 1 .. n + 1 : v[i] = mine.sessions[j]
    <3> TAKE i \in DOMAIN v
    <3>1. CASE i \in 1 .. Len(u)
      BY <3>1, <1>1, <1>2, <1>4, <2>5
    <3>2. CASE i = Len(u) + 1
      <4>1. n + 1 \in 1 .. n + 1
        OBVIOUS
      <4> QED BY <3>2, <4>1, <2>5 DEF s
    <3> QED BY <3>1, <3>2, <1>2, <2>6
  <2>9. Starts(v) = Starts(u) \cup {s.from}
    BY <1>2, <2>5, <2>6 DEF Starts
  <2>10. Starts(v) = B(n + 1) \ Begun(remote)
    <3> HIDE DEF B
    <3> QED BY <1>1, <1>3, <1>6, <2>9
  <2> QED BY <2>1, <2>5, <2>7, <2>8, <2>10 DEF Keeps
<1> QED BY <1>5, <1>6

\* Extra has the sessions, in order, whose beginnings the other side does not have.
LEMMA ExtraKeeps ==
    ASSUME NEW mine, mine.sessions \in Seq(Session), InOrder(mine.sessions), NEW remote
    PROVE  Keeps(Extra(mine, remote), mine, remote, Len(mine.sessions))
<1> DEFINE L == Len(mine.sessions)
<1>1. L \in Nat
  BY SessionFacts
<1>2. PICK f : Extras(f, mine, remote, L) /\ Extra(mine, remote) = f[L]
  BY <1>1, ExtraExtras
<1>3. f[0] = <<>> /\ \A n \in 0 .. L - 1 : f[n + 1] = OneKept(f[n], mine, remote, n + 1)
  BY <1>1, <1>2 DEF Extras
<1>4. Keeps(f[0], mine, remote, 0)
  <2>1. f[0] \in Seq(Session) /\ DOMAIN f[0] = {}
    BY <1>3, EmptySeq
  <2> QED BY <2>1 DEF Keeps, InOrder, Starts
<1> DEFINE Off == {n \in 0 .. L : ~ Keeps(f[n], mine, remote, n)}
<1>5. Off = {}
  <2> SUFFICES ASSUME Off # {} PROVE FALSE
    OBVIOUS
  <2>1. Off \in SUBSET Nat
    OBVIOUS
  <2>2. PICK k \in Off : \A i \in Off : k <= i
    <3> HIDE DEF Off
    <3> QED BY <2>1, LeastNumber
  <2>3. k \in 0 .. L /\ k # 0 /\ ~ Keeps(f[k], mine, remote, k)
    BY <1>4, <2>2
  <2>4. PICK n \in 0 .. L - 1 : k = n + 1 /\ ~ (k <= n) /\ n \in 0 .. L
    BY <1>1, <2>3
  <2>5. Keeps(f[n], mine, remote, n)
    BY <2>2, <2>4
  <2>6. n \in Nat /\ n + 1 \in 1 .. Len(mine.sessions)
    BY <1>1
  <2>7. Keeps(f[n + 1], mine, remote, n + 1)
    BY <1>3, <2>5, <2>6, KeepsMore
  <2> QED BY <2>3, <2>4, <2>7
<1> QED BY <1>1, <1>2, <1>5

\* The kept history is a sound attempt without the placement, of the sessions only the device had.
LEMMA KeptSound ==
    ASSUME NEW t \in 0 .. MaxTime, NEW mine, Sound(mine), Live(mine), ByTime(mine, t), NEW remote
    PROVE  LET y == KeptHistory(mine, remote) IN
           /\ Begun(mine) \ Begun(remote) # {} <=> Extra(mine, remote) # <<>>
           /\ Extra(mine, remote) # <<>> =>
                 /\ Sound(y) /\ Live(y) /\ ByTime(y, t) /\ ~ y.placed
                 /\ Begun(y) = Begun(mine) \ Begun(remote)
<1> DEFINE u == Extra(mine, remote)
           y == KeptHistory(mine, remote)
           end == u[Len(u)].to
           status == IF end = Open THEN "in_progress"
                     ELSE IF mine.status \in Finished THEN mine.status ELSE "paused"
<1>1. /\ mine \in Execution /\ mine.sessions \in Seq(Session) /\ InOrder(mine.sessions)
      /\ Exists(mine) /\ ~ mine.deleted /\ mine.version # 0 /\ mine.version \in Nat
  BY DEF Sound, Execution, Live
<1>2. /\ DOMAIN mine.sessions = 1 .. Len(mine.sessions) /\ Len(mine.sessions) \in Nat
      /\ Begun(mine) = {mine.sessions[j].from : j \in 1 .. Len(mine.sessions)}
  BY <1>1, SessionFacts DEF Begun
<1>3. Keeps(u, mine, remote, Len(mine.sessions))
  BY <1>1, ExtraKeeps
<1> HIDE DEF u
<1>4. /\ u \in Seq(Session) /\ InOrder(u) /\ Starts(u) = Begun(mine) \ Begun(remote)
      /\ \A i \in DOMAIN u : \E j \in 1 .. Len(mine.sessions) : u[i] = mine.sessions[j]
  BY <1>2, <1>3 DEF Keeps
<1>5. DOMAIN u = 1 .. Len(u) /\ Len(u) \in Nat /\ (u = <<>> <=> Len(u) = 0)
  BY <1>4, SessionFacts
<1>6. Begun(mine) \ Begun(remote) # {} <=> u # <<>>
  <2>1. Starts(u) # {} <=> u # <<>>
    <3>1. CASE u = <<>>
      <4>1. DOMAIN u = {}
        BY <1>5, <3>1
      <4> QED BY <3>1, <4>1 DEF Starts
    <3>2. CASE u # <<>>
      <4>1. 1 \in DOMAIN u
        BY <1>5, <3>2
      <4>2. u[1].from \in Starts(u)
        BY <4>1 DEF Starts
      <4> QED BY <3>2, <4>2
    <3> QED BY <3>1, <3>2
  <2> QED BY <1>4, <2>1
<1>7. ASSUME u # <<>>
      PROVE  Sound(y) /\ Live(y) /\ ByTime(y, t) /\ ~ y.placed /\ Begun(y) = Begun(mine) \ Begun(remote)
  <2>1. Len(u) \in DOMAIN u /\ end \in 0 .. MaxTime /\ end \in Int
    BY <1>4, <1>5, <1>7, SessionFacts
  <2>2. Before(u, t)
    <3> SUFFICES ASSUME NEW i \in DOMAIN u PROVE u[i].from <= t /\ u[i].to <= t
      BY DEF Before
    <3>1. PICK j \in 1 .. Len(mine.sessions) : u[i] = mine.sessions[j]
      BY <1>4
    <3> QED BY <1>2, <3>1 DEF ByTime, Before
  <2>3. end # Open => Before(u, end)
    <3> SUFFICES ASSUME end # Open, NEW i \in DOMAIN u PROVE u[i].from <= end /\ u[i].to <= end
      BY DEF Before
    <3>1. /\ u[i].from \in Int /\ u[i].to \in Int /\ u[Len(u)].from \in Int
          /\ u[Len(u)].from <= u[Len(u)].to
      BY <1>4, <2>1, SessionFacts DEF InOrder
    <3>2. CASE i = Len(u)
      BY <3>1, <3>2, <2>1
    <3>3. CASE i # Len(u)
      <4>1. i < Len(u)
        BY <1>5, <3>3
      <4>2. u[i].to # Open /\ u[i].to <= u[Len(u)].from /\ u[i].from <= u[i].to
        BY <1>4, <2>1, <4>1 DEF InOrder
      <4> QED BY <3>1, <4>2, <2>1
    <3> QED BY <3>2, <3>3
  <2> HIDE DEF end
  <2> DEFINE final == IF status \in Finished THEN end ELSE Unset
  <2>4. y = [mine EXCEPT !.sessions = u, !.status = status, !.placed = FALSE, !.final = final]
    BY DEF KeptHistory, u, end
  <2>5. /\ status \in {"in_progress", "paused"} \cup Finished
        /\ status = "in_progress" <=> end = Open
        /\ status \in Finished => end # Open
    BY DEF Finished
  <2> HIDE DEF status, y
  <2>6. final \in Instants
    BY <2>1, LifecycleAssumption DEF Instants, Unset
  <2>7. y \in Execution
    BY <1>1, <1>4, <2>4, <2>5, <2>6 DEF Execution, Pending
  <2>8. /\ y.sessions = u /\ y.status = status /\ y.placed = FALSE /\ y.final = final
        /\ y.version = mine.version /\ y.deleted = mine.deleted
    BY <1>1, <2>4 DEF Execution
  <2> HIDE DEF final
  <2>9. Running(u) <=> end = Open
    BY <1>7 DEF Running, end
  <2>10. final # Unset <=> status \in Finished
    BY <2>5 DEF final, Open, Unset
  <2>11. status \in Finished => Before(u, final)
    BY <2>3, <2>5 DEF final
  <2>12. Told(y)
    BY <1>7, <2>5, <2>8, <2>9, <2>10, <2>11 DEF Told, Finished
  <2>13. Exists(y) /\ Live(y)
    BY <1>1, <2>5, <2>8 DEF Exists, Live, Finished
  <2>14. final <= t
    <3>1. end <= t
      BY <2>1, <2>2 DEF Before, end
    <3> QED BY <3>1 DEF final, Unset
  <2>15. Begun(y) = Starts(u)
    BY <2>8 DEF Begun, Starts
  <2> QED BY <1>1, <1>4, <2>2, <2>7, <2>8, <2>12, <2>13, <2>14, <2>15 DEF Sound, ByTime
<1> QED BY <1>6, <1>7 DEF u, y

-----------------------------------------------------------------------------
(* The inductive invariant.                                                 *)

Good(x, t) == Sound(x) /\ ByTime(x, t)

\* Every record there is, is sound and tells of the past.
Records ==
    \A e \in Ids : /\ Good(local[e], now) /\ Good(server[e], now)
                   /\ Good(shadow[e], now) /\ Good(conflict[e].remote, now)

\* y is the state x of a record of the server, or a later one.
Later(y, x) ==
    Exists(x) => /\ Exists(y) /\ y.placed = x.placed
                 /\ x.version <= y.version /\ (x.version = y.version => y = x)
                 /\ x.deleted => y = x
                 /\ Begun(x) \subseteq Begun(y)

\* What the device knows of the server was so.
Ahead == \A e \in Ids : Later(server[e], shadow[e]) /\ Later(server[e], conflict[e].remote)

\* Nothing is recorded under an id not given out, a changed attempt exists, an attempt both sides have
\* is one whose server state the device knows, and the server has one attempt of the placement.
Known ==
    /\ \A e \in Ids : e > minted =>
          ~ Exists(local[e]) /\ ~ Exists(server[e]) /\ e \notin dirty /\ ~ conflict[e].open
    /\ \A e \in dirty : Exists(local[e])
    /\ \A e \in Ids : Exists(local[e]) /\ Exists(server[e]) =>
          Exists(shadow[e]) /\ local[e].placed = shadow[e].placed
    /\ \A e, o \in Ids : server[e].placed /\ server[o].placed => e = o

\* A question to the user is about a local attempt; if that is not the attempt of the server's state,
\* both hold the placement and the device shows no attempt under the server's id.
Asked ==
    \A e \in Ids :
        /\ ~ conflict[e].open => conflict[e] = NoConflict
        /\ conflict[e].open =>
              /\ conflict[e].about \in Ids /\ Exists(local[conflict[e].about])
              /\ conflict[e].about # e =>
                    /\ Exists(conflict[e].remote) /\ conflict[e].remote.placed
                    /\ local[conflict[e].about].placed /\ ~ Live(local[e])

\* On the device, one attempt at most holds the placement and is shown or known to the server, and one
\* at most holds it and is not known to the server.
InPlay(e) == local[e].placed /\ (Live(local[e]) \/ Exists(server[e]))
Placed ==
    /\ \A e, o \in Ids : local[e].placed /\ ~ Exists(server[e]) /\ local[o].placed /\ ~ Exists(server[o]) => e = o
    /\ \A e, o \in Ids : InPlay(e) /\ InPlay(o) => e = o

\* The device has the sessions of the server's state it knows; with nothing to send, it shows what it
\* shows there.
Agrees(l, s) == ~ s.deleted /\ l.status = s.status /\ Begun(l) = Begun(s)
Copied ==
    \A e \in Ids :
        /\ Exists(local[e]) => Begun(shadow[e]) \subseteq Begun(local[e])
        /\ e \notin dirty /\ Live(local[e]) => Exists(shadow[e]) /\ Agrees(local[e], shadow[e])
        /\ e \notin dirty /\ ~ conflict[e].open /\ Live(shadow[e]) => Live(local[e])

\* No work that counts is in an attempt deleted on the server, or deleted here and known there.
Gone ==
    /\ \A t \in work : t <= now
    /\ \A e \in Ids : /\ server[e].deleted => Begun(server[e]) \cap work = {}
                      /\ local[e].deleted /\ Exists(shadow[e]) => Begun(local[e]) \cap work = {}

\* Two states of an attempt finished by the same action have the same sessions, and as many.
SameWork(x, y) == Begun(x) = Begun(y) /\ Len(x.sessions) = Len(y.sessions)
SameFinish(x, y) == x.final = y.final /\ x.final # Unset => SameWork(x, y)
States(e) == {local[e], server[e], shadow[e], conflict[e].remote}
Once == \A e \in Ids : \A x, y \in States(e) : SameFinish(x, y)

Core == Records /\ Ahead /\ Known /\ Asked /\ Placed /\ Copied /\ Gone /\ WorkKept /\ Once
IInv == TypeOK /\ Core

\* No attempt has no work, no placement and no version; no conflict has no state.
LEMMA AbsentFacts ==
    /\ ~ Exists(Absent) /\ ~ Live(Absent) /\ Absent.version = 0 /\ Absent.final = Unset
    /\ Absent.placed = FALSE /\ Absent.deleted = FALSE /\ Begun(Absent) = {}
    /\ NoConflict.open = FALSE /\ NoConflict.remote = Absent
BY DEF Absent, Exists, Live, Begun, NoConflict

\* The fields of a sound record, and what tells it from no attempt.
LEMMA GoodFacts ==
    ASSUME NEW t \in Nat, NEW x, Good(x, t)
    PROVE  /\ x \in Execution /\ x.version \in Nat /\ x.final \in Nat /\ x.final <= t
           /\ x.placed \in BOOLEAN /\ x.deleted \in BOOLEAN
           /\ Exists(x) => x.version # 0
           /\ ~ Exists(x) => x = Absent
           /\ x.placed => Exists(x)
           /\ x.deleted => Exists(x)
           /\ Begun(x) # {} => Exists(x)
           /\ \A b \in Begun(x) : b \in 1 .. t
<1>1. x \in Execution /\ x.sessions \in Seq(Session) /\ (~ Exists(x) => x = Absent)
  BY DEF Good, Sound, Execution
<1>2. \A b \in Begun(x) : b \in 1 .. t
  BY <1>1, SessionFacts DEF Good, ByTime, Before, Begun
<1> QED BY <1>1, <1>2, AbsentFacts, LifecycleAssumption DEF Good, Sound, ByTime, Execution, Instants

\* A record of the past stays one.
LEMMA GoodLater ==
    ASSUME NEW m \in Nat, NEW n \in Nat, m <= n, NEW x, Good(x, m)
    PROVE  Good(x, n)
<1>1. x.sessions \in Seq(Session) /\ x.final \in Nat /\ x.final <= m /\ Before(x.sessions, m)
  BY GoodFacts DEF Good, Sound, Execution, ByTime
<1> QED BY <1>1, Earlier DEF Good, ByTime

\* A state after a later state is later.
LEMMA LaterTrans ==
    ASSUME NEW t \in Nat, NEW x, Good(x, t), NEW y, Good(y, t), NEW z, Good(z, t), Later(y, x), Later(z, y)
    PROVE  Later(z, x)
BY GoodFacts DEF Later

-----------------------------------------------------------------------------
(* The steps, by what they do to the records of one attempt.               *)

Counters ==
    /\ now \in Instants /\ web \in 0 .. MaxWeb /\ minted \in 0 .. MaxIds /\ faults \in 0 .. MaxFaults

\* The finishing time of x is that of y, for the same sessions, or of the action that is taken now.
Refinished(x, y) ==
    \/ x.final = y.final /\ SameWork(x, y)
    \/ now < now' /\ x.final \in {Unset, now'}

\* A finishing time that is new is no other state's; one that stays keeps its sessions.
LEMMA RefinishedSame ==
    ASSUME now \in Nat, NEW x, NEW y, Refinished(x, y), NEW z, Good(z, now), SameFinish(y, z), now' \in Nat
    PROVE  SameFinish(x, z) /\ SameFinish(z, x)
<1>1. z.final \in Nat /\ z.final <= now
  BY GoodFacts
<1>2. CASE x.final = y.final /\ SameWork(x, y)
  BY <1>2 DEF SameFinish, SameWork
<1>3. CASE now < now' /\ x.final \in {Unset, now'}
  BY <1>1, <1>3 DEF SameFinish, SameWork
<1> QED BY <1>2, <1>3 DEF Refinished, SameWork

\* The invariant, of one attempt.
LEMMA InvFacts ==
    ASSUME IInv, NEW e \in Ids
    PROVE  /\ now \in Nat /\ Good(local[e], now) /\ Good(server[e], now) /\ Good(shadow[e], now)
           /\ Good(conflict[e].remote, now)
           /\ Later(server[e], shadow[e]) /\ Later(server[e], conflict[e].remote)
           /\ \A x, y \in States(e) : SameFinish(x, y)
BY LifecycleAssumption DEF IInv, Core, TypeOK, Instants, Records, Ahead, Once

\* The user changes a live attempt on the device.
LEMMA LocalEdit ==
    ASSUME IInv, Counters', now <= now', NEW e \in Ids, Live(local[e]),
           NEW x, Good(x, now'), Exists(x), x.placed = local[e].placed,
           Begun(local[e]) \subseteq Begun(x), Refinished(x, local[e]),
           local' = [local EXCEPT ![e] = x], dirty' = dirty \cup {e},
           UNCHANGED <<minted, server, shadow, conflict>>,
           \/ /\ Live(x) /\ renounced' = renounced
              /\ \/ work' = work
                 \/ work' = work \cup {now'} /\ now < now' /\ now' \in Begun(x)
           \/ /\ Begun(x) = Begun(local[e])
              /\ work' = work \ Begun(x) /\ renounced' = renounced \ Begun(x)
    PROVE  IInv'
<1>1. /\ TypeOK /\ Records /\ Ahead /\ Known /\ Asked /\ Placed /\ Copied /\ Gone /\ WorkKept /\ Once
      /\ now \in Nat /\ now' \in Nat /\ now' \in Instants
  BY LifecycleAssumption DEF IInv, Core, Counters, TypeOK, Instants
<1>2. x \in Execution /\ x.deleted \in BOOLEAN
  BY <1>1, GoodFacts
<1>3. /\ local'[e] = x /\ \A o \in Ids \ {e} : local'[o] = local[o]
      /\ local' \in [Ids -> Execution]
  BY <1>1, <1>2 DEF TypeOK
<1>4. Exists(local[e]) /\ ~ local[e].deleted
  BY DEF Live
<1>5. \A o \in Ids : /\ Exists(local'[o]) <=> Exists(local[o])
                     /\ local'[o].placed = local[o].placed
                     /\ Live(local'[o]) => Live(local[o])
                     /\ Begun(local[o]) \subseteq Begun(local'[o])
  BY <1>3, <1>4
<1>6. work' \subseteq Instants /\ renounced' \subseteq work'
  BY <1>1 DEF TypeOK
<1>7. TypeOK'
  BY <1>1, <1>3, <1>6 DEF TypeOK, Counters
<1>8. Records'
  <2> SUFFICES ASSUME NEW o \in Ids
               PROVE  /\ Good(local'[o], now') /\ Good(server[o], now')
                      /\ Good(shadow[o], now') /\ Good(conflict[o].remote, now')
    BY DEF Records
  <2>1. /\ Good(local[o], now) /\ Good(server[o], now) /\ Good(shadow[o], now)
        /\ Good(conflict[o].remote, now)
    BY <1>1 DEF Records
  <2> QED BY <1>1, <1>3, <2>1, GoodLater
<1>9. Ahead'
  BY <1>1 DEF Ahead
<1>10. Known'
  BY <1>1, <1>4, <1>5 DEF Known
<1>11. Asked'
  BY <1>1, <1>5 DEF Asked
<1>12. Placed'
  BY <1>1, <1>5 DEF Placed, InPlay
<1>13. Copied'
  <2> SUFFICES ASSUME NEW o \in Ids
               PROVE  /\ Exists(local'[o]) => Begun(shadow[o]) \subseteq Begun(local'[o])
                      /\ o \notin dirty' /\ Live(local'[o]) => Exists(shadow[o]) /\ Agrees(local'[o], shadow[o])
                      /\ o \notin dirty' /\ ~ conflict[o].open /\ Live(shadow[o]) => Live(local'[o])
    BY DEF Copied
  <2>1. CASE o = e
    BY <1>1, <1>4, <1>5, <2>1 DEF Copied
  <2>2. CASE o # e
    BY <1>1, <1>3, <2>2 DEF Copied
  <2> QED BY <2>1, <2>2
<1>14. \A o \in Ids : now < now' => now' \notin Begun(local[o]) /\ now' \notin Begun(server[o])
  <2> TAKE o \in Ids
  <2>1. /\ \A b \in Begun(local[o]) : b \in 1 .. now
        /\ \A b \in Begun(server[o]) : b \in 1 .. now
    BY <1>1, GoodFacts DEF Records
  <2> QED BY <1>1, <2>1
<1>15. Gone' /\ WorkKept'
  <2>1. CASE Live(x) /\ renounced' = renounced /\ work' = work
    <3>1. Gone'
      <4>1. \A o \in Ids : local'[o].deleted => local'[o] = local[o]
        BY <1>2, <1>3, <2>1 DEF Live
      <4>2. \A t \in work : t <= now'
        BY <1>1 DEF Gone, TypeOK, Instants
      <4> QED BY <1>1, <2>1, <4>1, <4>2 DEF Gone
    <3>2. \A o \in Ids : Worked(local[o]) \subseteq Worked(local'[o])
      BY <1>3, <1>5, <2>1 DEF Worked
    <3>3. WorkKept'
      BY <1>1, <2>1, <3>2 DEF WorkKept
    <3> QED BY <3>1, <3>3
  <2>2. CASE Live(x) /\ renounced' = renounced /\ work' = work \cup {now'} /\ now < now' /\ now' \in Begun(x)
    <3>1. Gone'
      <4>1. \A o \in Ids : local'[o].deleted => local'[o] = local[o]
        BY <1>2, <1>3, <2>2 DEF Live
      <4>2. \A t \in work' : t <= now'
        BY <1>1, <2>2 DEF Gone, TypeOK, Instants
      <4> QED BY <1>1, <1>14, <2>2, <4>1, <4>2 DEF Gone
    <3>2. \A o \in Ids : Worked(local[o]) \subseteq Worked(local'[o])
      BY <1>3, <1>5, <2>2 DEF Worked
    <3>3. now' \in Worked(local'[e])
      BY <1>3, <2>2 DEF Worked
    <3>4. WorkKept'
      BY <1>1, <2>2, <3>2, <3>3 DEF WorkKept
    <3> QED BY <3>1, <3>4
  <2>3. CASE Begun(x) = Begun(local[e]) /\ work' = work \ Begun(x) /\ renounced' = renounced \ Begun(x)
    <3>1. \A o \in Ids : Begun(local'[o]) = Begun(local[o])
      BY <1>3, <2>3
    <3>2. Gone'
      <4>1. \A t \in work' : t <= now'
        BY <1>1, <2>3 DEF Gone, TypeOK, Instants
      <4> QED BY <1>1, <1>3, <2>3, <3>1, <4>1 DEF Gone
    <3>3. WorkKept'
      <4> SUFFICES ASSUME NEW t \in work' \ renounced' PROVE \E o \in Ids : t \in Worked(local'[o])
        BY DEF WorkKept
      <4>1. t \in work \ renounced /\ t \notin Begun(local[e])
        BY <2>3
      <4>2. PICK o \in Ids : t \in Worked(local[o])
        BY <1>1, <4>1 DEF WorkKept
      <4>3. o # e
        BY <4>1, <4>2 DEF Worked
      <4> QED BY <1>3, <4>2, <4>3
    <3> QED BY <3>2, <3>3
  <2> QED BY <2>1, <2>2, <2>3
<1>16. Once'
  <2> SUFFICES ASSUME NEW o \in Ids
               PROVE  \A y, z \in {local'[o], server[o], shadow[o], conflict[o].remote} : SameFinish(y, z)
    BY DEF Once, States
  <2>1. \A y, z \in {local[o], server[o], shadow[o], conflict[o].remote} : SameFinish(y, z)
    BY <1>1 DEF Once, States
  <2>2. CASE o # e
    BY <1>3, <2>1, <2>2
  <2>3. CASE o = e
    <3>1. \A z \in {server[e], shadow[e], conflict[e].remote} : SameFinish(x, z) /\ SameFinish(z, x)
      BY <1>1, <2>1, <2>3, RefinishedSame DEF Records
    <3>2. SameFinish(x, x)
      BY DEF SameFinish, SameWork
    <3> QED BY <1>3, <2>1, <2>3, <3>1, <3>2
  <2> QED BY <2>2, <2>3
<1> QED BY <1>7, <1>8, <1>9, <1>10, <1>11, <1>12, <1>13, <1>15, <1>16 DEF IInv, Core

-----------------------------------------------------------------------------
(* The user on the device.                                                  *)

\* A sound attempt stays so whatever its rating, its tombstone and its version.
LEMMA SoundLike ==
    ASSUME NEW y, Sound(y), Exists(y), NEW x \in Execution, x.version # 0,
           x.status = y.status, x.sessions = y.sessions, x.final = y.final
    PROVE  /\ Sound(x) /\ Exists(x) /\ Begun(x) = Begun(y)
           /\ \A t : Good(y, t) => Good(x, t)
<1>1. Told(x) /\ Exists(x)
  BY DEF Sound, Told, Exists
<1> QED BY <1>1 DEF Sound, Begun, Good, ByTime

\* A user action moves time on, and every record is of the time before.
LEMMA LaterStep ==
    ASSUME IInv, Counters', now' = now + 1
    PROVE  /\ now \in Nat /\ now' \in Nat /\ now <= now' /\ now < now' /\ now' \in 1 .. MaxTime
           /\ \A e \in Ids : Good(local[e], now') /\ Good(server[e], now')
<1>1. now \in Nat /\ now' \in Nat /\ now <= now' /\ now < now' /\ now' \in 1 .. MaxTime
  BY LifecycleAssumption DEF IInv, TypeOK, Counters, Instants
<1>2. ASSUME NEW e \in Ids PROVE Good(local[e], now') /\ Good(server[e], now')
  BY <1>1, InvFacts, GoodLater
<1> QED BY <1>1, <1>2

\* The bounds on user actions are kept.
LEMMA TickCounts ==
    ASSUME IInv, UNCHANGED <<minted, faults>>
    PROVE  /\ Tick => Counters' /\ now' = now + 1
           /\ WebTick => Counters' /\ now' = now + 1
BY LifecycleAssumption DEF IInv, TypeOK, Counters, Instants, Tick, WebTick

\* One lifecycle action on the device.
LEMMA ActStep ==
    ASSUME IInv, NEW e \in Ids, NEW act \in UserActions, Act(e, act)
    PROVE  IInv'
<1> DEFINE y == local[e]
           x == Done(y, act, now')
<1>1. /\ Tick /\ Live(y) /\ y.status \in Sources(act) /\ Wrote(e, x)
      /\ work' = IF act \in {"start", "resume"} THEN work \cup {now'} ELSE work
      /\ UNCHANGED <<minted, server, shadow, conflict, renounced, faults>>
  BY DEF Act
<1>2. Counters' /\ now' = now + 1
  BY <1>1, TickCounts
<1>3. now <= now' /\ now < now' /\ now' \in 1 .. MaxTime /\ Good(y, now')
  BY <1>2, LaterStep
<1>4. act \in Kinds
  BY LifecycleAssumption DEF Kinds
<1>5. /\ Sound(x) /\ ByTime(x, now') /\ Live(x) /\ x.placed = y.placed
      /\ x.final = (IF act \in Finishing THEN now' ELSE Unset)
      /\ Begun(x) = Begun(y) \cup (IF act \in Starting THEN {now'} ELSE {})
  <2>1. Sound(y) /\ ByTime(y, now') /\ now' \in 1 .. MaxTime
    BY <1>3 DEF Good
  <2> HIDE DEF y
  <2> QED BY <1>1, <1>4, <2>1, DoneSound
<1>6. local' = [local EXCEPT ![e] = x] /\ dirty' = dirty \cup {e}
  BY <1>1 DEF Wrote
<1> HIDE DEF x
<1>7. Good(x, now') /\ Exists(x) /\ Begun(y) \subseteq Begun(x) /\ Refinished(x, y)
  BY <1>3, <1>5 DEF Good, Live, Refinished, SameWork
<1>8. \/ work' = work
      \/ work' = work \cup {now'} /\ now < now' /\ now' \in Begun(x)
  BY <1>1, <1>3, <1>5 DEF Starting
<1> QED BY <1>1, <1>2, <1>3, <1>5, <1>6, <1>7, <1>8, LocalEdit

\* An outcome set on the device.
LEMMA SetOutcomeStep ==
    ASSUME IInv, NEW e \in Ids, NEW outcome \in Outcomes, SetOutcome(e, outcome)
    PROVE  IInv'
<1> DEFINE y == local[e]
           x == DoneAll(y, OutcomeActions(y.status, outcome), now')
<1>1. /\ Tick /\ Live(y) /\ y.status # "cancelled" /\ OutcomeActions(y.status, outcome) # <<>>
      /\ Wrote(e, x)
      /\ UNCHANGED <<minted, server, shadow, conflict, work, renounced, faults>>
  BY DEF SetOutcome
<1>2. Counters' /\ now' = now + 1
  BY <1>1, TickCounts
<1>3. now <= now' /\ now < now' /\ now' \in 1 .. MaxTime /\ Good(y, now')
  BY <1>2, LaterStep
<1>5. /\ Sound(x) /\ ByTime(x, now') /\ Live(x) /\ x.placed = y.placed
      /\ x.final \in {now', Unset} /\ Begun(x) = Begun(y)
  <2>1. Sound(y) /\ ByTime(y, now') /\ now' \in 1 .. MaxTime
    BY <1>3 DEF Good
  <2> HIDE DEF y
  <2> QED BY <1>1, <2>1, OutcomeSound
<1>6. local' = [local EXCEPT ![e] = x] /\ dirty' = dirty \cup {e}
  BY <1>1 DEF Wrote
<1> HIDE DEF x
<1>7. Good(x, now') /\ Exists(x) /\ Begun(y) \subseteq Begun(x) /\ Refinished(x, y)
  BY <1>3, <1>5 DEF Good, Live, Refinished, SameWork
<1> QED BY <1>1, <1>2, <1>3, <1>5, <1>6, <1>7, LocalEdit

\* A rating given on the device.
LEMMA RateStep ==
    ASSUME IInv, NEW e \in Ids, Rate(e)
    PROVE  IInv'
<1> DEFINE y == local[e]
           x == [y EXCEPT !.rating = 1]
<1>1. /\ Tick /\ Live(y) /\ Wrote(e, x)
      /\ UNCHANGED <<minted, server, shadow, conflict, work, renounced, faults>>
  BY DEF Rate
<1>2. Counters' /\ now' = now + 1
  BY <1>1, TickCounts
<1>3. now <= now' /\ now < now' /\ Good(y, now') /\ now' \in Nat
  BY <1>2, LaterStep
<1>4. y \in Execution /\ Exists(y) /\ y.version # 0
  BY <1>1, <1>3, GoodFacts DEF Live
<1>5. x \in Execution /\ x.version = y.version /\ x.status = y.status /\ x.sessions = y.sessions
      /\ x.final = y.final /\ x.placed = y.placed /\ x.deleted = y.deleted
  BY <1>4 DEF Execution
<1>6. local' = [local EXCEPT ![e] = x] /\ dirty' = dirty \cup {e}
  BY <1>1 DEF Wrote
<1> HIDE DEF x, y
<1>7. Good(x, now') /\ Exists(x) /\ Begun(x) = Begun(y)
  BY <1>3, <1>4, <1>5, SoundLike DEF Good
<1>8. Refinished(x, y) /\ Live(x)
  BY <1>1, <1>5, <1>7 DEF Refinished, SameWork, Live
<1> QED BY <1>1, <1>2, <1>3, <1>5, <1>6, <1>7, <1>8, LocalEdit DEF y

\* An attempt deleted on the device: its work no longer counts.
LEMMA DeleteStep ==
    ASSUME IInv, NEW e \in Ids, Delete(e)
    PROVE  IInv'
<1> DEFINE y == local[e]
           x == [y EXCEPT !.deleted = TRUE]
<1>1. /\ Tick /\ Live(y) /\ Wrote(e, x)
      /\ work' = work \ Begun(y) /\ renounced' = renounced \ Begun(y)
      /\ UNCHANGED <<minted, server, shadow, conflict, faults>>
  BY DEF Delete
<1>2. Counters' /\ now' = now + 1
  BY <1>1, TickCounts
<1>3. now <= now' /\ now < now' /\ Good(y, now') /\ now' \in Nat
  BY <1>2, LaterStep
<1>4. y \in Execution /\ Exists(y) /\ y.version # 0
  BY <1>1, <1>3, GoodFacts DEF Live
<1>5. x \in Execution /\ x.version = y.version /\ x.status = y.status /\ x.sessions = y.sessions
      /\ x.final = y.final /\ x.placed = y.placed
  BY <1>4 DEF Execution
<1>6. local' = [local EXCEPT ![e] = x] /\ dirty' = dirty \cup {e}
  BY <1>1 DEF Wrote
<1> HIDE DEF x, y
<1>7. Good(x, now') /\ Exists(x) /\ Begun(x) = Begun(y)
  BY <1>3, <1>4, <1>5, SoundLike DEF Good
<1>8. Refinished(x, y)
  BY <1>5, <1>7 DEF Refinished, SameWork
<1> QED BY <1>1, <1>2, <1>3, <1>5, <1>6, <1>7, <1>8, LocalEdit DEF y

\* A new attempt, when no attempt of the device holds the placement.
LEMMA CreateStep ==
    ASSUME IInv, Create
    PROVE  IInv'
<1> DEFINE n == minted + 1
<1>1. /\ TypeOK /\ Records /\ Ahead /\ Known /\ Asked /\ Placed /\ Copied /\ Gone /\ WorkKept /\ Once
      /\ now \in Nat /\ minted \in Nat /\ MaxIds \in Nat
  BY LifecycleAssumption DEF IInv, Core, TypeOK, Instants
<1>2. /\ minted < MaxIds /\ (\A e \in Ids : ~ local[e].placed) /\ minted' = n
      /\ local' = [local EXCEPT ![n] = Fresh] /\ dirty' = dirty \cup {n}
      /\ UNCHANGED <<now, web, server, shadow, conflict, work, renounced, faults>>
  BY DEF Create, Wrote
<1>3. n \in Ids /\ n > minted /\ n \in 0 .. MaxIds
  BY <1>1, <1>2 DEF Ids
<1> HIDE DEF n
<1>4. Sound(Fresh) /\ Live(Fresh) /\ Begun(Fresh) = {} /\ Good(Fresh, now) /\ Exists(Fresh)
  BY <1>1, FreshSound DEF Good, Live
<1>5. /\ local'[n] = Fresh /\ \A o \in Ids \ {n} : local'[o] = local[o]
      /\ local' \in [Ids -> Execution]
  BY <1>1, <1>2, <1>3, <1>4 DEF TypeOK, Sound
<1>6. ~ Exists(local[n]) /\ ~ Exists(server[n]) /\ n \notin dirty /\ ~ conflict[n].open
  BY <1>1, <1>3 DEF Known
<1>7. ~ Exists(shadow[n]) /\ conflict[n].remote = Absent /\ local[n] = Absent /\ server[n] = Absent
      /\ shadow[n] = Absent
  BY <1>1, <1>3, <1>6, AbsentFacts DEF Ahead, Later, Asked, Records, Good, Sound
<1>8. TypeOK'
  BY <1>1, <1>2, <1>3, <1>5 DEF TypeOK
<1>9. Records'
  BY <1>1, <1>2, <1>4, <1>5 DEF Records
<1>10. Ahead'
  BY <1>1, <1>2 DEF Ahead
<1>11. Known'
  <2>1. \A e \in Ids : e > n => e > minted
    BY <1>1, <1>3 DEF Ids
  <2>2. dirty \subseteq Ids /\ minted' = n
    BY <1>1, <1>2 DEF TypeOK
  <2>3. \A e \in Ids : e > n => e # n
    BY <1>3 DEF Ids
  <2> QED BY <1>1, <1>2, <1>3, <1>4, <1>5, <1>6, <2>1, <2>2, <2>3, ZenonT(60) DEF Known
<1>12. Asked'
  BY <1>1, <1>2, <1>5, <1>6 DEF Asked
<1>13. Placed'
  BY <1>1, <1>2, <1>5 DEF Placed, InPlay
<1>14. Copied'
  <2>1. Begun(shadow[n]) = {}
    BY <1>7, AbsentFacts
  <2> QED BY <1>1, <1>2, <1>5, <2>1 DEF Copied
<1>15. Gone'
  BY <1>1, <1>2, <1>4, <1>5 DEF Gone, Live
<1>16. WorkKept'
  <2>1. Worked(local[n]) = {}
    BY <1>6 DEF Worked, Live
  <2>2. \A o \in Ids : Worked(local[o]) \subseteq Worked(local'[o])
    BY <1>5, <2>1
  <2> QED BY <1>1, <1>2, <2>2 DEF WorkKept
<1>17. Once'
  <2> SUFFICES ASSUME NEW o \in Ids
               PROVE  \A y, z \in {local'[o], server[o], shadow[o], conflict[o].remote} : SameFinish(y, z)
    BY <1>2 DEF Once, States
  <2>1. Fresh.final = Unset /\ Absent.final = Unset
    BY DEF Fresh, Absent
  <2>2. \A y, z \in {Fresh, Absent} : SameFinish(y, z)
    BY <2>1 DEF SameFinish
  <2>3. CASE o = n
    BY <1>5, <1>7, <2>2, <2>3
  <2>4. CASE o # n
    BY <1>1, <1>5, <2>4 DEF Once, States
  <2> QED BY <2>3, <2>4
<1> QED BY <1>8, <1>9, <1>10, <1>11, <1>12, <1>13, <1>14, <1>15, <1>16, <1>17 DEF IInv, Core

-----------------------------------------------------------------------------
(* The user on the web.                                                     *)

\* The user changes a live attempt on the web.
LEMMA WebEdit ==
    ASSUME IInv, Counters', now <= now', NEW e \in Ids, Live(server[e]),
           NEW x, Good(x, now'), Exists(x), x.placed = server[e].placed, x.version > server[e].version,
           Begun(server[e]) \subseteq Begun(x), Refinished(x, server[e]),
           server' = [server EXCEPT ![e] = x],
           UNCHANGED <<minted, local, shadow, dirty, conflict>>,
           \/ Live(x) /\ work' = work /\ renounced' = renounced
           \/ /\ Begun(x) = Begun(server[e])
              /\ work' = work \ Begun(x) /\ renounced' = renounced \ Begun(x)
    PROVE  IInv'
<1>1. /\ TypeOK /\ Records /\ Ahead /\ Known /\ Asked /\ Placed /\ Copied /\ Gone /\ WorkKept /\ Once
      /\ now \in Nat /\ now' \in Nat /\ now' \in Instants
  BY LifecycleAssumption DEF IInv, Core, Counters, TypeOK, Instants
<1>2. x \in Execution /\ x.deleted \in BOOLEAN /\ x.version \in Nat
  BY <1>1, GoodFacts
<1>3. /\ server'[e] = x /\ \A o \in Ids \ {e} : server'[o] = server[o]
      /\ server' \in [Ids -> Execution]
  BY <1>1, <1>2 DEF TypeOK
<1>4. Exists(server[e]) /\ ~ server[e].deleted
  BY DEF Live
<1>5. \A o \in Ids : /\ Exists(server'[o]) <=> Exists(server[o])
                     /\ server'[o].placed = server[o].placed
  BY <1>3, <1>4
<1>6. work' \subseteq work /\ renounced' \subseteq work' /\ work' \ renounced' \subseteq work \ renounced
  BY <1>1 DEF TypeOK
<1>7. TypeOK'
  BY <1>1, <1>3, <1>6 DEF TypeOK, Counters
<1>8. Records'
  <2> SUFFICES ASSUME NEW o \in Ids
               PROVE  /\ Good(local[o], now') /\ Good(server'[o], now')
                      /\ Good(shadow[o], now') /\ Good(conflict[o].remote, now')
    BY DEF Records
  <2>1. /\ Good(local[o], now) /\ Good(server[o], now) /\ Good(shadow[o], now)
        /\ Good(conflict[o].remote, now)
    BY <1>1 DEF Records
  <2> QED BY <1>1, <1>3, <2>1, GoodLater
<1>9. Ahead'
  <2> SUFFICES ASSUME NEW o \in Ids
               PROVE  Later(server'[o], shadow[o]) /\ Later(server'[o], conflict[o].remote)
    BY DEF Ahead
  <2>1. Later(server[o], shadow[o]) /\ Later(server[o], conflict[o].remote)
    BY <1>1 DEF Ahead
  <2>2. CASE o # e
    BY <1>3, <2>1, <2>2
  <2>3. CASE o = e
    <3>1. server[e].version \in Nat /\ Good(server[e], now')
      BY <1>1, GoodFacts, GoodLater DEF Records
    <3>2. Later(x, server[e])
      BY <1>2, <1>4, <3>1 DEF Later
    <3>3. Good(shadow[e], now') /\ Good(conflict[e].remote, now')
      BY <1>1, GoodLater DEF Records
    <3>4. Later(x, shadow[e]) /\ Later(x, conflict[e].remote)
      BY <1>1, <2>1, <2>3, <3>1, <3>2, <3>3, LaterTrans
    <3> QED BY <1>3, <2>3, <3>4
  <2> QED BY <2>2, <2>3
<1>10. Known'
  BY <1>1, <1>4, <1>5 DEF Known
<1>11. Asked'
  BY <1>1 DEF Asked
<1>12. Placed'
  BY <1>1, <1>5 DEF Placed, InPlay
<1>13. Copied'
  BY <1>1 DEF Copied
<1>14. Gone'
  <2>1. \A t \in work' : t <= now'
    BY <1>1, <1>6 DEF Gone, TypeOK, Instants
  <2>2. \A o \in Ids : local[o].deleted /\ Exists(shadow[o]) => Begun(local[o]) \cap work' = {}
    BY <1>1, <1>6 DEF Gone
  <2>3. \A o \in Ids : server'[o].deleted => Begun(server'[o]) \cap work' = {}
    <3>1. \A o \in Ids \ {e} : server'[o].deleted => Begun(server'[o]) \cap work' = {}
      BY <1>1, <1>3, <1>6 DEF Gone
    <3>2. x.deleted => Begun(x) \cap work' = {}
      BY DEF Live
    <3> QED BY <1>3, <3>1, <3>2
  <2> QED BY <2>1, <2>2, <2>3 DEF Gone
<1>15. WorkKept'
  BY <1>1, <1>6 DEF WorkKept
<1>16. Once'
  <2> SUFFICES ASSUME NEW o \in Ids
               PROVE  \A y, z \in {local[o], server'[o], shadow[o], conflict[o].remote} : SameFinish(y, z)
    BY DEF Once, States
  <2>1. \A y, z \in {local[o], server[o], shadow[o], conflict[o].remote} : SameFinish(y, z)
    BY <1>1 DEF Once, States
  <2>2. CASE o # e
    BY <1>3, <2>1, <2>2
  <2>3. CASE o = e
    <3>1. \A z \in {local[e], shadow[e], conflict[e].remote} : SameFinish(x, z) /\ SameFinish(z, x)
      BY <1>1, <2>1, <2>3, RefinishedSame DEF Records
    <3>2. SameFinish(x, x)
      BY DEF SameFinish, SameWork
    <3> QED BY <1>3, <2>1, <2>3, <3>1, <3>2
  <2> QED BY <2>2, <2>3
<1> QED BY <1>7, <1>8, <1>9, <1>10, <1>11, <1>12, <1>13, <1>14, <1>15, <1>16 DEF IInv, Core

\* Lifecycle actions on the web.
LEMMA WebActsStep ==
    ASSUME IInv, NEW e \in Ids, NEW acts \in Seq(Kinds), WebActs(e, acts)
    PROVE  IInv'
<1> DEFINE y == server[e]
           x == Replay(y, AtOnce(acts, now'))
<1>1. /\ WebTick /\ Live(y) /\ acts # <<>> /\ x # Refused
      /\ server' = [server EXCEPT ![e] = x]
      /\ UNCHANGED <<minted, local, shadow, dirty, conflict, work, renounced, faults>>
  BY DEF WebActs, Replay, AtOnce
<1>2. Counters' /\ now' = now + 1
  BY <1>1, TickCounts
<1>3. now <= now' /\ now < now' /\ now' \in 1 .. MaxTime /\ Good(y, now')
  BY <1>2, LaterStep
<1>4. /\ Sound(x) /\ ByTime(x, now') /\ Live(x) /\ x.placed = y.placed
      /\ x.version > y.version /\ x.final \in {now', Unset} /\ Begun(y) \subseteq Begun(x)
  <2>1. Sound(y) /\ ByTime(y, now') /\ now' \in 1 .. MaxTime
    BY <1>3 DEF Good
  <2> HIDE DEF y
  <2> QED BY <1>1, <2>1, WebSound
<1> HIDE DEF x
<1>5. Good(x, now') /\ Exists(x) /\ Refinished(x, y)
  BY <1>3, <1>4 DEF Good, Live, Refinished, SameWork
<1> QED BY <1>1, <1>2, <1>3, <1>4, <1>5, WebEdit

\* A rating given on the web.
LEMMA WebRateStep ==
    ASSUME IInv, NEW e \in Ids, WebRate(e)
    PROVE  IInv'
<1> DEFINE y == server[e]
           x == [y EXCEPT !.rating = 1, !.version = y.version + 1]
<1>1. /\ WebTick /\ Live(y)
      /\ server' = [server EXCEPT ![e].rating = 1, ![e].version = @ + 1]
      /\ UNCHANGED <<minted, local, shadow, dirty, conflict, work, renounced, faults>>
  BY DEF WebRate
<1>2. Counters' /\ now' = now + 1
  BY <1>1, TickCounts
<1>3. now <= now' /\ now < now' /\ Good(y, now') /\ now' \in Nat
  BY <1>2, LaterStep
<1>4. y \in Execution /\ Exists(y) /\ y.version # 0 /\ y.version \in Nat
  BY <1>1, <1>3, GoodFacts DEF Live
<1>5. x \in Execution /\ x.version = y.version + 1 /\ x.status = y.status /\ x.sessions = y.sessions
      /\ x.final = y.final /\ x.placed = y.placed /\ x.deleted = y.deleted
  <2> DEFINE z == [y EXCEPT !.rating = 1]
  <2> HIDE DEF y
  <2>1. z \in Execution /\ z.version = y.version /\ z.status = y.status /\ z.sessions = y.sessions
        /\ z.final = y.final /\ z.placed = y.placed /\ z.deleted = y.deleted
    BY <1>4 DEF Execution
  <2>2. x = [z EXCEPT !.version = y.version + 1] /\ y.version + 1 \in Nat
    BY <1>4 DEF Execution
  <2> HIDE DEF x, z
  <2> QED BY <2>1, <2>2 DEF Execution
<1>6. server' = [server EXCEPT ![e] = x]
  <2>1. server \in [Ids -> Execution]
    BY DEF IInv, TypeOK
  <2> QED BY <1>1, <1>4, <2>1 DEF Execution
<1> HIDE DEF x, y
<1>7. Good(x, now') /\ Exists(x) /\ Begun(x) = Begun(y)
  BY <1>3, <1>4, <1>5, SoundLike DEF Good
<1>8. Refinished(x, y) /\ Live(x) /\ x.version > y.version
  BY <1>1, <1>4, <1>5, <1>7 DEF Refinished, SameWork, Live
<1> QED BY <1>1, <1>2, <1>3, <1>5, <1>6, <1>7, <1>8, WebEdit DEF y

\* An attempt deleted on the web: its work no longer counts.
LEMMA WebDeleteStep ==
    ASSUME IInv, NEW e \in Ids, WebDelete(e)
    PROVE  IInv'
<1> DEFINE y == server[e]
           x == [y EXCEPT !.deleted = TRUE, !.version = y.version + 1]
<1>1. /\ WebTick /\ Live(y)
      /\ server' = [server EXCEPT ![e].deleted = TRUE, ![e].version = @ + 1]
      /\ work' = work \ Begun(y) /\ renounced' = renounced \ Begun(y)
      /\ UNCHANGED <<minted, local, shadow, dirty, conflict, faults>>
  BY DEF WebDelete
<1>2. Counters' /\ now' = now + 1
  BY <1>1, TickCounts
<1>3. now <= now' /\ now < now' /\ Good(y, now') /\ now' \in Nat
  BY <1>2, LaterStep
<1>4. y \in Execution /\ Exists(y) /\ y.version # 0 /\ y.version \in Nat
  BY <1>1, <1>3, GoodFacts DEF Live
<1>5. x \in Execution /\ x.version = y.version + 1 /\ x.status = y.status /\ x.sessions = y.sessions
      /\ x.final = y.final /\ x.placed = y.placed
  <2> DEFINE z == [y EXCEPT !.deleted = TRUE]
  <2> HIDE DEF y
  <2>1. z \in Execution /\ z.version = y.version /\ z.status = y.status /\ z.sessions = y.sessions
        /\ z.final = y.final /\ z.placed = y.placed
    BY <1>4 DEF Execution
  <2>2. x = [z EXCEPT !.version = y.version + 1] /\ y.version + 1 \in Nat
    BY <1>4 DEF Execution
  <2> HIDE DEF x, z
  <2> QED BY <2>1, <2>2 DEF Execution
<1>6. server' = [server EXCEPT ![e] = x]
  <2>1. server \in [Ids -> Execution]
    BY DEF IInv, TypeOK
  <2> QED BY <1>1, <1>4, <2>1 DEF Execution
<1> HIDE DEF x, y
<1>7. Good(x, now') /\ Exists(x) /\ Begun(x) = Begun(y)
  BY <1>3, <1>4, <1>5, SoundLike DEF Good
<1>8. Refinished(x, y) /\ x.version > y.version
  BY <1>1, <1>4, <1>5, <1>7 DEF Refinished, SameWork
<1> QED BY <1>1, <1>2, <1>3, <1>5, <1>6, <1>7, <1>8, WebEdit DEF y

\* A new attempt, when no attempt of the server holds the placement.
LEMMA WebCreateStep ==
    ASSUME IInv, WebCreate
    PROVE  IInv'
<1> DEFINE n == minted + 1
<1>1. /\ TypeOK /\ Records /\ Ahead /\ Known /\ Asked /\ Placed /\ Copied /\ Gone /\ WorkKept /\ Once
      /\ now \in Nat /\ minted \in Nat /\ MaxIds \in Nat
  BY LifecycleAssumption DEF IInv, Core, TypeOK, Instants
<1>2. /\ minted < MaxIds /\ ~ PlacementTaken /\ minted' = n
      /\ server' = [server EXCEPT ![n] = Fresh]
      /\ UNCHANGED <<now, web, local, shadow, dirty, conflict, work, renounced, faults>>
  BY DEF WebCreate
<1>3. n \in Ids /\ n > minted /\ n \in 0 .. MaxIds
  BY <1>1, <1>2 DEF Ids
<1> HIDE DEF n
<1>4. Sound(Fresh) /\ Live(Fresh) /\ Begun(Fresh) = {} /\ Good(Fresh, now) /\ Exists(Fresh)
  BY <1>1, FreshSound DEF Good, Live
<1>5. /\ server'[n] = Fresh /\ \A o \in Ids \ {n} : server'[o] = server[o]
      /\ server' \in [Ids -> Execution]
  BY <1>1, <1>2, <1>3, <1>4 DEF TypeOK, Sound
<1>6. ~ Exists(local[n]) /\ ~ Exists(server[n]) /\ n \notin dirty /\ ~ conflict[n].open
  BY <1>1, <1>3 DEF Known
<1>7. ~ Exists(shadow[n]) /\ conflict[n].remote = Absent /\ local[n] = Absent /\ server[n] = Absent
      /\ shadow[n] = Absent
  BY <1>1, <1>3, <1>6, AbsentFacts DEF Ahead, Later, Asked, Records, Good, Sound
<1>8. TypeOK'
  BY <1>1, <1>2, <1>3, <1>5 DEF TypeOK
<1>9. Records'
  BY <1>1, <1>2, <1>4, <1>5 DEF Records
<1>10. Ahead'
  BY <1>1, <1>2, <1>5, <1>7, AbsentFacts DEF Ahead, Later
<1>11. Known'
  <2>1. \A e \in Ids : e > n => e > minted
    BY <1>1, <1>3 DEF Ids
  <2>2. dirty \subseteq Ids /\ minted' = n
    BY <1>1, <1>2 DEF TypeOK
  <2>3. \A e \in Ids : e > n => e # n
    BY <1>3 DEF Ids
  <2>4. \A e \in Ids : server[e].placed => Exists(server[e])
    BY <1>1, GoodFacts DEF Records
  <2>5. \A e \in Ids : ~ server[e].placed
    BY <1>2, <2>4 DEF PlacementTaken
  <2> QED BY <1>1, <1>2, <1>3, <1>4, <1>5, <1>6, <2>1, <2>2, <2>3, <2>5 DEF Known
<1>12. Asked'
  BY <1>1, <1>2 DEF Asked
<1>13. Placed'
  <2>1. \A o \in Ids : o # n => (Exists(server'[o]) <=> Exists(server[o]))
    BY <1>5
  <2>2. local[n].placed = FALSE
    BY <1>7, AbsentFacts
  <2> QED BY <1>1, <1>2, <2>1, <2>2 DEF Placed, InPlay
<1>14. Copied'
  BY <1>1, <1>2 DEF Copied
<1>15. Gone'
  BY <1>1, <1>2, <1>4, <1>5 DEF Gone, Live
<1>16. WorkKept'
  BY <1>1, <1>2 DEF WorkKept
<1>17. Once'
  <2> SUFFICES ASSUME NEW o \in Ids
               PROVE  \A y, z \in {local[o], server'[o], shadow[o], conflict[o].remote} : SameFinish(y, z)
    BY <1>2 DEF Once, States
  <2>1. Fresh.final = Unset /\ Absent.final = Unset
    BY DEF Fresh, Absent
  <2>2. \A y, z \in {Fresh, Absent} : SameFinish(y, z)
    BY <2>1 DEF SameFinish
  <2>3. CASE o = n
    BY <1>5, <1>7, <2>2, <2>3
  <2>4. CASE o # n
    BY <1>1, <1>5, <2>4 DEF Once, States
  <2> QED BY <2>3, <2>4
<1> QED BY <1>8, <1>9, <1>10, <1>11, <1>12, <1>13, <1>14, <1>15, <1>16, <1>17 DEF IInv, Core

-----------------------------------------------------------------------------
(* An exchange with the server that asks the user.                          *)

\* A conflict is opened, or an open one learns a newer server state.
LEMMA ConflictStep ==
    ASSUME IInv, NEW e \in Ids, NEW r \in {Absent} \cup States(e), Later(server[e], r), NEW a \in Ids,
           conflict' = [conflict EXCEPT ![e] = [open |-> TRUE, remote |-> r, about |-> a]],
           UNCHANGED <<local, server, shadow, dirty>>,
           UNCHANGED <<now, web, minted, work, renounced>>, faults' \in 0 .. MaxFaults,
           Exists(local[a]),
           a # e => Exists(r) /\ r.placed /\ local[a].placed /\ ~ Live(local[e])
    PROVE  IInv'
<1>1. /\ TypeOK /\ Records /\ Ahead /\ Known /\ Asked /\ Placed /\ Copied /\ Gone /\ WorkKept /\ Once
      /\ now \in Nat
  BY LifecycleAssumption DEF IInv, Core, TypeOK, Instants
<1>2. Good(r, now)
  <2>1. Good(Absent, now)
    BY <1>1, AbsentSound DEF Good
  <2> QED BY <1>1, <2>1 DEF States, Records
<1> DEFINE c == [open |-> TRUE, remote |-> r, about |-> a]
<1>3. /\ c \in [open : BOOLEAN, remote : Execution, about : 0 .. MaxIds]
      /\ c.open /\ c.remote = r /\ c.about = a
  BY <1>1, <1>2, GoodFacts, LifecycleAssumption DEF Ids
<1> HIDE DEF c
<1>4. conflict'[e] = c /\ \A o \in Ids \ {e} : conflict'[o] = conflict[o]
  BY <1>1 DEF TypeOK, c
<1>5. TypeOK'
  <2>1. conflict' \in [Ids -> [open : BOOLEAN, remote : Execution, about : 0 .. MaxIds]]
    BY <1>1, <1>3 DEF TypeOK, c
  <2> QED BY <1>1, <2>1 DEF TypeOK
<1>6. Records'
  BY <1>1, <1>2, <1>3, <1>4 DEF Records
<1>7. Ahead'
  BY <1>1, <1>3, <1>4 DEF Ahead
<1>8. Known'
  <2>1. e <= minted
    <3>1. Exists(r) => Exists(server[e])
      BY DEF Later
    <3>2. Exists(local[e]) \/ Exists(server[e])
      BY <3>1
    <3>3. minted \in Int /\ e \in Int
      BY <1>1 DEF TypeOK, Ids
    <3> QED BY <1>1, <3>2, <3>3 DEF Known
  <2>2. minted \in Int /\ e \in Int
    BY <1>1 DEF TypeOK, Ids
  <2>3. \A o \in Ids : o > minted => o # e
    BY <2>1, <2>2 DEF Ids
  <2> QED BY <1>1, <1>4, <2>3 DEF Known
<1>9. Asked'
  BY <1>1, <1>3, <1>4 DEF Asked
<1>10. Placed'
  BY <1>1 DEF Placed, InPlay
<1>11. Copied'
  BY <1>1, <1>3, <1>4 DEF Copied
<1>12. Gone'
  BY <1>1 DEF Gone
<1>13. WorkKept'
  BY <1>1 DEF WorkKept
<1>14. Once'
  <2> SUFFICES ASSUME NEW o \in Ids
               PROVE  \A y, z \in {local[o], server[o], shadow[o], conflict'[o].remote} : SameFinish(y, z)
    BY DEF Once, States
  <2>1. \A y, z \in States(o) : SameFinish(y, z)
    BY <1>1 DEF Once
  <2>2. \A y : SameFinish(Absent, y) /\ SameFinish(y, Absent)
    BY AbsentFacts DEF SameFinish, SameWork
  <2>3. CASE o # e
    BY <1>4, <2>1, <2>3 DEF States
  <2>4. CASE o = e
    <3>1. conflict'[o].remote = r
      BY <1>3, <1>4, <2>4
    <3> QED BY <2>1, <2>2, <2>4, <3>1 DEF States
  <2> QED BY <2>3, <2>4
<1> QED BY <1>5, <1>6, <1>7, <1>8, <1>9, <1>10, <1>11, <1>12, <1>13, <1>14 DEF IInv, Core

-----------------------------------------------------------------------------
(* An exchange with the server that settles the attempt.                   *)

\* The server takes x for the device's attempt, and the device knows it did.
LEMMA AcknowledgedStep ==
    ASSUME IInv, NEW e \in Ids, e \in dirty, ~ conflict[e].open,
           NEW x, Good(x, now), Exists(x), Later(x, server[e]), x.placed = local[e].placed,
           x.placed /\ ~ Exists(server[e]) => ~ PlacementTaken,
           ~ Exists(server[e]) => Live(local[e]),
           Begun(x) \subseteq Begun(local[e]), SameFinish(x, local[e]), SameFinish(local[e], x),
           \/ Live(local[e]) /\ Agrees(local[e], x)
           \/ local[e].deleted /\ x.deleted /\ Begun(local[e]) \cap work = {},
           Acknowledged(e, x), UNCHANGED user
    PROVE  IInv'
<1>1. /\ TypeOK /\ Records /\ Ahead /\ Known /\ Asked /\ Placed /\ Copied /\ Gone /\ WorkKept /\ Once
      /\ now \in Nat
  BY LifecycleAssumption DEF IInv, Core, TypeOK, Instants
<1>2. /\ server' = [server EXCEPT ![e] = x] /\ shadow' = [shadow EXCEPT ![e] = x]
      /\ dirty' = dirty \ {e} /\ UNCHANGED <<local, conflict>>
      /\ UNCHANGED <<now, web, minted, work, renounced, faults>>
  BY DEF Acknowledged, user
<1>3. /\ x \in Execution /\ x.version \in Nat /\ x.deleted \in BOOLEAN
  BY <1>1, GoodFacts
<1>4. /\ server'[e] = x /\ \A o \in Ids \ {e} : server'[o] = server[o]
      /\ shadow'[e] = x /\ \A o \in Ids \ {e} : shadow'[o] = shadow[o]
      /\ server' \in [Ids -> Execution] /\ shadow' \in [Ids -> Execution]
  BY <1>1, <1>2, <1>3 DEF TypeOK
<1>5. conflict[e].remote = Absent /\ Exists(local[e])
  BY <1>1, AbsentFacts DEF Asked, Known
<1>6. Exists(server[e]) => server[e].placed = x.placed
  BY DEF Later
<1>7. TypeOK'
  BY <1>1, <1>2, <1>4 DEF TypeOK
<1>8. Records'
  BY <1>1, <1>2, <1>4 DEF Records
<1>9. Ahead'
  <2>1. Later(x, x) /\ Later(x, Absent)
    BY <1>3, AbsentFacts DEF Later
  <2> QED BY <1>1, <1>2, <1>4, <1>5, <2>1 DEF Ahead
<1>10. Known'
  <2>1. \A o \in Ids : server[o].placed => Exists(server[o])
    BY <1>1, GoodFacts DEF Records
  <2>2. \A a, b \in Ids : server'[a].placed /\ server'[b].placed => a = b
    <3>1. ASSUME NEW o \in Ids, o # e, server[o].placed, x.placed
          PROVE  FALSE
      <4>1. Exists(server[o])
        BY <2>1, <3>1
      <4>2. ~ Exists(server[e])
        BY <1>1, <1>6, <3>1 DEF Known
      <4> QED BY <3>1, <4>1, <4>2 DEF PlacementTaken
    <3>2. \A a, b \in Ids : server[a].placed /\ server[b].placed => a = b
      BY <1>1 DEF Known
    <3> QED BY <1>4, <3>1, <3>2
  <2>3. \A o \in Ids : o > minted => o # e
    BY <1>1, <1>5 DEF Known
  <2>4. \A o \in Ids : o > minted =>
           ~ Exists(local[o]) /\ ~ Exists(server'[o]) /\ o \notin dirty' /\ ~ conflict[o].open
    BY <1>1, <1>2, <1>4, <2>3 DEF Known
  <2>5. \A o \in Ids : Exists(local[o]) /\ Exists(server'[o]) =>
           Exists(shadow'[o]) /\ local[o].placed = shadow'[o].placed
    BY <1>1, <1>4 DEF Known
  <2>6. \A o \in dirty' : Exists(local[o])
    BY <1>1, <1>2 DEF Known
  <2> QED BY <1>2, <2>2, <2>4, <2>5, <2>6 DEF Known
<1>11. Asked'
  BY <1>1, <1>2 DEF Asked
<1>12. Placed'
  <2>1. \A o \in Ids : ~ Exists(server'[o]) => ~ Exists(server[o])
    BY <1>4
  <2>2. \A o \in Ids : InPlay(o)' => InPlay(o)
    BY <1>2, <1>4 DEF InPlay
  <2> QED BY <1>1, <1>2, <2>1, <2>2 DEF Placed
<1>13. Copied'
  <2>1. /\ Live(local[e]) => Agrees(local[e], x)
        /\ Live(x) => Live(local[e])
    BY DEF Live
  <2>2. \A o \in Ids : Exists(local[o]) => Begun(shadow'[o]) \subseteq Begun(local[o])
    BY <1>1, <1>4 DEF Copied
  <2>3. \A o \in Ids : o \notin dirty' /\ Live(local[o]) => Exists(shadow'[o]) /\ Agrees(local[o], shadow'[o])
    BY <1>1, <1>2, <1>4, <2>1 DEF Copied
  <2>4. \A o \in Ids : o \notin dirty' /\ ~ conflict[o].open /\ Live(shadow'[o]) => Live(local[o])
    BY <1>1, <1>2, <1>4, <2>1 DEF Copied
  <2> QED BY <1>2, <2>2, <2>3, <2>4 DEF Copied
<1>14. Gone'
  <2>1. /\ x.deleted => Begun(x) \cap work = {}
        /\ local[e].deleted => Begun(local[e]) \cap work = {}
    BY DEF Agrees, Live
  <2> QED BY <1>1, <1>2, <1>4, <2>1 DEF Gone
<1>15. WorkKept'
  BY <1>1, <1>2 DEF WorkKept
<1>16. Once'
  <2> SUFFICES ASSUME NEW o \in Ids
               PROVE  \A y, z \in {local[o], server'[o], shadow'[o], conflict[o].remote} : SameFinish(y, z)
    BY <1>2 DEF Once, States
  <2>1. \A y, z \in States(o) : SameFinish(y, z)
    BY <1>1 DEF Once
  <2>2. \A y : SameFinish(Absent, y) /\ SameFinish(y, Absent) /\ SameFinish(y, y)
    BY AbsentFacts DEF SameFinish, SameWork
  <2>3. CASE o # e
    BY <1>4, <2>1, <2>3 DEF States
  <2>4. CASE o = e
    BY <1>4, <1>5, <2>2, <2>4
  <2> QED BY <2>3, <2>4
<1> QED BY <1>7, <1>8, <1>9, <1>10, <1>11, <1>12, <1>13, <1>14, <1>15, <1>16 DEF IInv, Core

\* The device has nothing to send.
LEMMA CleanStep ==
    ASSUME IInv, NEW e \in Ids, Live(shadow[e]) => Live(local[e]),
           Live(local[e]) => Exists(shadow[e]) /\ Agrees(local[e], shadow[e]),
           Clean(e), UNCHANGED user
    PROVE  IInv'
<1>1. /\ TypeOK /\ Records /\ Ahead /\ Known /\ Asked /\ Placed /\ Copied /\ Gone /\ WorkKept /\ Once
      /\ dirty' = dirty \ {e} /\ UNCHANGED <<local, server, shadow, conflict>>
      /\ UNCHANGED <<now, web, minted, work, renounced, faults>>
  BY DEF IInv, Core, Clean, user
<1>2. TypeOK'
  BY <1>1 DEF TypeOK
<1>3. Records'
  BY <1>1 DEF Records
<1>4. Ahead'
  BY <1>1 DEF Ahead
<1>5. Known'
  BY <1>1 DEF Known
<1>6. Asked'
  BY <1>1 DEF Asked
<1>7. Placed'
  BY <1>1 DEF Placed, InPlay
<1>8. Copied'
  BY <1>1 DEF Copied
<1>9. Gone'
  BY <1>1 DEF Gone
<1>10. WorkKept'
  BY <1>1 DEF WorkKept
<1>11. Once'
  BY <1>1 DEF Once, States
<1> QED BY <1>2, <1>3, <1>4, <1>5, <1>6, <1>7, <1>8, <1>9, <1>10, <1>11 DEF IInv, Core

\* What the device pushes, of an attempt it changed.
LEMMA ToPush ==
    ASSUME IInv, NEW e \in dirty
    PROVE  /\ e \in Ids /\ Exists(local[e]) /\ now \in Nat /\ now \in 0 .. MaxTime
           /\ Exists(shadow[e]) => Exists(server[e])
           /\ Exists(server[e]) => /\ Exists(shadow[e]) /\ local[e].placed = shadow[e].placed
                                   /\ server[e].placed = shadow[e].placed
           /\ Exists(shadow[e]) /\ shadow[e].version = server[e].version => server[e] = shadow[e]
           /\ Begun(shadow[e]) \subseteq Begun(local[e])
BY LifecycleAssumption DEF IInv, Core, TypeOK, Known, Ahead, Later, Copied, Instants

\* A push that ends in a conflict over a state of the server, or none.
LEMMA PushConflictStep ==
    ASSUME IInv, NEW e \in dirty, NEW r \in {Absent, server[e], shadow[e]}, Conflict(e, r, e),
           UNCHANGED <<now, web, minted, work, renounced>>, faults' \in 0 .. MaxFaults
    PROVE  IInv'
<1>1. e \in Ids /\ Exists(local[e]) /\ now \in Nat
  BY ToPush
<1>2. Good(server[e], now) /\ Later(server[e], shadow[e])
  BY <1>1, InvFacts
<1>3. Later(server[e], server[e]) /\ Later(server[e], Absent)
  BY <1>1, <1>2, GoodFacts, AbsentFacts DEF Later
<1>4. r \in {Absent} \cup States(e) /\ Later(server[e], r)
  BY <1>2, <1>3 DEF States
<1> QED BY <1>1, <1>4, ConflictStep DEF Conflict

\* A request refused as a whole.
LEMMA RefuseStep ==
    ASSUME IInv, NEW e \in Ids, Refuse(e)
    PROVE  IInv'
<1>1. /\ faults < MaxFaults /\ faults' = faults + 1 /\ e \in dirty /\ Conflict(e, Absent, e)
      /\ UNCHANGED <<now, web, minted, work, renounced>>
  BY DEF Refuse
<1>2. faults' \in 0 .. MaxFaults
  BY <1>1, LifecycleAssumption DEF IInv, TypeOK
<1> QED BY <1>1, <1>2, PushConflictStep

\* A create: taken as version 1 by a server without an attempt of the placement, or refused.
LEMMA PushCreateStep ==
    ASSUME IInv, NEW e \in dirty, ~ conflict[e].open, ~ local[e].deleted, ~ Exists(shadow[e]),
           PushCreate(e), UNCHANGED user
    PROVE  IInv'
<1> DEFINE y == local[e]
           x == [y EXCEPT !.version = 1]
<1>1. CASE Conflict(e, Absent, e)
  BY <1>1, PushConflictStep DEF user, IInv, TypeOK
<1>2. CASE ~ (y.placed /\ PlacementTaken) /\ Acknowledged(e, x)
  <2>1. e \in Ids /\ Exists(y) /\ now \in Nat /\ ~ Exists(server[e]) /\ Live(y)
    BY ToPush DEF Live
  <2>2. Good(y, now) /\ y \in Execution
    BY <2>1, InvFacts, GoodFacts
  <2> HIDE DEF y
  <2>3. /\ x \in Execution /\ x.version # 0 /\ x.placed = y.placed
        /\ x.status = y.status /\ x.sessions = y.sessions /\ x.final = y.final /\ x.deleted = y.deleted
    BY <2>2 DEF Execution
  <2> HIDE DEF x
  <2>4. Good(x, now) /\ Exists(x) /\ Begun(x) = Begun(y)
    BY <2>1, <2>2, <2>3, SoundLike DEF Good
  <2>5. Later(x, server[e]) /\ SameFinish(x, y) /\ SameFinish(y, x) /\ Agrees(y, x)
    BY <2>1, <2>3, <2>4 DEF Later, SameFinish, SameWork, Agrees, Live
  <2> QED BY <1>2, <2>1, <2>3, <2>4, <2>5, AcknowledgedStep DEF y
<1> QED BY <1>1, <1>2 DEF PushCreate

\* A delete: taken on the acknowledged version, or a conflict.
LEMMA PushDeleteStep ==
    ASSUME IInv, NEW e \in dirty, ~ conflict[e].open, local[e].deleted, Live(shadow[e]),
           PushDelete(e), UNCHANGED user
    PROVE  IInv'
<1> DEFINE y == server[e]
           x == [y EXCEPT !.deleted = TRUE, !.version = y.version + 1]
<1>1. CASE Conflict(e, server[e], e)
  BY <1>1, PushConflictStep DEF user, IInv, TypeOK
<1>2. CASE Live(y) /\ y.version = shadow[e].version /\ Acknowledged(e, x)
  <2>1. e \in Ids /\ Exists(local[e]) /\ now \in Nat /\ Exists(y) /\ shadow[e] = y
        /\ local[e].placed = y.placed /\ Begun(y) \subseteq Begun(local[e])
    BY <1>2, ToPush DEF Live
  <2>2. Good(y, now) /\ y \in Execution /\ y.version \in Nat
    BY <2>1, InvFacts, GoodFacts
  <2>3. SameFinish(y, local[e]) /\ SameFinish(local[e], y)
    BY <2>1, InvFacts DEF States
  <2>4. Begun(local[e]) \cap work = {}
    BY <2>1 DEF IInv, Core, Gone
  <2> HIDE DEF y
  <2>5. /\ x \in Execution /\ x.version = y.version + 1 /\ x.placed = y.placed
        /\ x.status = y.status /\ x.sessions = y.sessions /\ x.final = y.final /\ x.deleted
    <3> DEFINE z == [y EXCEPT !.deleted = TRUE]
    <3>1. z \in Execution /\ z.version = y.version /\ z.status = y.status /\ z.sessions = y.sessions
          /\ z.final = y.final /\ z.placed = y.placed /\ z.deleted
      BY <2>2 DEF Execution
    <3>2. x = [z EXCEPT !.version = y.version + 1] /\ y.version + 1 \in Nat
      BY <2>2 DEF Execution
    <3> HIDE DEF x, z
    <3> QED BY <3>1, <3>2 DEF Execution
  <2> HIDE DEF x
  <2>6. Good(x, now) /\ Exists(x) /\ Begun(x) = Begun(y)
    BY <2>1, <2>2, <2>5, SoundLike DEF Good
  <2>7. Later(x, y) /\ SameFinish(x, local[e]) /\ SameFinish(local[e], x)
    <3>1. ~ y.deleted
      BY <1>2 DEF Live
    <3> QED BY <2>1, <2>2, <2>3, <2>5, <2>6, <3>1 DEF Later, SameFinish, SameWork
  <2> QED BY <1>2, <2>1, <2>4, <2>5, <2>6, <2>7, AcknowledgedStep DEF y
<1> QED BY <1>1, <1>2 DEF PushDelete

\* The changes are messages of this time.
LEMMA ChangesMessages ==
    ASSUME now \in 0 .. MaxTime,
           NEW d, Sound(d), Exists(d), ByTime(d, now), NEW l, Sound(l), Exists(l), ByTime(l, now)
    PROVE  Changes(d, l) \in Seq(Message(now))
<1> DEFINE S == Message(now)
           p == ReopenPart(d, l)
           w == Work(d, l)
           v == VerbPart(d, l)
           r == RatingPart(d, l)
<1>1. /\ p \in Seq(S) /\ w \in Seq(S) /\ v \in Seq(S) /\ r \in Seq(S)
      /\ Changes(d, l) = ((p \o w) \o v) \o r
  BY PartsFacts
<1> HIDE DEF S, p, w, v, r
<1>2. p \o w \in Seq(S)
  BY <1>1, ConcatProperties
<1>3. (p \o w) \o v \in Seq(S)
  BY <1>1, <1>2, ConcatProperties
<1>4. ((p \o w) \o v) \o r \in Seq(S)
  BY <1>1, <1>3, ConcatProperties
<1> QED BY <1>1, <1>4 DEF S

\* A group numbered from a version is refused by a record of another one.
LEMMA BaseFits ==
    ASSUME NEW t \in 0 .. MaxTime, NEW y, Sound(y), Exists(y), ByTime(y, t),
           NEW c \in Seq(Message(t)), NEW v \in Nat, Numbered(c, v) # <<>>,
           AppliedAll(y, Numbered(c, v)) # Refused
    PROVE  y.version = v
<1> DEFINE ops == Numbered(c, v)
<1>1. /\ Len(ops) = Len(c) /\ Len(c) \in Nat /\ DOMAIN ops = 1 .. Len(c)
      /\ \A i \in 1 .. Len(c) : ops[i] = Op(c[i].kind, c[i].at, v + i - 1)
  BY NumberedFacts
<1>2. Len(c) # 0
  <2>1. CASE Len(c) = 0
    <3>1. c = <<>>
      BY <2>1, EmptySeq
    <3>2. Numbered(<<>>, v) = <<>>
      BY DEF Numbered
    <3> QED BY <3>1, <3>2
  <2> QED BY <2>1
<1> HIDE DEF ops
<1>3. \A i \in 1 .. Len(ops) : Timely(ops[i], t)
  <2> SUFFICES ASSUME NEW i \in 1 .. Len(c) PROVE Timely(ops[i], t)
    BY <1>1
  <2>1. c[i] \in Message(t)
    BY ElementOfSeq
  <2>2. ops[i].kind = c[i].kind /\ ops[i].at = c[i].at
    BY <1>1 DEF Op
  <2> QED BY <2>1, <2>2 DEF Message, Timely
<1>4. AppliedAll(y, ops) # Refused /\ Len(ops) \in Nat
  BY <1>1 DEF ops
<1>5. Len(ops) # 0 => ops[1].base = y.version
  BY <1>3, <1>4, AppliedAllSound
<1>6. ops[1].base = v + 1 - 1
  <2>1. 1 \in 1 .. Len(c)
    BY <1>1, <1>2
  <2> QED BY <1>1, <2>1 DEF Op
<1> QED BY <1>1, <1>2, <1>5, <1>6

\* Lifecycle changes: nothing to send, or a group the server takes, or a conflict.
LEMMA PushChangesStep ==
    ASSUME IInv, NEW e \in dirty, ~ conflict[e].open, ~ local[e].deleted, Live(shadow[e]),
           PushChanges(e), UNCHANGED user
    PROVE  IInv'
<1> DEFINE d == shadow[e]
           l == local[e]
           c == Changes(d, l)
           x == AppliedAll(server[e], Group(e))
<1>0. Group(e) = Numbered(c, d.version)
  BY DEF Group
<1>1. /\ e \in Ids /\ Exists(l) /\ Live(l) /\ Exists(d) /\ Live(d) /\ now \in Nat /\ now \in 0 .. MaxTime
      /\ Exists(server[e]) /\ l.placed = d.placed
      /\ (d.version = server[e].version => server[e] = d)
  BY ToPush DEF Live
<1>2. Good(d, now) /\ Good(l, now) /\ Good(server[e], now)
  BY <1>1, InvFacts
<1>3. Sound(d) /\ ByTime(d, now) /\ Sound(l) /\ ByTime(l, now) /\ d.version \in Nat /\ d.deleted = FALSE
  BY <1>1, <1>2, GoodFacts DEF Good, Live
<1>4. c \in Seq(Message(now))
  <2> HIDE DEF d, l
  <2> QED BY <1>1, <1>3, ChangesMessages
<1>5. CASE Conflict(e, shadow[e], e) \/ Conflict(e, server[e], e)
  BY <1>5, PushConflictStep DEF user, IInv, TypeOK
<1>6. CASE ~ Diverged(d, l) /\ Group(e) = <<>> /\ Clean(e)
  <2>1. Replay(d, c) = AppliedAll(d, Group(e)) /\ Replay(d, c) = Replay(d, <<>>)
    <3>1. Len(c) = 0
      <4> HIDE DEF c, d
      <4>1. Len(Numbered(c, d.version)) = Len(c)
        BY <1>4, NumberedFacts
      <4>2. Len(<<>>) = 0
        OBVIOUS
      <4> QED BY <1>0, <1>6, <4>1, <4>2
    <3>2. c = <<>>
      <4> HIDE DEF c
      <4> QED BY <1>4, <3>1, EmptySeq
    <3> QED BY <1>0, <3>2 DEF Replay
  <2>2. Replay(d, c) = d
    BY <2>1, ReplayNone
  <2>3. d # Refused
    BY <1>3, SoundNotRefused
  <2>4. Replay(d, c).status = l.status /\ Begun(Replay(d, c)) = Begun(l)
    <3> HIDE DEF d, l
    <3> QED BY <1>1, <1>3, <1>6, <2>2, <2>3, PushFacts
  <2>5. Agrees(l, d)
    BY <1>3, <2>2, <2>4 DEF Agrees
  <2> QED BY <1>1, <1>6, <2>5, CleanStep
<1>7. CASE ~ Diverged(d, l) /\ Group(e) # <<>> /\ x # Refused /\ Acknowledged(e, x)
  <2>1. server[e].version = d.version
    <3> DEFINE s == server[e]
    <3>1. Sound(s) /\ Exists(s) /\ ByTime(s, now) /\ AppliedAll(s, Numbered(c, d.version)) # Refused
          /\ Numbered(c, d.version) # <<>>
      BY <1>0, <1>1, <1>2, <1>7 DEF Good
    <3> HIDE DEF c, d, s
    <3>2. s.version = d.version
      BY <1>1, <1>3, <1>4, <3>1, BaseFits
    <3> QED BY <3>2 DEF s
  <2>2. server[e] = d
    BY <1>1, <2>1
  <2>3. x = Replay(d, c)
    BY <1>0, <2>2 DEF Replay
  <2> HIDE DEF x
  <2>4. /\ Sound(x) /\ Live(x) /\ ByTime(x, now) /\ x.placed = d.placed
        /\ x.version = d.version + Len(c) /\ Len(c) \in Nat /\ (c = <<>> <=> Len(c) = 0)
        /\ x.status = l.status /\ Begun(x) = Begun(l) /\ Len(x.sessions) = Len(l.sessions)
    <3> HIDE DEF d, l
    <3>1. Pair(d, l)
      BY <1>1, <1>3, <1>7 DEF Pair
    <3> QED BY <1>1, <1>3, <1>7, <2>3, <3>1, PushFacts, PushExact
  <2>5. Len(c) # 0
    <3>1. CASE c = <<>>
      <4>1. Numbered(<<>>, d.version) = <<>>
        BY DEF Numbered
      <4> QED BY <1>0, <1>7, <3>1, <4>1
    <3> HIDE DEF c
    <3> QED BY <2>4, <3>1
  <2>6. Begun(d) \subseteq Begun(l)
    BY ToPush
  <2> HIDE DEF c, d, l
  <2>7. Later(x, d)
    BY <1>3, <2>4, <2>5, <2>6 DEF Later, Live
  <2>8. Good(x, now) /\ Exists(x) /\ SameFinish(x, l) /\ SameFinish(l, x) /\ Agrees(l, x)
    BY <2>4 DEF Good, Live, SameFinish, SameWork, Agrees
  <2> QED BY <1>1, <1>7, <2>2, <2>4, <2>7, <2>8, AcknowledgedStep DEF d, l
<1> QED BY <1>5, <1>6, <1>7 DEF PushChanges

\* Whatever comes of a push.
LEMMA PushStep ==
    ASSUME IInv, NEW e \in Ids, Push(e)
    PROVE  IInv'
<1>1. /\ e \in dirty /\ ~ conflict[e].open /\ UNCHANGED user
      /\ IF local[e].deleted THEN IF Live(shadow[e]) THEN PushDelete(e) ELSE Clean(e)
         ELSE IF ~Exists(shadow[e]) THEN PushCreate(e)
         ELSE IF shadow[e].deleted THEN Conflict(e, shadow[e], e)
         ELSE PushChanges(e)
  BY DEF Push
<1>2. CASE local[e].deleted /\ Live(shadow[e])
  BY <1>1, <1>2, PushDeleteStep
<1>3. CASE local[e].deleted /\ ~ Live(shadow[e])
  BY <1>1, <1>3, CleanStep DEF Live
<1>4. CASE ~ local[e].deleted /\ ~ Exists(shadow[e])
  BY <1>1, <1>4, PushCreateStep
<1>5. CASE ~ local[e].deleted /\ Exists(shadow[e]) /\ shadow[e].deleted
  BY <1>1, <1>5, PushConflictStep DEF user, IInv, TypeOK
<1>6. CASE ~ local[e].deleted /\ Exists(shadow[e]) /\ ~ shadow[e].deleted
  BY <1>1, <1>6, PushChangesStep DEF Live
<1> QED BY <1>2, <1>3, <1>4, <1>5, <1>6

\* The device takes the server's newer state.
LEMMA TakeStep ==
    ASSUME IInv, NEW e \in Ids, e \notin dirty, ~ conflict[e].open, Exists(server[e]),
           ~ Collides(e, server[e]),
           shadow' = [shadow EXCEPT ![e] = server[e]],
           local' = IF ~ Exists(local[e]) /\ server[e].deleted THEN local ELSE [local EXCEPT ![e] = server[e]],
           UNCHANGED <<server, dirty, conflict>>, UNCHANGED user
    PROVE  IInv'
<1> DEFINE x == server[e]
           same == ~ Exists(local[e]) /\ x.deleted
<1>1. /\ TypeOK /\ Records /\ Ahead /\ Known /\ Asked /\ Placed /\ Copied /\ Gone /\ WorkKept /\ Once
      /\ now \in Nat /\ UNCHANGED <<now, web, minted, work, renounced, faults>>
  BY LifecycleAssumption DEF IInv, Core, TypeOK, Instants, user
<1>2. /\ Good(x, now) /\ x \in Execution /\ x.version \in Nat /\ x.deleted \in BOOLEAN
      /\ Later(x, shadow[e])
  BY <1>1, GoodFacts DEF Records, Ahead
<1>3. /\ shadow'[e] = x /\ \A o \in Ids \ {e} : shadow'[o] = shadow[o] /\ local'[o] = local[o]
      /\ IF same THEN local'[e] = local[e] ELSE local'[e] = x
      /\ shadow' \in [Ids -> Execution] /\ local' \in [Ids -> Execution]
  BY <1>1, <1>2 DEF TypeOK
<1> HIDE DEF same
<1>4. same => local[e] = Absent
  BY <1>1, GoodFacts DEF Records, same
<1>5. Exists(local[e]) => ~ same /\ Exists(shadow[e]) /\ local[e].placed = x.placed /\ shadow[e].placed = x.placed
  BY <1>1, <1>2 DEF Known, Later, same
<1>6. conflict[e].remote = Absent
  BY <1>1, AbsentFacts DEF Asked
<1>7. TypeOK'
  BY <1>1, <1>3 DEF TypeOK
<1>8. Records'
  <2>1. Good(local'[e], now)
    BY <1>1, <1>2, <1>3 DEF Records
  <2> QED BY <1>1, <1>2, <1>3, <2>1 DEF Records
<1>9. Ahead'
  <2>1. Later(x, x)
    BY <1>2 DEF Later
  <2> QED BY <1>1, <1>3, <2>1 DEF Ahead
<1>10. Known'
  <2>1. \A o \in Ids : o > minted => o # e
    BY <1>1 DEF Known
  <2>2. \A o \in Ids : Exists(local'[o]) /\ Exists(server[o]) =>
           Exists(shadow'[o]) /\ local'[o].placed = shadow'[o].placed
    BY <1>1, <1>3, <1>4, AbsentFacts DEF Known
  <2>3. \A o \in Ids : o > minted =>
           ~ Exists(local'[o]) /\ ~ Exists(server[o]) /\ o \notin dirty /\ ~ conflict[o].open
    BY <1>1, <1>3, <2>1 DEF Known
  <2>4. \A o \in dirty : o \in Ids /\ o # e /\ Exists(local'[o])
    BY <1>1, <1>3 DEF Known, TypeOK
  <2> QED BY <1>1, <2>2, <2>3, <2>4 DEF Known
<1>11. Asked'
  <2>1. Exists(local[e]) => Exists(local'[e]) /\ local'[e].placed = local[e].placed
    BY <1>3, <1>5
  <2>2. \A o \in Ids : Exists(local[o]) => Exists(local'[o]) /\ local'[o].placed = local[o].placed
    BY <1>3, <2>1
  <2>3. \A o \in Ids : conflict[o].open => o # e /\ local'[o] = local[o]
    BY <1>3
  <2> QED BY <1>1, <2>2, <2>3 DEF Asked
<1>12. Placed'
  <2>1. ASSUME NEW o \in Ids, o # e, InPlay(o), local'[e].placed
        PROVE  FALSE
    <3>1. ~ same /\ x.placed
      BY <1>3, <1>4, <2>1, AbsentFacts
    <3>2. Exists(local[o]) /\ local[o].placed
      BY <1>1, <2>1, GoodFacts DEF InPlay, Records
    <3>3. ~ Exists(server[o])
      <4>1. CASE Exists(server[o])
        <5>1. server[o].placed
          BY <1>1, <3>2, <4>1 DEF Known, Ahead, Later
        <5> QED BY <1>1, <2>1, <3>1, <5>1 DEF Known
      <4> QED BY <4>1
    <3>4. Live(local[o])
      BY <2>1, <3>3 DEF InPlay
    <3>5. o \in Others(e)
      BY <2>1, <3>2, <3>4 DEF Others
    <3>6. x.deleted
      BY <3>1, <3>5 DEF Collides
    <3>7. Exists(local[e])
      BY <3>1, <3>6 DEF same
    <3>8. InPlay(e)
      BY <1>5, <3>1, <3>7 DEF InPlay
    <3> QED BY <1>1, <2>1, <3>8 DEF Placed
  <2>2. \A o \in Ids \ {e} : InPlay(o)' <=> InPlay(o)
    BY <1>3 DEF InPlay
  <2>3. \A o \in Ids \ {e} : ~ (InPlay(o)' /\ InPlay(e)')
    BY <2>1, <2>2 DEF InPlay
  <2>4. \A a, b \in Ids : InPlay(a)' /\ InPlay(b)' => a = b
    BY <1>1, <2>2, <2>3 DEF Placed
  <2>5. \A a, b \in Ids : local'[a].placed /\ ~ Exists(server[a]) /\ local'[b].placed /\ ~ Exists(server[b]) => a = b
    BY <1>1, <1>3 DEF Placed
  <2> QED BY <2>4, <2>5 DEF Placed
<1>13. Copied'
  <2>1. ~ Exists(Absent) /\ ~ Live(Absent)
    BY AbsentFacts
  <2>2. \A o \in Ids : Exists(local'[o]) => Begun(shadow'[o]) \subseteq Begun(local'[o])
    BY <1>1, <1>3, <1>4, <2>1 DEF Copied
  <2>3. \A o \in Ids : o \notin dirty /\ Live(local'[o]) => Exists(shadow'[o]) /\ Agrees(local'[o], shadow'[o])
    <3>1. Live(local'[e]) => Exists(x) /\ Agrees(local'[e], x)
      BY <1>3, <1>4, <2>1 DEF Agrees, Live
    <3> QED BY <1>1, <1>3, <3>1 DEF Copied
  <2>4. \A o \in Ids : o \notin dirty /\ ~ conflict[o].open /\ Live(shadow'[o]) => Live(local'[o])
    <3>1. Live(x) => Live(local'[e])
      BY <1>3 DEF Live, same
    <3> QED BY <1>1, <1>3, <3>1 DEF Copied
  <2> QED BY <1>1, <2>2, <2>3, <2>4 DEF Copied
<1>14. Gone'
  <2>1. local'[e].deleted => Begun(local'[e]) \cap work = {}
    <3>1. x.deleted => Begun(x) \cap work = {}
      BY <1>1 DEF Gone
    <3> QED BY <1>3, <1>4, <3>1, AbsentFacts
  <2> QED BY <1>1, <1>3, <2>1 DEF Gone
<1>15. WorkKept'
  <2>1. Worked(local[e]) \cap work \subseteq Worked(local'[e])
    <3> SUFFICES ASSUME Live(local[e]), NEW t \in Begun(local[e]), t \in work PROVE t \in Worked(local'[e])
      BY DEF Worked
    <3>1. Exists(shadow[e]) /\ Begun(local[e]) = Begun(shadow[e])
      BY <1>1 DEF Copied, Agrees
    <3>2. t \in Begun(x) /\ ~ x.deleted
      BY <1>1, <1>2, <3>1 DEF Later, Gone
    <3>3. local'[e] = x
      BY <1>3, <1>5 DEF Live
    <3> QED BY <3>2, <3>3 DEF Worked, Live
  <2> SUFFICES ASSUME NEW t \in work \ renounced PROVE \E o \in Ids : t \in Worked(local'[o])
    BY <1>1 DEF WorkKept
  <2>2. PICK o \in Ids : t \in Worked(local[o])
    BY <1>1 DEF WorkKept
  <2>3. t \in Worked(local'[o])
    BY <1>3, <2>1, <2>2
  <2> QED BY <2>3
<1>16. Once'
  <2> SUFFICES ASSUME NEW o \in Ids
               PROVE  \A y, z \in {local'[o], server[o], shadow'[o], conflict[o].remote} : SameFinish(y, z)
    BY DEF Once, States
  <2>1. \A y, z \in States(o) : SameFinish(y, z)
    BY <1>1 DEF Once
  <2>2. \A y : SameFinish(Absent, y) /\ SameFinish(y, Absent) /\ SameFinish(y, y)
    BY AbsentFacts DEF SameFinish, SameWork
  <2>3. CASE o # e
    BY <1>3, <2>1, <2>3 DEF States
  <2>4. CASE o = e
    <3>1. local'[e] = x \/ local'[e] = Absent
      BY <1>3, <1>4
    <3> QED BY <1>3, <1>6, <2>2, <2>4, <3>1
  <2> QED BY <2>3, <2>4
<1> QED BY <1>7, <1>8, <1>9, <1>10, <1>11, <1>12, <1>13, <1>14, <1>15, <1>16 DEF IInv, Core

\* Whatever comes of a pulled change.
LEMMA PullStep ==
    ASSUME IInv, NEW e \in Ids, Pull(e)
    PROVE  IInv'
<1> DEFINE x == server[e]
           a == CHOOSE o \in Others(e) : TRUE
<1>1. /\ x.version > shadow[e].version /\ UNCHANGED user
      /\ IF conflict[e].open
         THEN conflict' = [conflict EXCEPT ![e].remote = x] /\ UNCHANGED <<local, server, shadow, dirty>>
         ELSE IF e \in dirty THEN Conflict(e, x, e)
         ELSE IF Collides(e, x) THEN Conflict(e, x, a)
         ELSE /\ shadow' = [shadow EXCEPT ![e] = x]
              /\ local' = IF ~Exists(local[e]) /\ x.deleted THEN local ELSE [local EXCEPT ![e] = x]
              /\ UNCHANGED <<server, dirty, conflict>>
  BY DEF Pull
<1>2. /\ TypeOK /\ Records /\ Ahead /\ Known /\ Asked /\ Placed /\ Copied /\ Gone /\ WorkKept /\ Once
      /\ now \in Nat /\ faults \in 0 .. MaxFaults
  BY LifecycleAssumption DEF IInv, Core, TypeOK, Instants
<1>3. Good(x, now) /\ Good(shadow[e], now) /\ x.version \in Nat /\ shadow[e].version \in Nat
  BY <1>2, GoodFacts DEF Records
<1>4. Exists(x) /\ Later(x, x) /\ x \in {Absent} \cup States(e)
  <2>1. Exists(x)
    BY <1>1, <1>2, <1>3, GoodFacts, AbsentFacts
  <2> QED BY <1>3, <2>1 DEF Later, States
<1>5. CASE conflict[e].open
  <2> DEFINE b == conflict[e].about
  <2>1. /\ b \in Ids /\ Exists(local[b])
        /\ b # e => x.placed /\ local[b].placed /\ ~ Live(local[e])
    BY <1>2, <1>5 DEF Asked, Ahead, Later
  <2>2. conflict' = [conflict EXCEPT ![e] = [open |-> TRUE, remote |-> x, about |-> b]]
    <3>1. conflict[e] \in [open : BOOLEAN, remote : Execution, about : 0 .. MaxIds]
      BY <1>2 DEF TypeOK
    <3>2. [conflict[e] EXCEPT !.remote = x] = [open |-> TRUE, remote |-> x, about |-> b]
      <4>1. conflict[e].open = TRUE /\ x \in Execution
        BY <1>2, <1>5, <3>1 DEF TypeOK
      <4> DEFINE c == conflict[e]
      <4> HIDE DEF x, c
      <4>2. c \in [open : BOOLEAN, remote : Execution, about : 0 .. MaxIds] /\ x \in Execution
        BY <3>1, <4>1 DEF c
      <4>3. [c EXCEPT !.remote = x] = [open |-> c.open, remote |-> x, about |-> c.about]
        BY <4>2
      <4> QED BY <4>1, <4>3 DEF c
    <3> QED BY <1>1, <1>5, <3>2
  <2> QED BY <1>1, <1>2, <1>4, <1>5, <2>1, <2>2, ConflictStep DEF user
<1>6. CASE ~ conflict[e].open /\ e \in dirty
  BY <1>1, <1>2, <1>6, PushConflictStep DEF user
<1>7. CASE ~ conflict[e].open /\ e \notin dirty /\ Collides(e, x)
  <2>1. a \in Ids /\ a # e /\ Live(local[a]) /\ local[a].placed /\ x.placed
    <3>1. a \in Others(e) /\ x.placed
      BY <1>7 DEF Collides
    <3> QED BY <3>1 DEF Others
  <2> HIDE DEF a
  <2>2. ~ Live(local[e])
    <3>1. CASE Live(local[e])
      <4>1. local[e].placed
        BY <1>2, <1>4, <2>1, <3>1 DEF Live, Known, Ahead, Later
      <4>2. InPlay(e) /\ InPlay(a)
        BY <2>1, <3>1, <4>1 DEF InPlay
      <4> QED BY <1>2, <2>1, <4>2 DEF Placed
    <3> QED BY <3>1
  <2>3. /\ conflict' = [conflict EXCEPT ![e] = [open |-> TRUE, remote |-> x, about |-> a]]
        /\ UNCHANGED <<local, server, shadow, dirty>>
    BY <1>1, <1>7 DEF Conflict
  <2> QED BY <1>1, <1>2, <1>4, <2>1, <2>2, <2>3, ConflictStep DEF user, Live
<1>8. CASE ~ conflict[e].open /\ e \notin dirty /\ ~ Collides(e, x)
  BY <1>1, <1>4, <1>8, TakeStep
<1> QED BY <1>5, <1>6, <1>7, <1>8

-----------------------------------------------------------------------------
(* The user resolves a conflict.                                            *)

\* The device's side is kept, on the server's state that is known now.
LEMMA KeepLocalStep ==
    ASSUME IInv, NEW e \in Ids, KeepLocal(e)
    PROVE  IInv'
<1> DEFINE r == conflict[e].remote
           s == IF Exists(r) THEN r ELSE shadow[e]
<1>1. /\ TypeOK /\ Records /\ Ahead /\ Known /\ Asked /\ Placed /\ Copied /\ Gone /\ WorkKept /\ Once
      /\ now \in Nat
  BY LifecycleAssumption DEF IInv, Core, TypeOK, Instants
<1>2. /\ conflict[e].open /\ ~ r.deleted /\ ~ Colliding(e)
      /\ Exists(r) => ~ Diverged(r, local[e])
      /\ shadow' = IF Exists(r) THEN [shadow EXCEPT ![e] = r] ELSE shadow
      /\ dirty' = dirty \cup {e}
      /\ conflict' = [conflict EXCEPT ![e] = NoConflict]
      /\ UNCHANGED <<now, web, minted, work, renounced, faults, local, server>>
  BY DEF KeepLocal, Decided, user
<1>3. Exists(local[e])
  BY <1>1, <1>2 DEF Asked, Colliding
<1>4. /\ Good(r, now) /\ Good(shadow[e], now) /\ Good(local[e], now)
      /\ Later(server[e], r) /\ Later(server[e], shadow[e])
  BY <1>1 DEF Records, Ahead
<1>5. /\ Good(s, now) /\ Later(server[e], s) /\ s \in Execution
      /\ Exists(server[e]) => Exists(s) /\ local[e].placed = s.placed
      /\ Exists(s) => Exists(shadow[e])
  BY <1>1, <1>3, <1>4, GoodFacts DEF Known, Later
<1>6. Begun(s) \subseteq Begun(local[e])
  <2>1. CASE Exists(r)
    <3>1. r.sessions \in Seq(Session) /\ local[e].sessions \in Seq(Session)
      BY <1>1, <1>4, GoodFacts DEF Execution
    <3>2. /\ DOMAIN r.sessions = 1 .. Len(r.sessions) /\ DOMAIN local[e].sessions = 1 .. Len(local[e].sessions)
          /\ Len(r.sessions) \in Nat /\ Len(local[e].sessions) \in Nat
      BY <3>1, SessionFacts
    <3>3. \A i \in DOMAIN r.sessions : i \in DOMAIN local[e].sessions /\ r.sessions[i].from = local[e].sessions[i].from
      BY <1>2, <2>1, <3>2 DEF Diverged
    <3> QED BY <2>1, <3>3 DEF Begun
  <2>2. CASE ~ Exists(r)
    BY <1>1, <1>3, <2>2 DEF Copied
  <2> QED BY <2>1, <2>2
<1> DEFINE none == NoConflict
<1>7. /\ none \in [open : BOOLEAN, remote : Execution, about : 0 .. MaxIds]
      /\ none.open = FALSE /\ none.remote = Absent /\ none = NoConflict
  BY AbsentSound, LifecycleAssumption DEF NoConflict, Sound
<1> HIDE DEF none
<1>8. /\ shadow'[e] = s /\ conflict'[e] = none
      /\ \A o \in Ids \ {e} : shadow'[o] = shadow[o] /\ conflict'[o] = conflict[o]
      /\ shadow' \in [Ids -> Execution]
      /\ conflict' \in [Ids -> [open : BOOLEAN, remote : Execution, about : 0 .. MaxIds]]
  BY <1>1, <1>2, <1>5, <1>7 DEF TypeOK
<1> HIDE DEF r, s
<1>9. TypeOK'
  BY <1>1, <1>2, <1>8 DEF TypeOK
<1>10. Records'
  <2>1. Good(Absent, now)
    BY <1>1, AbsentSound DEF Good
  <2> QED BY <1>1, <1>2, <1>5, <1>7, <1>8, <2>1 DEF Records
<1>11. Ahead'
  <2>1. Later(server[e], Absent)
    BY AbsentFacts DEF Later
  <2> QED BY <1>1, <1>2, <1>5, <1>7, <1>8, <2>1 DEF Ahead
<1>12. Known'
  <2>1. \A o \in Ids : o > minted =>
           ~ Exists(local[o]) /\ ~ Exists(server[o]) /\ o \notin dirty' /\ ~ conflict'[o].open
    BY <1>1, <1>2, <1>8 DEF Known
  <2>2. \A o \in dirty' : Exists(local[o])
    BY <1>1, <1>2, <1>3 DEF Known
  <2>3. \A o \in Ids : Exists(local[o]) /\ Exists(server[o]) =>
           Exists(shadow'[o]) /\ local[o].placed = shadow'[o].placed
    BY <1>1, <1>5, <1>8 DEF Known
  <2> QED BY <1>1, <1>2, <2>1, <2>2, <2>3 DEF Known
<1>13. Asked'
  BY <1>1, <1>2, <1>7, <1>8 DEF Asked
<1>14. Placed'
  BY <1>1, <1>2 DEF Placed, InPlay
<1>15. Copied'
  BY <1>1, <1>2, <1>6, <1>8 DEF Copied
<1>16. Gone'
  BY <1>1, <1>2, <1>5, <1>8 DEF Gone
<1>17. WorkKept'
  BY <1>1, <1>2 DEF WorkKept
<1>18. Once'
  <2> SUFFICES ASSUME NEW o \in Ids
               PROVE  \A y, z \in {local[o], server[o], shadow'[o], conflict'[o].remote} : SameFinish(y, z)
    BY <1>2 DEF Once, States
  <2>1. \A y, z \in States(o) : SameFinish(y, z)
    BY <1>1 DEF Once
  <2>2. \A y : SameFinish(Absent, y) /\ SameFinish(y, Absent) /\ SameFinish(y, y)
    BY AbsentFacts DEF SameFinish, SameWork
  <2>3. CASE o # e
    BY <1>8, <2>1, <2>3 DEF States
  <2>4. CASE o = e
    <3>1. s \in States(e)
      BY DEF s, r, States
    <3> QED BY <1>7, <1>8, <2>1, <2>2, <2>4, <3>1 DEF States
  <2> QED BY <2>3, <2>4
<1> QED BY <1>9, <1>10, <1>11, <1>12, <1>13, <1>14, <1>15, <1>16, <1>17, <1>18 DEF IInv, Core

\* In the records L of the device, one attempt at most holds the placement, of those that count.
OnePlaced(L) ==
    /\ \A e, o \in Ids : L[e].placed /\ ~ Exists(server[e]) /\ L[o].placed /\ ~ Exists(server[o]) => e = o
    /\ \A e, o \in Ids : L[e].placed /\ (Live(L[e]) \/ Exists(server[e]))
                         /\ L[o].placed /\ (Live(L[o]) \/ Exists(server[o])) => e = o

\* The work that counts is in the records L of the device, or in y.
InWork(L, y) == \A t \in work \ renounced' : t \in Worked(y) \/ \E o \in Ids : t \in Worked(L[o])

\* A conflict about the record e is decided: the device has the records L, s for the server's state of
\* e, nothing to send of the attempt a the conflict was with, and, perhaps, a new attempt y.
Decides(L, s, e, a, y, keep) ==
    LET n == minted + 1 IN
    /\ minted' = (IF keep THEN n ELSE minted)
    /\ local' = (IF keep THEN [L EXCEPT ![n] = y] ELSE L)
    /\ dirty' = (dirty \ {a}) \cup (IF keep THEN {n} ELSE {})
    /\ shadow' = [shadow EXCEPT ![e] = s]
    /\ conflict' = [conflict EXCEPT ![e] = NoConflict]
    /\ keep => minted < MaxIds
    /\ UNCHANGED <<now, web, server, work, faults>>

\* The attempt a the conflict was with is known to nobody else, and is discarded, or it is e.
Away(L, e, a) ==
    a # e => /\ ~ Exists(server[a]) /\ ~ Exists(shadow[a]) /\ ~ Live(L[a]) /\ Exists(L[a])
             /\ L[a].final = local[a].final /\ Begun(L[a]) = Begun(local[a])
             /\ Len(L[a].sessions) = Len(local[a].sessions)
             /\ L[a].placed = local[a].placed

\* A decision that leaves the device with records of which all this holds keeps the invariant.
LEMMA DecidedStep ==
    ASSUME IInv, NEW e \in Ids, NEW a \in Ids, conflict[e].open, a = conflict[e].about,
           NEW L \in [Ids -> Execution], \A o \in Ids \ {e, a} : L[o] = local[o],
           Good(L[e], now), Good(L[a], now), Away(L, e, a),
           Exists(local[e]) => Exists(L[e]) /\ L[e].placed = local[e].placed,
           NEW s, Good(s, now), Later(server[e], s),
           Exists(L[e]) /\ Exists(server[e]) => Exists(s) /\ L[e].placed = s.placed,
           Exists(L[e]) => Begun(s) \subseteq Begun(L[e]),
           Live(L[e]) => Exists(s) /\ Agrees(L[e], s),
           Live(s) => Live(L[e]),
           L[e].deleted /\ Exists(s) => Begun(L[e]) \cap work = {},
           \A x, z \in {L[e], server[e], s} : SameFinish(x, z),
           OnePlaced(L),
           NEW y, NEW keep \in BOOLEAN, keep => Good(y, now) /\ Live(y) /\ ~ y.placed,
           InWork(L, IF keep THEN y ELSE Absent), renounced' \subseteq work,
           Decides(L, s, e, a, y, keep)
    PROVE  IInv'
<1> DEFINE n == minted + 1
<1>1. /\ TypeOK /\ Records /\ Ahead /\ Known /\ Asked /\ Placed /\ Copied /\ Gone /\ WorkKept /\ Once
      /\ now \in Nat /\ minted \in Nat /\ MaxIds \in Nat
  BY LifecycleAssumption DEF IInv, Core, TypeOK, Instants
<1>2. /\ minted' = (IF keep THEN n ELSE minted)
      /\ local' = (IF keep THEN [L EXCEPT ![n] = y] ELSE L)
      /\ dirty' = (dirty \ {a}) \cup (IF keep THEN {n} ELSE {})
      /\ shadow' = [shadow EXCEPT ![e] = s]
      /\ conflict' = [conflict EXCEPT ![e] = NoConflict]
      /\ keep => minted < MaxIds
      /\ UNCHANGED <<now, web, server, work, faults>>
  BY DEF Decides
<1>3. n > minted /\ (keep => n \in Ids /\ n \in 0 .. MaxIds)
  BY <1>1, <1>2 DEF Ids
<1> HIDE DEF n
<1>4. Exists(local[a]) /\ e # n /\ a # n
  BY <1>1, <1>3 DEF Known, Asked
<1>5. keep => /\ local[n] = Absent /\ server[n] = Absent /\ shadow[n] = Absent
              /\ conflict[n] = NoConflict /\ L[n] = Absent /\ n \notin dirty
  <2> SUFFICES ASSUME keep
               PROVE  /\ local[n] = Absent /\ server[n] = Absent /\ shadow[n] = Absent
                      /\ conflict[n] = NoConflict /\ L[n] = Absent /\ n \notin dirty
    OBVIOUS
  <2>1. n \in Ids /\ ~ Exists(local[n]) /\ ~ Exists(server[n]) /\ n \notin dirty /\ ~ conflict[n].open
    BY <1>1, <1>3 DEF Known
  <2>2. local[n] = Absent /\ server[n] = Absent /\ conflict[n] = NoConflict /\ L[n] = local[n]
    BY <1>1, <1>4, <2>1, GoodFacts DEF Records, Asked
  <2>3. ~ Exists(shadow[n])
    BY <1>1, <2>1 DEF Ahead, Later
  <2> QED BY <1>1, <2>1, <2>2, <2>3, GoodFacts DEF Records
<1>6. keep => y \in Execution /\ Exists(y)
  BY <1>1, GoodFacts DEF Live
<1>7. /\ \A o \in Ids : ~ (keep /\ o = n) => local'[o] = L[o]
      /\ keep => local'[n] = y
      /\ local' \in [Ids -> Execution]
  BY <1>2, <1>3, <1>6
<1> DEFINE none == NoConflict
<1>8. /\ none \in [open : BOOLEAN, remote : Execution, about : 0 .. MaxIds]
      /\ none.open = FALSE /\ none.remote = Absent /\ none = NoConflict
  BY <1>1, AbsentSound DEF NoConflict, Sound
<1> HIDE DEF none
<1>9. s \in Execution
  BY <1>1, GoodFacts
<1>10. /\ shadow'[e] = s /\ conflict'[e] = none
       /\ \A o \in Ids \ {e} : shadow'[o] = shadow[o] /\ conflict'[o] = conflict[o]
       /\ shadow' \in [Ids -> Execution]
       /\ conflict' \in [Ids -> [open : BOOLEAN, remote : Execution, about : 0 .. MaxIds]]
  BY <1>1, <1>2, <1>8, <1>9 DEF TypeOK
<1>11. \A o \in Ids : Exists(local[o]) => Exists(L[o]) /\ L[o].placed = local[o].placed
  BY DEF Away
<1>12. \A o \in Ids : keep /\ o = n => ~ Exists(local[o])
  BY <1>5, AbsentFacts
<1>13. \A o \in Ids : Exists(local[o]) => Exists(local'[o]) /\ local'[o].placed = local[o].placed
  BY <1>7, <1>11, <1>12
<1>14. TypeOK'
  <2>1. minted' \in 0 .. MaxIds
    BY <1>1, <1>2, <1>3 DEF TypeOK
  <2>2. dirty' \subseteq Ids
    BY <1>1, <1>2, <1>3 DEF TypeOK
  <2> QED BY <1>1, <1>2, <1>7, <1>10, <2>1, <2>2 DEF TypeOK
<1>15. Records'
  <2>1. Good(Absent, now)
    BY <1>1, AbsentSound DEF Good
  <2>2. \A o \in Ids : Good(local'[o], now)
    BY <1>1, <1>7 DEF Records
  <2>3. \A o \in Ids : Good(shadow'[o], now) /\ Good(conflict'[o].remote, now)
    BY <1>1, <1>8, <1>10, <2>1 DEF Records
  <2> QED BY <1>1, <1>2, <2>2, <2>3 DEF Records
<1>16. Ahead'
  <2>1. Later(server[e], Absent)
    BY AbsentFacts DEF Later
  <2> QED BY <1>1, <1>2, <1>8, <1>10, <2>1 DEF Ahead
<1>17. Known'
  <2>1. \A o \in Ids : o > minted' => o > minted /\ ~ (keep /\ o = n)
    BY <1>1, <1>2, <1>3 DEF Ids, n
  <2>2. \A o \in Ids : o > minted => o # e /\ o # a
    BY <1>1, <1>4 DEF Known
  <2>3. \A o \in Ids : o > minted' =>
           ~ Exists(local'[o]) /\ ~ Exists(server[o]) /\ o \notin dirty' /\ ~ conflict'[o].open
    BY <1>1, <1>2, <1>7, <1>10, <2>1, <2>2 DEF Known
  <2>4. \A o \in dirty' : Exists(local'[o])
    BY <1>1, <1>2, <1>3, <1>6, <1>7, <1>13 DEF Known, TypeOK
  <2>5. \A o \in Ids : Exists(local'[o]) /\ Exists(server[o]) =>
           Exists(shadow'[o]) /\ local'[o].placed = shadow'[o].placed
    <3> SUFFICES ASSUME NEW o \in Ids, Exists(local'[o]), Exists(server[o])
                 PROVE  Exists(shadow'[o]) /\ local'[o].placed = shadow'[o].placed
      OBVIOUS
    <3>1. ~ (keep /\ o = n)
      BY <1>5, AbsentFacts
    <3>2. local'[o] = L[o] /\ (o = a => a = e)
      BY <1>7, <3>1 DEF Away
    <3>3. CASE o = e
      BY <1>10, <3>2, <3>3
    <3>4. CASE o # e
      BY <1>1, <1>10, <3>2, <3>4 DEF Known
    <3> QED BY <3>3, <3>4
  <2> QED BY <1>1, <1>2, <2>3, <2>4, <2>5 DEF Known
<1>18. Asked'
  <2> SUFFICES ASSUME NEW o \in Ids
               PROVE  /\ ~ conflict'[o].open => conflict'[o] = NoConflict
                      /\ conflict'[o].open =>
                            /\ conflict'[o].about \in Ids /\ Exists(local'[conflict'[o].about])
                            /\ conflict'[o].about # o =>
                                  /\ Exists(conflict'[o].remote) /\ conflict'[o].remote.placed
                                  /\ local'[conflict'[o].about].placed /\ ~ Live(local'[o])
    BY DEF Asked
  <2>1. CASE o = e
    BY <1>8, <1>10, <2>1
  <2>2. CASE o # e
    <3>1. conflict'[o] = conflict[o]
      BY <1>10, <2>2
    <3>2. conflict[o].open => ~ (keep /\ o = n)
      BY <1>1, <1>5, AbsentFacts
    <3>3. conflict[o].open /\ ~ Live(local[o]) => ~ Live(local'[o])
      BY <1>7, <2>2, <3>2 DEF Away
    <3> QED BY <1>1, <1>13, <3>1, <3>3 DEF Asked
  <2> QED BY <2>1, <2>2
<1>19. Placed'
  <2>1. \A o \in Ids : ~ (keep /\ o = n) => local'[o] = L[o]
    BY <1>7
  <2>2. keep => ~ local'[n].placed
    BY <1>7
  <2>3. \A o \in Ids : local'[o].placed => local'[o] = L[o]
    BY <2>1, <2>2
  <2> QED BY <1>2, <2>3 DEF Placed, InPlay, OnePlaced
<1>20. Copied'
  <2>1. \A o \in Ids : Exists(local'[o]) => Begun(shadow'[o]) \subseteq Begun(local'[o])
    <3> SUFFICES ASSUME NEW o \in Ids, Exists(local'[o]) PROVE Begun(shadow'[o]) \subseteq Begun(local'[o])
      OBVIOUS
    <3>1. CASE keep /\ o = n
      BY <1>4, <1>5, <1>10, <3>1, AbsentFacts
    <3>2. CASE ~ (keep /\ o = n) /\ o = e
      BY <1>7, <1>10, <3>2
    <3>3. CASE ~ (keep /\ o = n) /\ o # e /\ o # a
      BY <1>1, <1>7, <1>10, <3>3 DEF Copied
    <3>4. CASE ~ (keep /\ o = n) /\ o # e /\ o = a
      <4>1. shadow[a] = Absent
        BY <1>1, <3>4, GoodFacts DEF Records, Away
      <4> QED BY <1>10, <3>4, <4>1, AbsentFacts
    <3> QED BY <3>1, <3>2, <3>3, <3>4
  <2>2. \A o \in Ids : o \notin dirty' /\ Live(local'[o]) => Exists(shadow'[o]) /\ Agrees(local'[o], shadow'[o])
    <3> SUFFICES ASSUME NEW o \in Ids, o \notin dirty', Live(local'[o])
                 PROVE  Exists(shadow'[o]) /\ Agrees(local'[o], shadow'[o])
      OBVIOUS
    <3>1. ~ (keep /\ o = n) /\ local'[o] = L[o] /\ (o # a => o \notin dirty)
      BY <1>2, <1>7
    <3>2. CASE o = e
      BY <1>10, <3>1, <3>2
    <3>3. CASE o # e
      BY <1>1, <1>10, <3>1, <3>3 DEF Copied, Away
    <3> QED BY <3>2, <3>3
  <2>3. \A o \in Ids : o \notin dirty' /\ ~ conflict'[o].open /\ Live(shadow'[o]) => Live(local'[o])
    <3> SUFFICES ASSUME NEW o \in Ids, o \notin dirty', ~ conflict'[o].open, Live(shadow'[o])
                 PROVE  Live(local'[o])
      OBVIOUS
    <3>1. ~ (keep /\ o = n) /\ local'[o] = L[o] /\ (o # a => o \notin dirty)
      BY <1>2, <1>7
    <3>2. CASE o = e
      BY <1>10, <3>1, <3>2
    <3>3. CASE o # e
      BY <1>1, <1>10, <3>1, <3>3 DEF Copied, Away, Live
    <3> QED BY <3>2, <3>3
  <2> QED BY <2>1, <2>2, <2>3 DEF Copied
<1>21. Gone'
  <2>1. \A o \in Ids : local'[o].deleted /\ Exists(shadow'[o]) => Begun(local'[o]) \cap work = {}
    <3> SUFFICES ASSUME NEW o \in Ids, local'[o].deleted, Exists(shadow'[o])
                 PROVE  Begun(local'[o]) \cap work = {}
      OBVIOUS
    <3>1. ~ (keep /\ o = n)
      BY <1>7 DEF Live
    <3>2. CASE o = e
      BY <1>7, <1>10, <3>1, <3>2
    <3>3. CASE o # e
      <4>1. local'[o] = L[o] /\ shadow'[o] = shadow[o]
        BY <1>7, <1>10, <3>1, <3>3
      <4>2. Begun(L[o]) = Begun(local[o]) /\ (o = a => ~ Exists(shadow[o]))
        BY <3>3 DEF Away
      <4> QED BY <1>1, <4>1, <4>2, <3>3 DEF Gone
    <3> QED BY <3>2, <3>3
  <2> QED BY <1>1, <1>2, <2>1 DEF Gone
<1>22. WorkKept'
  <2> SUFFICES ASSUME NEW t \in work \ renounced' PROVE \E o \in Ids : t \in Worked(local'[o])
    BY <1>2 DEF WorkKept
  <2>1. Worked(Absent) = {}
    BY AbsentFacts DEF Worked
  <2>2. CASE keep /\ t \in Worked(y)
    BY <1>3, <1>7, <2>2
  <2>3. CASE \E o \in Ids : t \in Worked(L[o])
    <3>1. PICK o \in Ids : t \in Worked(L[o])
      BY <2>3
    <3>2. ~ (keep /\ o = n)
      BY <1>5, <2>1, <3>1
    <3> QED BY <1>7, <3>1, <3>2
  <2> QED BY <2>1, <2>2, <2>3 DEF InWork
<1>23. Once'
  <2> SUFFICES ASSUME NEW o \in Ids
               PROVE  \A x, z \in {local'[o], server[o], shadow'[o], conflict'[o].remote} : SameFinish(x, z)
    BY <1>2 DEF Once, States
  <2>1. \A x, z \in States(o) : SameFinish(x, z)
    BY <1>1 DEF Once
  <2>2. \A x : SameFinish(Absent, x) /\ SameFinish(x, Absent) /\ SameFinish(x, x)
    BY AbsentFacts DEF SameFinish, SameWork
  <2>3. CASE keep /\ o = n
    <3>1. local'[o] = y /\ server[o] = Absent /\ shadow'[o] = Absent /\ conflict'[o].remote = Absent
      BY <1>4, <1>5, <1>7, <1>10, <2>3, AbsentFacts
    <3> QED BY <2>2, <3>1
  <2>4. CASE ~ (keep /\ o = n) /\ o = e
    BY <1>7, <1>8, <1>10, <2>2, <2>4
  <2>5. CASE ~ (keep /\ o = n) /\ o # e
    <3>1. /\ local'[o].final = local[o].final /\ Begun(local'[o]) = Begun(local[o])
          /\ Len(local'[o].sessions) = Len(local[o].sessions)
      BY <1>7, <2>5 DEF Away
    <3>2. \A z : /\ SameFinish(local[o], z) => SameFinish(local'[o], z)
                 /\ SameFinish(z, local[o]) => SameFinish(z, local'[o])
      BY <3>1 DEF SameFinish, SameWork
    <3>3. shadow'[o] = shadow[o] /\ conflict'[o] = conflict[o]
      BY <1>10, <2>5
    <3> QED BY <2>1, <2>2, <3>2, <3>3 DEF States
  <2> QED BY <2>3, <2>4, <2>5
<1> QED BY <1>14, <1>15, <1>16, <1>17, <1>18, <1>19, <1>20, <1>21, <1>22, <1>23 DEF IInv, Core

\* What accepting the server's side keeps of the attempt the conflict was with.
LEMMA HistoryFacts ==
    ASSUME IInv, NEW e \in Ids, conflict[e].open, Exists(conflict[e].remote)
    PROVE  LET r == conflict[e].remote
               a == conflict[e].about
               y == KeptHistory(local[a], r)
           IN  /\ a \in Ids /\ Exists(local[a]) /\ KeepsHistory(e) \in BOOLEAN
               /\ KeepsHistory(e) => /\ Good(y, now) /\ Live(y) /\ ~ y.placed
                                     /\ Begun(y) = Begun(local[a]) \ Begun(r)
               /\ ~ KeepsHistory(e) /\ Live(local[a]) => Begun(local[a]) \subseteq Begun(r)
<1> DEFINE r == conflict[e].remote
           a == conflict[e].about
           m == local[a]
           y == KeptHistory(m, r)
<1>1. a \in Ids /\ Exists(m) /\ now \in 0 .. MaxTime
  BY DEF IInv, Core, Asked, TypeOK, Instants
<1>2. Sound(m) /\ ByTime(m, now)
  BY <1>1, InvFacts DEF Good
<1>3. KeepsHistory(e) <=> Live(m) /\ Extra(m, r) # <<>>
  BY DEF KeepsHistory
<1>4. KeepsHistory(e) \in BOOLEAN
  BY DEF KeepsHistory
<1> HIDE DEF r, a, m
<1>5. Live(m) => /\ Begun(m) \ Begun(r) # {} <=> Extra(m, r) # <<>>
                 /\ Extra(m, r) # <<>> =>
                       /\ Sound(y) /\ Live(y) /\ ByTime(y, now) /\ ~ y.placed
                       /\ Begun(y) = Begun(m) \ Begun(r)
  BY <1>1, <1>2, KeptSound
<1> HIDE DEF y
<1>6. KeepsHistory(e) => Good(y, now) /\ Live(y) /\ ~ y.placed /\ Begun(y) = Begun(m) \ Begun(r)
  BY <1>3, <1>5 DEF Good
<1>7. ~ KeepsHistory(e) /\ Live(m) => Begun(m) \subseteq Begun(r)
  BY <1>3, <1>5
<1> QED BY <1>1, <1>4, <1>6, <1>7 DEF r, a, m, y

\* Accepting the server's state keeps the work of both sides.
LEMMA AcceptedWork ==
    ASSUME IInv, NEW e \in Ids, conflict[e].open, Exists(conflict[e].remote),
           NEW L, NEW a, a = conflict[e].about, \A o \in Ids \ {e, a} : L[o] = local[o],
           ~ conflict[e].remote.deleted => L[e] = conflict[e].remote,
           a # e => ~ Live(local[e]), renounced' = renounced
    PROVE  InWork(L, IF KeepsHistory(e) THEN KeptHistory(local[a], conflict[e].remote) ELSE Absent)
<1> DEFINE r == conflict[e].remote
           y == KeptHistory(local[a], r)
<1> SUFFICES ASSUME NEW t \in work \ renounced
             PROVE  t \in Worked(IF KeepsHistory(e) THEN y ELSE Absent) \/ \E o \in Ids : t \in Worked(L[o])
  BY DEF InWork
<1>1. PICK o \in Ids : t \in Worked(local[o])
  BY DEF IInv, Core, WorkKept
<1>2. CASE o # e /\ o # a
  BY <1>1, <1>2
<1>3. CASE o = e \/ o = a
  <2>1. o = a /\ Live(local[a]) /\ t \in Begun(local[a])
    BY <1>1, <1>3 DEF Worked
  <2>2. CASE t \in Begun(r)
    <3>1. ~ r.deleted
      <4>1. r.deleted => server[e] = r
        BY DEF IInv, Core, Ahead, Later
      <4> QED BY <2>2, <4>1 DEF IInv, Core, Gone
    <3>2. t \in Worked(L[e])
      BY <2>2, <3>1 DEF Worked, Live
    <3> QED BY <3>2
  <2>3. CASE t \notin Begun(r)
    <3>1. KeepsHistory(e)
      BY <2>1, <2>3, HistoryFacts
    <3>2. Live(y) /\ Begun(y) = Begun(local[a]) \ Begun(r)
      BY <3>1, HistoryFacts
    <3> HIDE DEF y
    <3> QED BY <2>1, <2>3, <3>1, <3>2 DEF Worked
  <2> QED BY <2>2, <2>3
<1> QED BY <1>2, <1>3

\* The server's state of the attempt itself is accepted.
LEMMA AcceptTheirsStep ==
    ASSUME IInv, NEW e \in Ids, AcceptRemote(e), Exists(conflict[e].remote), conflict[e].about = e
    PROVE  IInv'
<1> DEFINE r == conflict[e].remote
           l == local[e]
           L == [local EXCEPT ![e] = r]
           keep == KeepsHistory(e)
           y == KeptHistory(l, r)
<1>1. /\ TypeOK /\ Records /\ Ahead /\ Known /\ Asked /\ Placed /\ Copied /\ Gone /\ WorkKept /\ Once
      /\ now \in Nat /\ conflict[e].open
  BY LifecycleAssumption DEF IInv, Core, TypeOK, Instants, AcceptRemote
<1>2. /\ keep \in BOOLEAN /\ Exists(l)
      /\ keep => Good(y, now) /\ Live(y) /\ ~ y.placed
  BY <1>1, HistoryFacts
<1>3. Decides(L, r, e, e, y, keep) /\ renounced' = renounced
  BY <1>2 DEF AcceptRemote, Decides, Decided, Colliding
<1> HIDE DEF y, keep
<1>4. /\ Good(r, now) /\ r \in Execution /\ r.deleted \in BOOLEAN /\ Later(server[e], r)
      /\ Exists(server[e]) /\ r.placed = l.placed
  BY <1>1, <1>2, GoodFacts DEF Records, Ahead, Later, Known
<1>5. /\ L \in [Ids -> Execution] /\ L[e] = r /\ \A o \in Ids \ {e} : L[o] = local[o]
  BY <1>1, <1>4 DEF TypeOK
<1>6. InWork(L, IF keep THEN y ELSE Absent)
  <2> HIDE DEF L
  <2> QED BY <1>1, <1>3, <1>5, AcceptedWork DEF keep, y
<1> HIDE DEF L
<1>7. OnePlaced(L)
  <2>1. \A o \in Ids : L[o].placed => local[o].placed
    BY <1>4, <1>5
  <2>2. \A o \in Ids : L[o].placed /\ (Live(L[o]) \/ Exists(server[o])) => InPlay(o)
    BY <1>4, <1>5 DEF InPlay
  <2> QED BY <1>1, <2>1, <2>2 DEF Placed, OnePlaced
<1>8. r.deleted => Begun(r) \cap work = {}
  BY <1>1, <1>4 DEF Later, Gone
<1>9. \A x, z \in {L[e], server[e], r} : SameFinish(x, z)
  BY <1>1, <1>5 DEF Once, States
<1>10. Agrees(r, r) <=> ~ r.deleted
  BY DEF Agrees
<1>11. Away(L, e, e) /\ renounced' \subseteq work
  BY <1>1, <1>3 DEF Away, TypeOK
<1> HIDE DEF r, l
<1> QED BY <1>1, <1>2, <1>3, <1>4, <1>5, <1>6, <1>7, <1>8, <1>9, <1>10, <1>11, DecidedStep, ZenonT(60) DEF Live, r, l

\* The server's attempt is accepted in the place of another one of the device, which is discarded.
LEMMA AcceptOtherStep ==
    ASSUME IInv, NEW e \in Ids, AcceptRemote(e), Exists(conflict[e].remote), conflict[e].about # e
    PROVE  IInv'
<1> DEFINE r == conflict[e].remote
           a == conflict[e].about
           m == local[a]
           w == IF Live(m) THEN Discarded(m) ELSE m
           gone == [local EXCEPT ![a] = w]
           L == IF ~ Exists(local[e]) /\ r.deleted THEN gone ELSE [gone EXCEPT ![e] = r]
           keep == KeepsHistory(e)
           y == KeptHistory(m, r)
<1>1. /\ TypeOK /\ Records /\ Ahead /\ Known /\ Asked /\ Placed /\ Copied /\ Gone /\ WorkKept /\ Once
      /\ now \in Nat /\ conflict[e].open
  BY LifecycleAssumption DEF IInv, Core, TypeOK, Instants, AcceptRemote
<1>2. /\ keep \in BOOLEAN /\ Exists(m) /\ a \in Ids
      /\ keep => Good(y, now) /\ Live(y) /\ ~ y.placed
  BY <1>1, HistoryFacts
<1>3. r.placed /\ m.placed /\ ~ Live(local[e])
  BY <1>1, SMTT(60) DEF Asked
<1>4. Decides(L, r, e, a, y, keep) /\ renounced' = renounced
  <2>1. gone = [local EXCEPT ![a] = IF Live(@) THEN Discarded(@) ELSE @] /\ gone[e] = local[e]
    BY <1>1, <1>2 DEF TypeOK
  <2> HIDE DEF gone, keep, y
  <2> QED BY <1>2, <2>1 DEF AcceptRemote, Decides, Decided, Colliding, keep, y
<1> HIDE DEF y, keep
<1>5. /\ Good(r, now) /\ r \in Execution /\ r.deleted \in BOOLEAN /\ r.version \in Nat /\ Later(server[e], r)
      /\ Exists(server[e]) /\ server[e].placed
      /\ Exists(local[e]) => r.placed = local[e].placed
  <2>1. /\ Good(r, now) /\ r \in Execution /\ r.deleted \in BOOLEAN /\ r.version \in Nat /\ Later(server[e], r)
    BY <1>1, GoodFacts DEF Records, Ahead
  <2>2. Exists(server[e]) /\ server[e].placed = r.placed
    BY <2>1 DEF Later
  <2>3. Exists(local[e]) => local[e].placed = shadow[e].placed /\ shadow[e].placed = server[e].placed
    BY <1>1, <2>2 DEF Ahead, Later, Known
  <2> QED BY <1>3, <2>1, <2>2, <2>3
<1>6. Good(m, now) /\ m \in Execution /\ m.version # 0
  BY <1>1, <1>2, GoodFacts DEF Records
<1>7. /\ Good(w, now) /\ w \in Execution /\ ~ Live(w) /\ Exists(w)
      /\ w.final = m.final /\ Begun(w) = Begun(m) /\ w.placed = m.placed
      /\ Len(w.sessions) = Len(m.sessions)
  <2>1. CASE Live(m)
    <3> DEFINE x == [m EXCEPT !.deleted = TRUE]
    <3> HIDE DEF m
    <3>1. /\ x \in Execution /\ x.version = m.version /\ x.status = m.status /\ x.sessions = m.sessions
          /\ x.final = m.final /\ x.placed = m.placed /\ x.deleted
      BY <1>6 DEF Execution
    <3> HIDE DEF x
    <3>2. Good(x, now) /\ Exists(x) /\ Begun(x) = Begun(m)
      BY <1>2, <1>6, <3>1, SoundLike DEF Good
    <3>3. w = x
      BY <2>1 DEF Discarded, x
    <3> QED BY <3>1, <3>2, <3>3 DEF Live
  <2>2. CASE ~ Live(m)
    BY <1>2, <1>6, <2>2
  <2> QED BY <2>1, <2>2
<1> HIDE DEF w
<1>8. /\ L \in [Ids -> Execution] /\ \A o \in Ids \ {e, a} : L[o] = local[o]
      /\ L[a] = w
      /\ IF ~ Exists(local[e]) /\ r.deleted THEN L[e] = local[e] ELSE L[e] = r
  BY <1>1, <1>2, <1>5, <1>7 DEF TypeOK
<1>9. ~ Exists(local[e]) => local[e] = Absent
  BY <1>1, GoodFacts DEF Records
<1>10. InWork(L, IF keep THEN y ELSE Absent)
  <2> HIDE DEF L
  <2>1. ~ r.deleted => L[e] = r
    BY <1>8
  <2> QED BY <1>1, <1>3, <1>4, <1>8, <2>1, AcceptedWork DEF keep, y
<1> HIDE DEF L
<1>11. ~ Exists(server[a]) /\ ~ Exists(shadow[a])
  <2>1. CASE Exists(server[a])
    <3>1. server[a].placed
      BY <1>1, <1>2, <1>3, <2>1 DEF Known, Ahead, Later
    <3> QED BY <1>1, <1>2, <1>5, <3>1 DEF Known
  <2>2. CASE ~ Exists(server[a])
    BY <1>1, <1>2, <2>2 DEF Ahead, Later
  <2> QED BY <2>1, <2>2
<1>12. OnePlaced(L)
  <2>1. \A o \in Ids \ {e} : L[o].placed => local[o].placed
    BY <1>7, <1>8
  <2>2. \A o, b \in Ids : L[o].placed /\ ~ Exists(server[o]) /\ L[b].placed /\ ~ Exists(server[b]) => o = b
    BY <1>1, <1>5, <2>1 DEF Placed
  <2>3. \A o \in Ids \ {e} : L[o].placed /\ (Live(L[o]) \/ Exists(server[o])) => InPlay(o) /\ o # a
    BY <1>7, <1>8, <1>11 DEF InPlay
  <2>4. \A o \in Ids \ {e} : ~ (L[o].placed /\ (Live(L[o]) \/ Exists(server[o])) /\ L[e].placed)
    <3> SUFFICES ASSUME NEW o \in Ids \ {e}, InPlay(o), o # a, L[e].placed
                 PROVE  FALSE
      BY <2>3
    <3>1. local[o].placed /\ Exists(local[o])
      BY <1>1, GoodFacts DEF InPlay, Records
    <3>2. ~ Exists(server[o])
      <4>1. CASE Exists(server[o])
        <5>1. server[o].placed
          BY <1>1, <3>1, <4>1 DEF Known, Ahead, Later
        <5> QED BY <1>1, <1>5, <5>1 DEF Known
      <4> QED BY <4>1
    <3> QED BY <1>1, <1>2, <1>3, <1>11, <3>1, <3>2 DEF Placed
  <2> QED BY <1>1, <2>2, <2>3, <2>4 DEF Placed, OnePlaced
<1>13. r.deleted => Begun(r) \cap work = {}
  BY <1>1, <1>5 DEF Later, Gone
<1>14. \A x, z \in {L[e], server[e], r} : SameFinish(x, z)
  <2>1. L[e] = local[e] \/ L[e] = r
    BY <1>8
  <2> QED BY <1>1, <2>1 DEF Once, States
<1>15. Agrees(r, r) <=> ~ r.deleted
  BY DEF Agrees
<1>16. Away(L, e, a) /\ renounced' \subseteq work
  BY <1>1, <1>4, <1>7, <1>8, <1>11 DEF Away, TypeOK
<1>17. /\ Good(L[e], now) /\ Good(L[a], now)
       /\ Exists(local[e]) => Exists(L[e]) /\ L[e].placed = local[e].placed
       /\ Exists(L[e]) => L[e] = r
       /\ Live(L[e]) => Exists(r) /\ Agrees(L[e], r)
       /\ Live(r) => Live(L[e])
       /\ L[e].deleted /\ Exists(r) => Begun(L[e]) \cap work = {}
  BY <1>1, <1>5, <1>7, <1>8, <1>9, <1>13, <1>15, AbsentFacts, SMTT(30) DEF Live, Records
<1> HIDE DEF r, a, m
<1> QED BY <1>1, <1>2, <1>4, <1>5, <1>8, <1>10, <1>12, <1>14, <1>16, <1>17, DecidedStep DEF r, a, m

\* A refusal without a server state is accepted: back to what is known of the server, or nothing.
LEMMA AcceptNothingStep ==
    ASSUME IInv, NEW e \in Ids, AcceptRemote(e), ~ Exists(conflict[e].remote)
    PROVE  IInv'
<1> DEFINE l == local[e]
           s == shadow[e]
           z == IF Exists(s) THEN s ELSE IF Live(l) THEN Discarded(l) ELSE l
           L == [local EXCEPT ![e] = z]
<1>1. /\ TypeOK /\ Records /\ Ahead /\ Known /\ Asked /\ Placed /\ Copied /\ Gone /\ WorkKept /\ Once
      /\ now \in Nat /\ conflict[e].open /\ conflict[e].about = e /\ Exists(l)
  BY LifecycleAssumption DEF IInv, Core, TypeOK, Instants, AcceptRemote, Asked
<1>2. /\ Good(s, now) /\ Good(l, now) /\ s \in Execution /\ l \in Execution /\ l.version # 0
      /\ Later(server[e], s) /\ s.deleted \in BOOLEAN /\ s.version \in Nat
  BY <1>1, GoodFacts DEF Records, Ahead
<1>3. ~ KeepsHistory(e)
  BY DEF KeepsHistory
<1>4. /\ Decides(L, s, e, e, Absent, FALSE)
      /\ renounced' = renounced \cup ((Worked(l) \ Worked(local'[e])) \cap work)
      /\ local' = L
  <2>1. local' = L
    <3>1. local = [local EXCEPT ![e] = local[e]]
      BY <1>1 DEF TypeOK
    <3> QED BY <1>1, <1>3, <3>1 DEF AcceptRemote, Colliding
  <2>2. shadow = [shadow EXCEPT ![e] = shadow[e]]
    BY <1>1 DEF TypeOK
  <2> HIDE DEF L
  <2> QED BY <1>1, <1>3, <2>1, <2>2 DEF AcceptRemote, Decides, Decided
<1>5. /\ Good(z, now) /\ z \in Execution /\ Exists(z) /\ z.placed = l.placed
      /\ Exists(s) => z = s
      /\ ~ Exists(s) => /\ ~ Live(z) /\ z.final = l.final /\ Begun(z) = Begun(l)
                        /\ Len(z.sessions) = Len(l.sessions) /\ ~ Exists(server[e])
  <2>1. CASE Exists(s)
    BY <1>1, <1>2, <2>1 DEF Known, Later
  <2>2. CASE ~ Exists(s) /\ Live(l)
    <3> DEFINE x == [l EXCEPT !.deleted = TRUE]
    <3>0. ~ Exists(server[e])
      BY <1>1, <2>2 DEF Known
    <3>4. z = x
      BY <2>2 DEF Discarded
    <3> HIDE DEF l, z
    <3>1. /\ x \in Execution /\ x.version = l.version /\ x.status = l.status /\ x.sessions = l.sessions
          /\ x.final = l.final /\ x.placed = l.placed /\ x.deleted
      BY <1>2 DEF Execution
    <3> HIDE DEF x
    <3>2. Good(x, now) /\ Exists(x) /\ Begun(x) = Begun(l)
      BY <1>1, <1>2, <3>1, SoundLike DEF Good
    <3> QED BY <2>2, <3>0, <3>1, <3>2, <3>4 DEF Live
  <2>3. CASE ~ Exists(s) /\ ~ Live(l)
    BY <1>1, <1>2, <2>3 DEF Known
  <2> QED BY <2>1, <2>2, <2>3
<1> HIDE DEF z
<1>6. L \in [Ids -> Execution] /\ L[e] = z /\ \A o \in Ids \ {e} : L[o] = local[o]
  BY <1>1, <1>5 DEF TypeOK
<1> HIDE DEF L
<1>7. InWork(L, Absent)
  <2> SUFFICES ASSUME NEW t \in work \ renounced' PROVE \E o \in Ids : t \in Worked(L[o])
    BY DEF InWork
  <2>1. PICK o \in Ids : t \in Worked(local[o])
    BY <1>1, <1>4 DEF WorkKept
  <2>2. CASE o = e
    BY <1>4, <2>1, <2>2
  <2>3. CASE o # e
    BY <1>6, <2>1, <2>3
  <2> QED BY <2>2, <2>3
<1>8. OnePlaced(L)
  <2>1. \A o \in Ids : L[o].placed => local[o].placed
    BY <1>5, <1>6
  <2>2. \A o \in Ids : L[o].placed /\ (Live(L[o]) \/ Exists(server[o])) => InPlay(o)
    BY <1>2, <1>5, <1>6 DEF InPlay, Later
  <2> QED BY <1>1, <2>1, <2>2 DEF Placed, OnePlaced
<1>9. s.deleted => Begun(s) \cap work = {}
  <2>1. s.deleted => Exists(s)
    BY <1>1, <1>2, GoodFacts
  <2> QED BY <1>1, <1>2, <2>1 DEF Later, Gone
<1>10. \A x, y \in {L[e], server[e], s} : SameFinish(x, y)
  <2>1. \A x, y \in States(e) : SameFinish(x, y)
    BY <1>1 DEF Once
  <2>2. CASE Exists(s)
    BY <1>5, <1>6, <2>1, <2>2 DEF States
  <2>3. CASE ~ Exists(s)
    BY <1>5, <1>6, <2>1, <2>3 DEF States, SameFinish, SameWork
  <2> QED BY <2>2, <2>3
<1>11. /\ Away(L, e, e) /\ renounced' \subseteq work
       /\ ~ Exists(s) => s = Absent
  BY <1>1, <1>2, <1>4, GoodFacts DEF Away, TypeOK
<1>12. /\ Exists(L[e]) /\ Exists(server[e]) => Exists(s) /\ L[e].placed = s.placed
       /\ Begun(s) \subseteq Begun(L[e])
       /\ Live(L[e]) => Exists(s) /\ Agrees(L[e], s)
       /\ Live(s) => Live(L[e])
       /\ L[e].deleted /\ Exists(s) => Begun(L[e]) \cap work = {}
  BY <1>5, <1>6, <1>9, <1>11, AbsentFacts DEF Live, Agrees
<1> HIDE DEF l, s
<1> QED BY <1>1, <1>2, <1>4, <1>5, <1>6, <1>7, <1>8, <1>10, <1>11, <1>12, DecidedStep DEF l, s

\* The server's side is accepted.
LEMMA AcceptRemoteStep ==
    ASSUME IInv, NEW e \in Ids, AcceptRemote(e)
    PROVE  IInv'
BY AcceptTheirsStep, AcceptOtherStep, AcceptNothingStep

-----------------------------------------------------------------------------
(* The theorems.                                                            *)

\* Initially there is nothing.
LEMMA InitInv == Init => IInv
<1> SUFFICES ASSUME Init PROVE IInv
  OBVIOUS
<1>1. /\ now = 0 /\ minted = 0 /\ dirty = {} /\ work = {} /\ renounced = {}
      /\ \A e \in Ids : local[e] = Absent /\ server[e] = Absent /\ shadow[e] = Absent
                        /\ conflict[e] = NoConflict
  BY DEF Init
<1>2. Absent \in Execution /\ Good(Absent, 0)
  BY AbsentSound DEF Good, Sound
<1>3. NoConflict \in [open : BOOLEAN, remote : Execution, about : 0 .. MaxIds]
  BY <1>2, LifecycleAssumption DEF NoConflict
<1>4. TypeOK
  BY <1>2, <1>3, LifecycleAssumption DEF Init, TypeOK, Instants
<1>5. Records /\ Ahead /\ Known
  BY <1>1, <1>2, AbsentFacts DEF Records, Ahead, Later, Known
<1>6. Asked /\ Placed /\ Copied
  BY <1>1, AbsentFacts DEF Asked, Placed, InPlay, Copied
<1>7. Gone /\ WorkKept /\ Once
  BY <1>1, AbsentFacts DEF Gone, WorkKept, Once, States, SameFinish, SameWork
<1> QED BY <1>4, <1>5, <1>6, <1>7 DEF IInv, Core

\* Every step keeps the invariant.
LEMMA NextInv == IInv /\ [Next]_vars => IInv'
<1> SUFFICES ASSUME IInv, [Next]_vars PROVE IInv'
  OBVIOUS
<1>1. CASE Create
  BY <1>1, CreateStep
<1>2. CASE WebCreate
  BY <1>2, WebCreateStep
<1>3. ASSUME NEW e \in Ids, NEW act \in UserActions, Act(e, act)
      PROVE  IInv'
  BY <1>3, ActStep
<1>4. ASSUME NEW e \in Ids, NEW act \in UserActions, WebActs(e, <<act>>)
      PROVE  IInv'
  <2>1. <<act>> \in Seq(Kinds)
    BY LifecycleAssumption DEF Kinds
  <2> QED BY <1>4, <2>1, WebActsStep
<1>5. ASSUME NEW e \in Ids, NEW outcome \in Outcomes, SetOutcome(e, outcome)
      PROVE  IInv'
  BY <1>5, SetOutcomeStep
<1>6. ASSUME NEW e \in Ids, NEW outcome \in Outcomes, WebActs(e, OutcomeActions(server[e].status, outcome))
      PROVE  IInv'
  <2>1. OutcomeActions(server[e].status, outcome) \in Seq(Kinds)
    BY OutcomeActs
  <2> QED BY <1>6, <2>1, WebActsStep
<1>7. ASSUME NEW e \in Ids, Rate(e) \/ WebRate(e) \/ Delete(e) \/ WebDelete(e)
      PROVE  IInv'
  BY <1>7, RateStep, WebRateStep, DeleteStep, WebDeleteStep
<1>8. ASSUME NEW e \in Ids, Push(e) \/ Refuse(e) \/ Pull(e)
      PROVE  IInv'
  BY <1>8, PushStep, RefuseStep, PullStep
<1>9. ASSUME NEW e \in Ids, KeepLocal(e) \/ AcceptRemote(e)
      PROVE  IInv'
  BY <1>9, KeepLocalStep, AcceptRemoteStep
<1>10. CASE UNCHANGED vars
  <2>1. UNCHANGED <<now, web, minted, local, server, shadow, dirty, conflict, work, renounced, faults>>
    BY <1>10 DEF vars
  <2>2. TypeOK'
    BY <2>1 DEF IInv, TypeOK
  <2>3. Records' /\ Ahead' /\ Known'
    BY <2>1 DEF IInv, Core, Records, Ahead, Known
  <2>4. Asked' /\ Placed' /\ Copied'
    BY <2>1 DEF IInv, Core, Asked, Placed, InPlay, Copied
  <2>5. Gone' /\ WorkKept' /\ Once'
    BY <2>1 DEF IInv, Core, Gone, WorkKept, Once, States
  <2> QED BY <2>2, <2>3, <2>4, <2>5 DEF IInv, Core
<1> QED BY <1>1, <1>2, <1>3, <1>4, <1>5, <1>6, <1>7, <1>8, <1>9, <1>10 DEF Next

\* The inductive invariant: what the device knows of the server was so, every record tells what its
\* sessions tell, one attempt holds the placement, and no work that counts is anywhere but in sight.
THEOREM LifecycleInvariant == Spec => []IInv
<1>1. Init => IInv
  BY InitInv
<1>2. IInv /\ [Next]_vars => IInv'
  BY NextInv
<1> QED BY <1>1, <1>2, PTL DEF Spec

\* Every variable has its type: the sessions of every record on either side are sequences of instants,
\* and every conflict is about an attempt that has been given out.
THEOREM TypeCorrect == Spec => []TypeOK
<1>1. IInv => TypeOK
  BY DEF IInv
<1> QED BY <1>1, LifecycleInvariant, PTL

\* ExecutionService and the server's handlers keep a status with its sessions, and so do a push, a kept
\* history and a resolved conflict.
THEOREM StatusAlwaysFits == Spec => []StatusFitsSessions
<1>1. IInv => StatusFitsSessions
  <2> SUFFICES ASSUME IInv, NEW e \in Ids PROVE Fits(local[e]) /\ Fits(server[e])
    BY DEF StatusFitsSessions
  <2>1. Sound(local[e]) /\ Sound(server[e])
    BY InvFacts DEF Good
  <2> QED BY <2>1, SoundFits
<1> QED BY <1>1, LifecycleInvariant, PTL

\* No push, pull or decision of the user loses a session begun on the device, except by a deletion or
\* by giving an attempt up to a refusal that named no server state.
THEOREM NoWorkLost == Spec => []WorkKept
<1>1. IInv => WorkKept
  BY DEF IInv, Core
<1> QED BY <1>1, LifecycleInvariant, PTL

\* A device with nothing to send of an attempt, and the server's last version of it, shows the server's
\* status and the sessions the server has, or no attempt where the server's is deleted.
THEOREM SettledCopiesAgree == Spec => []SettledAgrees
<1>1. IInv => SettledAgrees
  <2> SUFFICES ASSUME IInv, NEW e \in Ids, e \notin dirty, ~ conflict[e].open, Exists(shadow[e]),
                      shadow[e].version = server[e].version
               PROVE  IF server[e].deleted THEN ~ Live(local[e])
                      ELSE local[e].status = server[e].status /\ Begun(local[e]) = Begun(server[e])
    BY DEF SettledAgrees
  <2>1. server[e] = shadow[e]
    BY DEF IInv, Core, Ahead, Later
  <2>2. /\ Live(local[e]) => Agrees(local[e], shadow[e])
        /\ Live(shadow[e]) => Live(local[e])
    BY DEF IInv, Core, Copied
  <2> QED BY <2>1, <2>2 DEF Agrees, Live
<1> QED BY <1>1, LifecycleInvariant, PTL

\* Sending execution_changes with nothing in the way, on the version they were computed from, leaves the
\* server with exactly what the device shows: the same status, the same sessions with their ends, the same
\* finishing time, and the rating if the device has one. The server takes every operation of the group.
THEOREM PushesReproduce == Spec => []PushReproduces
<1>1. IInv => PushReproduces
  <2> SUFFICES ASSUME IInv, NEW e \in dirty, Live(local[e]), Live(shadow[e]),
                      shadow[e].version = server[e].version,
                      ~ Diverged(shadow[e], local[e]), Compatible(shadow[e], local[e])
               PROVE  LET x == AppliedAll(server[e], Group(e)) IN
                      /\ x.status = local[e].status /\ x.sessions = local[e].sessions
                      /\ x.final = local[e].final
                      /\ local[e].rating # Unset => x.rating = local[e].rating
    BY DEF PushReproduces
  <2> DEFINE d == shadow[e]
             l == local[e]
  <2>1. e \in Ids /\ now \in 0 .. MaxTime
    BY LifecycleAssumption DEF IInv, Core, TypeOK, Instants
  <2>2. server[e] = d
    BY <2>1 DEF IInv, Core, Ahead, Later, Live
  <2>3. Pair(d, l)
    BY <2>1, InvFacts DEF Good, Pair
  <2>4. AsLong(d, l)
    BY <2>1, InvFacts DEF States, SameFinish, SameWork, AsLong
  <2>5. AppliedAll(server[e], Group(e)) = Replay(d, Changes(d, l))
    BY <2>2 DEF Group, Replay
  <2> HIDE DEF d, l
  <2>6. LET x == Replay(d, Changes(d, l)) IN
        /\ x.status = l.status /\ x.sessions = l.sessions /\ x.final = l.final
        /\ l.rating # Unset => x.rating = l.rating
    <3>1. Compatible(d, l)
      BY DEF d, l
    <3> QED BY <2>1, <2>3, <2>4, <3>1, PushExact
  <2> QED BY <2>5, <2>6 DEF d, l
<1> QED BY <1>1, LifecycleInvariant, PTL

=============================================================================
