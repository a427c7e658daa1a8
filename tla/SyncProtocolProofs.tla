------------------------- MODULE SyncProtocolProofs -------------------------
(***************************************************************************)
(* What holds of SyncProtocol for every number of devices and records and  *)
(* every bound.                                                            *)
(***************************************************************************)
EXTENDS SyncProtocol, FiniteSetTheorems, TLAPS

\* A fetched page has its change: the feed only grows.
PageIsThere == \A d \in Devices : phase[d] = "page" => cursor[d] < Len(log)

TypeInv == TypeOK /\ PageIsThere

\* The number of records is a number, so the positions handed out are.
LEMMA RecordCount == Cardinality(Records) \in Nat
  BY RecordsAssumption, FS_CardinalityType

\* A state read as a local copy is a local copy.
LEMMA CopyType == ASSUME NEW s \in State PROVE CopyOf(s) \in Copy
  BY DEF CopyOf, State, Copy

LEMMA StateType ==
  ASSUME NEW s \in State, NEW v \in Content
  PROVE  /\ [ver |-> s.ver + 1, dead |-> FALSE, val |-> v] \in State
         /\ [ver |-> s.ver + 1, dead |-> TRUE, val |-> s.val] \in State
  BY DEF State

LEMMA InitTypeInv == Init => TypeInv
  BY LimitAssumption DEF Init, TypeInv, TypeOK, PageIsThere, Absent, NoCopy, State, Copy, Content, Phases, Entry

LEMMA UserTypeInv == ASSUME TypeInv, UserStep PROVE TypeInv'
  <1> USE LimitAssumption DEF TypeInv, TypeOK, PageIsThere, Content
  <1>1. ASSUME NEW d \in Devices, NEW r \in Records, NEW v \in Values, Create(d, r, v) PROVE TypeInv'
    BY <1>1, SMTT(60) DEF Create, Write, WriteLocal, Bump, Copy, serverVars, storeVars, runVars
  <1>2. ASSUME NEW d \in Devices, NEW r \in Records, NEW v \in Values, Edit(d, r, v) PROVE TypeInv'
    BY <1>2 DEF Edit, Write, WriteLocal, Bump, Copy, serverVars, storeVars, runVars
  <1>3. ASSUME NEW d \in Devices, NEW r \in Records, Delete(d, r) PROVE TypeInv'
    <2>1. [st |-> "dead", val |-> local[d][r].val] \in Copy
      BY DEF Copy
    <2> QED
      BY <1>3, <2>1, SMTT(30) DEF Delete, Write, WriteLocal, Bump, serverVars, storeVars, runVars
  <1>4. ASSUME NEW d \in Devices, ResetHistory(d) PROVE TypeInv'
    BY <1>4 DEF ResetHistory, Write, Bump, Copy, NoCopy, serverVars, storeVars, runVars
  <1>5. ASSUME NEW r \in Records, NEW s \in State, WebWrite(r, s), born' \subseteq Records PROVE TypeInv'
    BY <1>5 DEF WebWrite, Commit, Write, Entry, recordVars, storeVars, runVars
  <1>6. ASSUME NEW r \in Records, NEW v \in Values, WebCreate(r, v) PROVE TypeInv'
    <2>1. [ver |-> 1, dead |-> FALSE, val |-> v] \in State
      BY DEF State
    <2> QED
      BY <1>5, <1>6, <2>1 DEF WebCreate
  <1>7. ASSUME NEW r \in Records, NEW v \in Values, WebUpdate(r, v) PROVE TypeInv'
    <2>1. [ver |-> server[r].ver + 1, dead |-> FALSE, val |-> v] \in State
      BY StateType
    <2> QED
      BY <1>5, <1>7, <2>1 DEF WebUpdate
  <1>8. ASSUME NEW r \in Records, WebDelete(r) PROVE TypeInv'
    <2>1. [ver |-> server[r].ver + 1, dead |-> TRUE, val |-> server[r].val] \in State
      BY StateType
    <2> QED
      BY <1>5, <1>8, <2>1 DEF WebDelete
  <1> QED
    BY <1>1, <1>2, <1>3, <1>4, <1>6, <1>7, <1>8 DEF UserStep

\* The run of a device.
LEMMA RunTypeInv == ASSUME TypeInv, NEW d \in Devices, SyncStep(d) PROVE TypeInv'
  <1> USE LimitAssumption DEF TypeInv, TypeOK, PageIsThere
  <1>1. CASE Begin(d)
    BY <1>1 DEF Begin, Phases, serverVars, storeVars, recordVars
  <1>2. CASE PushRound(d)
    <2> DEFINE ops == outbox[d] \cup NewOps(d)
    <2>1. NewOps(d) \subseteq Op
      <3>1. ASSUME NEW r \in Records PROVE NewOp(d, r) \in Op
        <4>1. SeqOf(d, r) \in Nat
          BY RecordsAssumption, RecordCount, SMTT(60) DEF SeqOf
        <4>2. local[d][r].val \in Content
          BY DEF Copy
        <4>3. shadow[d][r].ver \in Nat
          BY DEF State
        <4> QED
          BY <4>1, <4>2, <4>3 DEF NewOp, Op, OpId, Kinds, IsLive
      <3> QED
        BY <3>1 DEF NewOps, ToCreate, ToUpdate, ToDelete
    <2>2. ops \subseteq Op /\ Oldest(ops) \subseteq Op
      BY <2>1 DEF Oldest
    <2>3. {[rec |-> r, remote |-> shadow[d][r]] : r \in ToDispute(d)} \subseteq Conflict
      BY DEF ToDispute, Conflict
    <2>4. outbox' \in [Devices -> SUBSET Op] /\ requests' \subseteq Op /\ inflight' \in [Devices -> SUBSET Op]
      <3>1. outbox' = [outbox EXCEPT ![d] = ops]
        BY <1>2 DEF PushRound
      <3>2. CASE Oldest(ops) = {}
        <4>1. UNCHANGED <<inflight, requests>>
          BY <1>2, <3>2 DEF PushRound
        <4> QED
          BY <2>2, <3>1, <4>1
      <3>3. CASE Oldest(ops) # {}
        <4>1. inflight' = [inflight EXCEPT ![d] = Oldest(ops)] /\ requests' = requests \cup Oldest(ops)
          BY <1>2, <3>3 DEF PushRound
        <4> QED
          BY <2>2, <3>1, <4>1
      <3> QED
        BY <3>2, <3>3
    <2>5. opSeq' \in [Devices -> Nat]
      BY <1>2, RecordCount DEF PushRound
    <2>6. dirty' \in [Devices -> [Records -> Nat]]
      BY <1>2 DEF PushRound
    <2>7. conflicts' \in [Devices -> SUBSET Conflict]
      BY <1>2, <2>3 DEF PushRound
    <2>8. /\ phase' \in [Devices -> Phases]
          /\ rounds' \in [Devices -> 0 .. MaxPushRounds]
          /\ \A e \in Devices : phase'[e] = "page" => phase[e] = "page"
      <3>1. CASE Oldest(ops) = {}
        <4>1. phase' = [phase EXCEPT ![d] = "history"] /\ rounds' = [rounds EXCEPT ![d] = 0]
          BY <1>2, <3>1 DEF PushRound
        <4> QED
          BY <4>1 DEF Phases
      <3>2. CASE Oldest(ops) # {}
        <4>1. phase' = [phase EXCEPT ![d] = "sent"] /\ rounds' = [rounds EXCEPT ![d] = @ + 1]
          BY <1>2, <3>2 DEF PushRound
        <4>2. rounds[d] + 1 \in 0 .. MaxPushRounds
          BY <1>2 DEF PushRound, AnotherRound
        <4> QED
          BY <4>1, <4>2 DEF Phases
      <3> QED
        BY <3>1, <3>2
    <2> QED
      BY <1>2, <2>4, <2>5, <2>6, <2>7, <2>8 DEF PushRound, serverVars
  <1>3. CASE StopPushing(d)
    BY <1>3, SMTT(60) DEF StopPushing, Phases, serverVars, storeVars, recordVars
  <1>4. CASE Acknowledge(d)
    <2> DEFINE applied == {o \in inflight[d] : answers[o.id].status = "applied"}
               AppliedTo(r) == {o \in applied : o.rec = r}
               failed == inflight[d] \ applied
    <2>1. \A o \in inflight[d] : o \in Op /\ o.id \in DOMAIN answers /\ answers[o.id].current \in State
      BY <1>4 DEF Acknowledge, Recorded, Result
    <2>2. \A r \in Records : AppliedTo(r) # {} => (CHOOSE o \in AppliedTo(r) : TRUE) \in inflight[d]
      BY SMTT(60)
    <2>3. shadow' \in [Devices -> [Records -> State]]
      BY <1>4, <2>1, <2>2, SMTT(60) DEF Acknowledge
    <2>4. outbox' \in [Devices -> SUBSET Op]
      BY <1>4, SMTT(60) DEF Acknowledge
    <2>5. dirty' \in [Devices -> [Records -> Nat]]
      BY <1>4 DEF Acknowledge, MarkAfter
    <2>6. {[rec |-> o.rec, remote |-> answers[o.id].current] : o \in failed} \subseteq Conflict
      BY <2>1, SMTT(60) DEF Conflict, Op
    <2>7. conflicts' \in [Devices -> SUBSET Conflict]
      BY <1>4, <2>6 DEF Acknowledge
    <2>8. /\ phase' \in [Devices -> Phases]
          /\ inflight' \in [Devices -> SUBSET Op]
          /\ \A e \in Devices : phase'[e] = "page" => phase[e] = "page"
      BY <1>4 DEF Acknowledge, Phases
    <2> QED
      BY <1>4, <2>3, <2>4, <2>5, <2>7, <2>8 DEF Acknowledge, serverVars
  <1>5. CASE StartPull(d)
    <2>1. CASE UNCHANGED <<cursor, replayed>>
      BY <1>5, <2>1 DEF StartPull, Phases, serverVars, recordVars
    <2>2. CASE cursor' = [cursor EXCEPT ![d] = 0] /\ replayed' = [replayed EXCEPT ![d] = TRUE]
      BY <1>5, <2>2 DEF StartPull, Phases, serverVars, recordVars
    <2> QED
      BY <1>5, <2>1, <2>2 DEF StartPull
  <1>6. CASE FetchPage(d)
    BY <1>6 DEF FetchPage, Phases, serverVars, storeVars, recordVars
  <1>7. CASE TimeOut(d)
    BY <1>7 DEF TimeOut, EndRun, Phases, serverVars, storeVars, recordVars
  <1>8. CASE ApplyPage(d)
    <2>1. ASSUME AdvanceCursor(d)
          PROVE  /\ Change(d).rec \in Records /\ Change(d).state \in State
                 /\ CopyOf(Change(d).state) \in Copy
                 /\ cursor' \in [Devices -> Nat]
                 /\ phase' \in [Devices -> Phases]
                 /\ more' \in [Devices -> BOOLEAN]
                 /\ PageIsThere'
      <3>1. phase[d] = "page" /\ cursor[d] + 1 \in 1 .. Len(log)
        BY <2>1 DEF AdvanceCursor
      <3>2. Change(d) \in Entry
        BY <3>1 DEF Change
      <3>3. Change(d).state \in State
        BY <3>2 DEF Entry
      <3> QED
        BY <2>1, <3>2, <3>3, CopyType DEF AdvanceCursor, NextCursor, Entry, Phases, serverVars
    <2>2. CASE SkipKnown(d)
      BY <2>1, <2>2 DEF SkipKnown, AdvanceCursor, serverVars, recordVars
    <2>3. CASE UpdateConflict(d)
      BY <2>1, <2>3, SMTT(60) DEF UpdateConflict, AdvanceCursor, Conflict, serverVars, recordVars
    <2>4. CASE Converge(d)
      BY <2>1, <2>4 DEF Converge, AdvanceCursor, PutShadow, ForgetOps, serverVars
    <2>5. CASE RaiseConflict(d)
      <3>1. AdvanceCursor(d)
        BY <2>5 DEF RaiseConflict
      <3>2. [rec |-> Change(d).rec, remote |-> Change(d).state] \in Conflict
        BY <2>1, <3>1 DEF Conflict
      <3>3. conflicts' \in [Devices -> SUBSET Conflict] /\ outbox' \in [Devices -> SUBSET Op]
        BY <2>5, <3>2 DEF RaiseConflict, ForgetOps
      <3> QED
        BY <2>1, <2>5, <3>1, <3>3 DEF RaiseConflict, AdvanceCursor, serverVars, recordVars
    <2>6. CASE NoteTombstone(d)
      BY <2>1, <2>6 DEF NoteTombstone, AdvanceCursor, PutShadow, serverVars, recordVars
    <2>7. CASE Adopt(d)
      BY <2>1, <2>7 DEF Adopt, AdvanceCursor, PutShadow, serverVars
    <2> QED
      BY <1>8, <2>2, <2>3, <2>4, <2>5, <2>6, <2>7 DEF ApplyPage
  <1> QED
    BY <1>1, <1>2, <1>3, <1>4, <1>5, <1>6, <1>7, <1>8 DEF SyncStep

LEMMA ResolveTypeInv == ASSUME TypeInv, NEW d \in Devices, Resolve(d) PROVE TypeInv'
  <1> USE DEF TypeInv, TypeOK, PageIsThere
  <1>1. PICK c \in conflicts[d] : KeepLocal(d, c) \/ AcceptRemote(d, c)
    BY DEF Resolve
  <1>2. c.rec \in Records /\ c.remote \in State
    BY DEF Conflict
  <1>3. CASE KeepLocal(d, c)
    BY <1>2, <1>3, SMTT(60) DEF KeepLocal, ForgetOps, Bump, serverVars, runVars
  <1>4. CASE AcceptRemote(d, c)
    <2>1. shadow[d][c.rec] \in State /\ local[d][c.rec] \in Copy
      BY <1>2
    <2>2. [st |-> "dead", val |-> local[d][c.rec].val] \in Copy
      BY <2>1 DEF Copy
    <2>3. Accepted(local[d][c.rec], c.remote, shadow[d][c.rec]) \in Copy
      BY <1>2, <2>1, <2>2, CopyType DEF Accepted
    <2> QED
      BY <1>2, <1>4, <2>3, SMTT(60) DEF AcceptRemote, ForgetOps, serverVars, runVars
  <1> QED
    BY <1>1, <1>3, <1>4

\* The server records an outcome of the operation's own record.
LEMMA RecordType ==
  ASSUME TypeInv, NEW o \in Op, NEW status \in {"applied", "conflict", "rejected"}, NEW s \in State,
         Record(o, status, s)
  PROVE  DOMAIN answers' \subseteq OpId /\ \A i \in DOMAIN answers' : answers'[i] \in Result
  <1>1. [status |-> status, rec |-> o.rec, kind |-> o.kind, val |-> o.val, current |-> s] \in Result
    BY DEF Result, Op
  <1> QED
    BY <1>1 DEF Record, TypeInv, TypeOK, Op

LEMMA ServerTypeInv == ASSUME TypeInv, ServerStep PROVE TypeInv'
  <1> USE LimitAssumption DEF TypeInv, TypeOK, PageIsThere
  <1>1. PICK o \in requests :
          AnswerAgain(o) \/ ApplyOp(o) \/ AcceptUnchanged(o) \/ ConflictOp(o) \/ RejectOp(o)
    BY DEF ServerStep
  <1>2. o \in Op /\ o.rec \in Records /\ server[o.rec] \in State
    BY DEF Op
  <1>3. CASE AnswerAgain(o)
    BY <1>3 DEF AnswerAgain, Receive, serverVars, recordVars, storeVars, runVars
  <1>4. CASE ApplyOp(o)
    <2>1. After(o, server[o.rec]) \in State
      BY <1>2 DEF After, State, Op
    <2>2. Record(o, "applied", After(o, server[o.rec]))
      BY <1>4 DEF ApplyOp
    <2>3. DOMAIN answers' \subseteq OpId /\ \A i \in DOMAIN answers' : answers'[i] \in Result
      BY <1>2, <2>1, <2>2, RecordType
    <2>4. server' \in [Records -> State] /\ log' \in Seq(Entry) /\ Len(log') = Len(log) + 1
      BY <1>2, <1>4, <2>1 DEF ApplyOp, Commit, Entry
    <2> QED
      BY <1>4, <2>3, <2>4 DEF ApplyOp, Receive, recordVars, storeVars, runVars
  <1>5. ASSUME Receive(o), UNCHANGED <<server, log>>, faults' \in 0 .. MaxFaults,
               NEW status \in {"applied", "conflict", "rejected"}, NEW s \in State, Record(o, status, s)
        PROVE  TypeInv'
    <2>1. DOMAIN answers' \subseteq OpId /\ \A i \in DOMAIN answers' : answers'[i] \in Result
      BY <1>2, <1>5, RecordType
    <2> QED
      BY <1>5, <2>1 DEF Receive, recordVars, storeVars, runVars
  <1>6. CASE AcceptUnchanged(o)
    BY <1>2, <1>5, <1>6 DEF AcceptUnchanged
  <1>7. CASE ConflictOp(o)
    BY <1>2, <1>5, <1>7 DEF ConflictOp
  <1>8. CASE RejectOp(o)
    <2>1. Absent \in State
      BY DEF Absent, State, Content
    <2> QED
      BY <1>5, <1>8, <2>1 DEF RejectOp, Fault
  <1> QED
    BY <1>1, <1>3, <1>4, <1>6, <1>7, <1>8

LEMMA FaultTypeInv == ASSUME TypeInv, FaultStep PROVE TypeInv'
  <1> USE LimitAssumption DEF TypeInv, TypeOK, PageIsThere
  <1>1. ASSUME NEW o \in requests, LoseRequest(o) PROVE TypeInv'
    BY <1>1 DEF LoseRequest, Fault, serverVars, recordVars, storeVars, runVars
  <1>2. ASSUME NEW d \in Devices, Interrupt(d) PROVE TypeInv'
    BY <1>2 DEF Interrupt, Fault, EndRun, Phases, serverVars, recordVars, storeVars
  <1>3. ASSUME NEW d \in Devices, NEW o \in inflight[d], Refuse(d, o) PROVE TypeInv'
    <2>1. [rec |-> o.rec, remote |-> Absent] \in Conflict
      BY DEF Conflict, Op, Absent, State, Content
    <2> QED
      BY <1>3, <2>1 DEF Refuse, Fault, serverVars, recordVars
  <1> QED
    BY <1>1, <1>2, <1>3 DEF FaultStep

LEMMA NextTypeInv == ASSUME TypeInv, [Next]_vars PROVE TypeInv'
  <1>1. CASE UNCHANGED vars
    BY <1>1 DEF vars, serverVars, recordVars, storeVars, runVars, TypeInv, TypeOK, PageIsThere
  <1> QED
    BY <1>1, UserTypeInv, RunTypeInv, ResolveTypeInv, ServerTypeInv, FaultTypeInv DEF Next

\* Every variable keeps its type, and a page fetched is there to be applied.
THEOREM TypeCorrect == Spec => []TypeOK
  <1>1. TypeInv => TypeOK
    BY DEF TypeInv
  <1> QED
    BY InitTypeInv, NextTypeInv, <1>1, PTL DEF Spec

\* Recorded outcomes stay as they are, others join them.
AnswersGrow == \A i \in DOMAIN answers : i \in DOMAIN answers' /\ answers'[i] = answers[i]

LEMMA NextAnswers == ASSUME [Next]_vars PROVE AnswersGrow
  <1>1. ASSUME NEW o, ~KnownId(o), NEW status, NEW s, Record(o, status, s) PROVE AnswersGrow
    BY <1>1 DEF Record, KnownId, Recorded, AnswersGrow
  <1>2. ASSUME UNCHANGED answers PROVE AnswersGrow
    BY <1>2 DEF AnswersGrow
  <1>3. ASSUME ServerStep PROVE AnswersGrow
    BY <1>1, <1>2, <1>3, SMTT(60) DEF ServerStep, AnswerAgain, ApplyOp, AcceptUnchanged, ConflictOp, RejectOp, serverVars
  <1>4. ASSUME NEW d \in Devices, SyncStep(d) \/ Resolve(d) PROVE UNCHANGED answers
    BY <1>4 DEF SyncStep, Resolve, Begin, PushRound, StopPushing, Acknowledge, StartPull, FetchPage, TimeOut,
                EndRun, ApplyPage, SkipKnown, UpdateConflict, Converge, RaiseConflict, NoteTombstone, Adopt,
                AdvanceCursor, KeepLocal, AcceptRemote, serverVars
  <1>5. ASSUME UserStep PROVE UNCHANGED answers
    BY <1>5 DEF UserStep, Create, Edit, Delete, ResetHistory, WriteLocal, WebCreate, WebUpdate, WebDelete,
                WebWrite, serverVars
  <1>6. ASSUME FaultStep PROVE UNCHANGED answers
    BY <1>6 DEF FaultStep, LoseRequest, Interrupt, Refuse, EndRun, serverVars
  <1>7. ASSUME UNCHANGED vars PROVE UNCHANGED answers
    BY <1>7 DEF vars, serverVars
  <1> QED
    BY <1>2, <1>3, <1>4, <1>5, <1>6, <1>7 DEF Next

\* An outcome once recorded is the outcome of its operation forever: the server
\* answers a retry from its record and never applies it twice.
THEOREM OutcomesAreFinal == Spec => OutcomeIsFinal
  <1>1. [Next]_vars => [AnswersGrow]_vars
    BY NextAnswers
  <1>2. OutcomeIsFinal <=> [][AnswersGrow]_vars
    BY PTL DEF OutcomeIsFinal, AnswersGrow
  <1> QED
    BY <1>1, <1>2, PTL DEF Spec

-----------------------------------------------------------------------------
(* One chain per record.                                                    *)

\* What a device has queued, disputed and in flight.
OneChain(d) ==
    /\ \A o, p \in outbox[d] : o.rec = p.rec => o = p
    /\ \A b, c \in conflicts[d] : b.rec = c.rec => b = c
    /\ \A o \in outbox[d], c \in conflicts[d] : o.rec # c.rec
    /\ inflight[d] \subseteq outbox[d]
    /\ phase[d] # "sent" => inflight[d] = {}

ChainInv == \A d \in Devices : OneChain(d)

\* A step of one device disturbs no other device.
LEMMA OtherChains ==
  ASSUME TypeInv, ChainInv, NEW d \in Devices, OneChain(d)',
         \A e \in Devices \ {d} : /\ outbox'[e] = outbox[e] /\ conflicts'[e] = conflicts[e]
                                  /\ inflight'[e] = inflight[e] /\ phase'[e] = phase[e]
  PROVE  ChainInv'
  BY DEF ChainInv, OneChain

\* Taking operations of one record off the queue and adding a conflict of it keeps one chain.
LEMMA FewerOps ==
  ASSUME NEW d \in Devices, TypeInv, OneChain(d), phase[d] # "sent", phase'[d] # "sent",
         inflight'[d] = inflight[d], outbox'[d] \subseteq outbox[d], conflicts'[d] \subseteq conflicts[d]
  PROVE  OneChain(d)'
  BY DEF OneChain

LEMMA RunChainInv == ASSUME TypeInv, ChainInv, NEW d \in Devices, SyncStep(d) PROVE ChainInv'
  <1>0. OneChain(d)
    BY DEF ChainInv
  <1> USE DEF TypeInv, TypeOK
  <1>1. CASE Begin(d)
    BY <1>0, <1>1, OtherChains DEF Begin, OneChain, serverVars, storeVars, recordVars
  <1>2. CASE PushRound(d)
    <2> DEFINE ops == outbox[d] \cup NewOps(d)
               new == {[rec |-> r, remote |-> shadow[d][r]] : r \in ToDispute(d)}
    <2>1. \A r \in Records : Changed(d, r) \/ (Purged(d, r) /\ ~Waiting(d, r)) =>
              /\ \A o \in outbox[d] : o.rec # r
              /\ \A c \in conflicts[d] : c.rec # r
      BY DEF Changed, Waiting, HasOps, HasConflict
    <2>2. \A o \in NewOps(d) : o.rec \in ToCreate(d) \cup ToUpdate(d) \cup ToDelete(d) /\ o = NewOp(d, o.rec)
      BY DEF NewOps, NewOp
    <2>3. \A o, p \in ops : o.rec = p.rec => o = p
      BY <1>0, <2>1, <2>2, ZenonT(60) DEF OneChain, ToCreate, ToUpdate, ToDelete
    <2>4. \A c \in new : c.rec \in ToDispute(d) /\ c.remote = shadow[d][c.rec] /\ c = [rec |-> c.rec, remote |-> shadow[d][c.rec]]
      OBVIOUS
    <2>5. \A b, c \in conflicts[d] \cup new : b.rec = c.rec => b = c
      BY <1>0, <2>1, <2>4 DEF OneChain, ToDispute
    <2>6. \A o \in ops, c \in conflicts[d] \cup new : o.rec # c.rec
      BY <1>0, <2>1, <2>2, <2>4 DEF OneChain, ToCreate, ToUpdate, ToDelete, ToDispute, Live, Known, Purged, Changed
    <2>7. outbox' = [outbox EXCEPT ![d] = ops] /\ conflicts' = [conflicts EXCEPT ![d] = @ \cup new] /\ phase[d] = "push"
      BY <1>2 DEF PushRound
    <2>8. CASE Oldest(ops) = {}
      <3>1. phase' = [phase EXCEPT ![d] = "history"] /\ UNCHANGED inflight
        BY <1>2, <2>8 DEF PushRound
      <3>2. OneChain(d)'
        BY <1>0, <2>3, <2>5, <2>6, <2>7, <3>1 DEF OneChain
      <3> QED
        BY <2>7, <3>1, <3>2, OtherChains
    <2>9. CASE Oldest(ops) # {}
      <3>1. phase' = [phase EXCEPT ![d] = "sent"] /\ inflight' = [inflight EXCEPT ![d] = Oldest(ops)]
        BY <1>2, <2>9 DEF PushRound
      <3>2. Oldest(ops) \subseteq ops
        BY DEF Oldest
      <3>3. OneChain(d)'
        BY <1>0, <2>3, <2>5, <2>6, <2>7, <3>1, <3>2, ZenonT(60) DEF OneChain
      <3> QED
        BY <2>7, <3>1, <3>3, OtherChains
    <2> QED
      BY <2>8, <2>9
  <1>3. CASE StopPushing(d)
    BY <1>0, <1>3, OtherChains DEF StopPushing, OneChain, serverVars, storeVars, recordVars
  <1>4. CASE Acknowledge(d)
    <2> DEFINE applied == {o \in inflight[d] : answers[o.id].status = "applied"}
               failed == inflight[d] \ applied
               left == {p \in outbox[d] \ applied : \A o \in failed : p.rec # o.rec}
               new == {[rec |-> o.rec, remote |-> answers[o.id].current] : o \in failed}
    <2>1. /\ outbox' = [outbox EXCEPT ![d] = left]
          /\ conflicts' = [conflicts EXCEPT ![d] = @ \cup new]
          /\ phase' = [phase EXCEPT ![d] = "push"]
          /\ inflight' = [inflight EXCEPT ![d] = {}]
      BY <1>4 DEF Acknowledge
    <2>2. \A c \in new : \E o \in failed : c = [rec |-> o.rec, remote |-> answers[o.id].current]
      OBVIOUS
    <2>3. \A b, c \in conflicts[d] \cup new : b.rec = c.rec => b = c
      BY <1>0, <2>2 DEF OneChain
    <2>4. \A o \in left, c \in conflicts[d] \cup new : o.rec # c.rec
      BY <1>0, <2>2 DEF OneChain
    <2>5. OneChain(d)'
      BY <1>0, <2>1, <2>3, <2>4 DEF OneChain
    <2> QED
      BY <2>1, <2>5, OtherChains
  <1>5. CASE StartPull(d)
    BY <1>0, <1>5, OtherChains DEF StartPull, OneChain, serverVars, recordVars
  <1>6. CASE FetchPage(d)
    BY <1>0, <1>6, OtherChains DEF FetchPage, OneChain, serverVars, storeVars, recordVars
  <1>7. CASE TimeOut(d)
    BY <1>0, <1>7, OtherChains DEF TimeOut, EndRun, OneChain, serverVars, storeVars, recordVars
  <1>8. CASE ApplyPage(d)
    <2>1. ASSUME AdvanceCursor(d)
          PROVE  phase[d] = "page" /\ phase'[d] # "sent" /\ UNCHANGED inflight
                 /\ \A e \in Devices \ {d} : phase'[e] = phase[e]
      BY <2>1 DEF AdvanceCursor
    <2>2. ASSUME AdvanceCursor(d), UNCHANGED conflicts, UNCHANGED outbox PROVE ChainInv'
      BY <1>0, <2>1, <2>2, FewerOps, OtherChains
    <2>3. CASE UpdateConflict(d)
      <3> DEFINE r == Change(d).rec
                 new == [rec |-> r, remote |-> Change(d).state]
      <3>1. /\ conflicts' = [conflicts EXCEPT ![d] = {c \in @ : c.rec # r} \cup {new}]
            /\ UNCHANGED outbox /\ AdvanceCursor(d) /\ \E c \in conflicts[d] : c.rec = r
        BY <2>3 DEF UpdateConflict, HasConflict
      <3>2. OneChain(d)'
        BY <1>0, <2>1, <3>1 DEF OneChain
      <3> QED
        BY <2>1, <3>1, <3>2, OtherChains
    <2>4. CASE Converge(d)
      <3>1. /\ AdvanceCursor(d) /\ UNCHANGED conflicts
            /\ outbox' = [outbox EXCEPT ![d] = {o \in @ : o.rec # Change(d).rec}]
        BY <2>4 DEF Converge, ForgetOps
      <3> QED
        BY <1>0, <2>1, <3>1, FewerOps, OtherChains
    <2>5. CASE RaiseConflict(d)
      <3> DEFINE r == Change(d).rec
                 new == [rec |-> r, remote |-> Change(d).state]
      <3>1. /\ conflicts' = [conflicts EXCEPT ![d] = @ \cup {new}]
            /\ outbox' = [outbox EXCEPT ![d] = {o \in @ : o.rec # r}]
            /\ AdvanceCursor(d) /\ \A c \in conflicts[d] : c.rec # r
        BY <2>5 DEF RaiseConflict, ForgetOps, IsNews, HasConflict
      <3>2. OneChain(d)'
        BY <1>0, <2>1, <3>1 DEF OneChain
      <3> QED
        BY <2>1, <3>1, <3>2, OtherChains
    <2> QED
      BY <1>8, <2>2, <2>3, <2>4, <2>5 DEF ApplyPage, SkipKnown, NoteTombstone, Adopt
  <1> QED
    BY <1>1, <1>2, <1>3, <1>4, <1>5, <1>6, <1>7, <1>8 DEF SyncStep

LEMMA NextChainInv == ASSUME TypeInv, ChainInv, [Next]_vars PROVE ChainInv'
  <1>1. ASSUME UNCHANGED <<outbox, conflicts, inflight, phase>> PROVE ChainInv'
    BY <1>1 DEF ChainInv, OneChain
  <1>2. CASE UNCHANGED vars
    BY <1>1, <1>2 DEF vars, storeVars, runVars
  <1>3. CASE UserStep
    BY <1>1, <1>3, ZenonT(60) DEF UserStep, Create, Edit, Delete, ResetHistory, WriteLocal, WebCreate, WebUpdate, WebDelete,
                      WebWrite, storeVars, runVars
  <1>4. CASE ServerStep
    BY <1>1, <1>4 DEF ServerStep, AnswerAgain, ApplyOp, AcceptUnchanged, ConflictOp, RejectOp, Receive,
                      storeVars, runVars
  <1>5. ASSUME NEW d \in Devices, Resolve(d) PROVE ChainInv'
    <2>1. OneChain(d)
      BY DEF ChainInv
    <2>2. /\ phase[d] = "idle" /\ UNCHANGED <<inflight, phase>>
          /\ \E r : outbox' = [outbox EXCEPT ![d] = {o \in @ : o.rec # r}]
          /\ \E c : conflicts' = [conflicts EXCEPT ![d] = @ \ {c}]
      BY <1>5, ZenonT(60) DEF Resolve, KeepLocal, AcceptRemote, ForgetOps, runVars
    <2>3. /\ outbox'[d] \subseteq outbox[d] /\ conflicts'[d] \subseteq conflicts[d]
          /\ \A e \in Devices \ {d} : outbox'[e] = outbox[e] /\ conflicts'[e] = conflicts[e]
      BY <2>2 DEF TypeInv, TypeOK
    <2> QED
      BY <2>1, <2>2, <2>3, FewerOps, OtherChains
  <1>6. ASSUME NEW o, LoseRequest(o) PROVE ChainInv'
    BY <1>1, <1>6 DEF LoseRequest, storeVars, runVars
  <1>7. ASSUME NEW d \in Devices, Interrupt(d) PROVE ChainInv'
    BY <1>7 DEF Interrupt, EndRun, storeVars, ChainInv, OneChain, TypeInv, TypeOK
  <1>8. ASSUME NEW d \in Devices, NEW o \in inflight[d], Refuse(d, o) PROVE ChainInv'
    <2> DEFINE new == [rec |-> o.rec, remote |-> Absent]
    <2>1. OneChain(d)
      BY DEF ChainInv
    <2>2. /\ conflicts' = [conflicts EXCEPT ![d] = @ \cup {new}]
          /\ outbox' = [outbox EXCEPT ![d] = {p \in @ : p.rec # o.rec}]
          /\ inflight' = [inflight EXCEPT ![d] = @ \ {o}]
          /\ phase[d] = "sent" /\ UNCHANGED phase
      BY <1>8 DEF Refuse
    <2>3. /\ conflicts'[d] = conflicts[d] \cup {new}
          /\ outbox'[d] = {p \in outbox[d] : p.rec # o.rec}
          /\ inflight'[d] = inflight[d] \ {o}
          /\ \A e \in Devices \ {d} : /\ outbox'[e] = outbox[e] /\ conflicts'[e] = conflicts[e]
                                        /\ inflight'[e] = inflight[e] /\ phase'[e] = phase[e]
      BY <2>2 DEF TypeInv, TypeOK
    <2>4. OneChain(d)'
      BY <2>1, <2>2, <2>3 DEF OneChain
    <2> QED
      BY <2>3, <2>4, OtherChains
  <1> QED
    BY <1>2, <1>3, <1>4, <1>5, <1>6, <1>7, <1>8, RunChainInv DEF Next, FaultStep

\* A record never has two pending operations, two open conflicts or one of each:
\* a device never sends a second change of a record before the first is answered.
THEOREM ChainsAreSingle == Spec => []OneChainPerRecord
  <1>1. Init => ChainInv
    BY DEF Init, ChainInv, OneChain
  <1>2. ChainInv => OneChainPerRecord
    BY DEF ChainInv, OneChain, OneChainPerRecord
  <1> QED
    BY InitTypeInv, NextTypeInv, NextChainInv, <1>1, <1>2, PTL DEF Spec

-----------------------------------------------------------------------------
(***************************************************************************)
(* No committed change is forgotten, for every number of devices and       *)
(* records and every bound.  A mark is cleared when the operation that     *)
(* carries it is answered, so the argument is about what an operation      *)
(* still waiting for its answer says: its id is its own (IdsFresh), the    *)
(* outcome recorded under that id is the state it asked for               *)
(* (AnswersMatch), and it asks for what the device holds now if its        *)
(* revision is still the mark's (Marked).                                  *)
(***************************************************************************)

\* Every operation a device may still hear of.
Issued == requests \cup UNION {outbox[d] : d \in Devices}

IdsFresh ==
    /\ \A d \in Devices : \A o \in outbox[d] : o.id[1] = d
    /\ \A o \in Issued : o.id[2] <= opSeq[o.id[1]]
    /\ \A i \in DOMAIN answers : i[2] <= opSeq[i[1]]
    /\ \A o, p \in Issued : o.id = p.id => o = p

\* The create of a task type: a live one answers it, whatever its label.
MintsType(o) == o.kind = "create" /\ o.rec \in TaskTypes

\* The state an operation asks for.
Carries(o, s) ==
    /\ Known(s) /\ s.dead = o.dead
    /\ ~o.dead /\ ~MintsType(o) => s.val = o.val

AnswersMatch == \A o \in Issued :
    /\ o.kind = "delete" => o.dead
    /\ o.kind = "update" => ~o.dead /\ o.base > 0
    /\ MintsType(o) => ~o.dead
    /\ o.id \in DOMAIN answers =>
          /\ answers[o.id].rec = o.rec /\ answers[o.id].kind = o.kind /\ answers[o.id].val = o.val
    /\ o.id \in DOMAIN answers /\ answers[o.id].status = "applied" => Carries(o, answers[o.id].current)

IdsInv == IdsFresh /\ AnswersMatch

-----------------------------------------------------------------------------
(* The positions one round hands out are new and distinct.                  *)

LEMMA NewSeq ==
  ASSUME TypeInv, NEW d \in Devices, NEW r \in Records
  PROVE  /\ SeqOf(d, r) \in Nat /\ opSeq[d] < SeqOf(d, r)
         /\ SeqOf(d, r) <= opSeq[d] + 2 * Cardinality(Records)
  BY RecordsAssumption, RecordCount, SMTT(60) DEF SeqOf, TypeInv, TypeOK

LEMMA SeqInjective ==
  ASSUME TypeInv, NEW d \in Devices, NEW q \in Records, NEW r \in Records, SeqOf(d, q) = SeqOf(d, r)
  PROVE  q = r
  <1>1. Rank[q] \in 1 .. Cardinality(Records) /\ Rank[r] \in 1 .. Cardinality(Records) /\ opSeq[d] \in Nat
    BY RecordsAssumption DEF TypeInv, TypeOK
  <1>2. Rank[q] = Rank[r]
    BY <1>1, RecordCount DEF SeqOf
  <1> QED
    BY <1>2, RecordsAssumption

\* What prepare() makes of a dirty record.
LEMMA NewOpFacts ==
  ASSUME TypeInv, NEW d \in Devices, NEW o \in NewOps(d)
  PROVE  /\ o.rec \in Records /\ o = NewOp(d, o.rec)
         /\ o \in Op
         /\ o.id = <<d, SeqOf(d, o.rec)>>
         /\ o.rev = dirty[d][o.rec] /\ o.rev > 0 /\ o.dead = ~IsLive(d, o.rec)
         /\ o.val = local[d][o.rec].val
         /\ o.kind = "delete" => o.dead
         /\ o.kind = "update" => ~o.dead /\ o.base > 0
         /\ MintsType(o) => ~o.dead
         /\ ~Waiting(d, o.rec)
  <1>1. PICK r \in ToCreate(d) \cup ToUpdate(d) \cup ToDelete(d) : o = NewOp(d, r)
    BY DEF NewOps
  <1>2. r \in Records /\ o.rec = r
    BY <1>1 DEF ToCreate, ToUpdate, ToDelete, NewOp
  <1>3. dirty[d][r] > 0 /\ ~Waiting(d, r) /\ (r \in ToDelete(d) => ~IsLive(d, r))
    BY <1>1, <1>2 DEF ToCreate, ToUpdate, ToDelete, Changed, Purged, IsLive
  <1>4. r \notin ToCreate(d) /\ r \notin ToDelete(d) => IsLive(d, r) /\ shadow[d][r].ver > 0
    BY <1>1, <1>2 DEF ToUpdate, Live
  <1>5. o \in Op
    <2>1. SeqOf(d, r) \in Nat /\ local[d][r].val \in Content /\ shadow[d][r].ver \in Nat /\ dirty[d][r] \in Nat
      BY <1>2, NewSeq, SMTT(60) DEF TypeInv, TypeOK, Copy, State
    <2> QED
      BY <1>1, <1>2, <2>1 DEF NewOp, Op, OpId, Kinds, IsLive
  <1>6. o.id = <<d, SeqOf(d, r)>> /\ o.rev = dirty[d][r] /\ o.dead = ~IsLive(d, r) /\ o.val = local[d][r].val
    BY <1>1 DEF NewOp
  <1>7. (o.kind = "delete" => o.dead) /\ (o.kind = "update" => ~o.dead /\ o.base > 0)
    <2>1. o.kind = "delete" => r \in ToDelete(d)
      BY <1>1 DEF NewOp
    <2>2. o.kind = "update" => r \notin ToCreate(d) /\ r \notin ToDelete(d)
      BY <1>1 DEF NewOp
    <2>3. o.base = shadow[d][r].ver
      BY <1>1 DEF NewOp
    <2> QED
      BY <1>3, <1>4, <1>6, <2>1, <2>2, <2>3
  <1>8. MintsType(o) => ~o.dead
    <2>1. MintsType(o) => r \in ToCreate(d) /\ r \notin Derived
      BY <1>1, <1>2, <1>4, RecordsAssumption DEF NewOp, MintsType
    <2> QED
      BY <1>6, <1>2, <2>1 DEF ToCreate
  <1> QED
    BY <1>1, <1>2, <1>3, <1>5, <1>6, <1>7, <1>8

-----------------------------------------------------------------------------
(* Ids and recorded outcomes.                                               *)

LEMMA FewerIssued ==
  ASSUME IdsInv, UNCHANGED <<opSeq, answers>>, requests' \subseteq requests,
         \A d \in Devices : outbox'[d] \subseteq outbox[d]
  PROVE  IdsInv'
  <1>1. Issued' \subseteq Issued
    BY DEF Issued
  <1> QED
    BY <1>1 DEF IdsInv, IdsFresh, AnswersMatch

LEMMA PushIdsInv == ASSUME TypeInv, IdsInv, NEW d \in Devices, PushRound(d) PROVE IdsInv'
  <1> DEFINE new == NewOps(d)
  <1>1. /\ outbox' = [outbox EXCEPT ![d] = outbox[d] \cup new]
        /\ UNCHANGED answers
        /\ requests' \subseteq requests \cup outbox[d] \cup new
    BY DEF PushRound, Oldest, serverVars
  <1>2. Issued' \subseteq Issued \cup new
    <2>1. \A e \in Devices : outbox'[e] \subseteq Issued \cup new
      BY <1>1 DEF Issued, TypeInv, TypeOK
    <2>2. requests' \subseteq Issued \cup new
      BY <1>1 DEF Issued
    <2> QED
      BY <2>1, <2>2 DEF Issued
  <1>3. /\ opSeq \in [Devices -> Nat] /\ opSeq' \in [Devices -> Nat]
        /\ \A e \in Devices : opSeq[e] <= opSeq'[e]
        /\ new # {} => opSeq'[d] = opSeq[d] + 2 * Cardinality(Records)
    BY RecordCount, SMTT(60) DEF PushRound, TypeInv, TypeOK
  <1>4. \A o \in new : /\ o.id[1] = d /\ o.id[2] \in Nat
                       /\ opSeq[d] < o.id[2] /\ o.id[2] <= opSeq'[d]
    BY <1>3, NewOpFacts, NewSeq
  <1>5. \A o \in Issued : o \in Op
    BY DEF Issued, TypeInv, TypeOK
  <1>6. \A o \in Issued : o.id \in OpId /\ o.id[1] \in Devices /\ o.id[2] \in Nat
    BY <1>5 DEF Op, OpId
  <1>7. \A o \in Issued, p \in new : o.id # p.id
    BY <1>3, <1>4, <1>6 DEF IdsInv, IdsFresh
  <1>8. \A o, p \in new : o.id = p.id => o = p
    BY NewOpFacts, SeqInjective
  <1>9. \A i \in DOMAIN answers : i[1] \in Devices /\ i[2] \in Nat
    BY DEF TypeInv, TypeOK, OpId
  <1>10. IdsFresh'
    <2>1. \A e \in Devices : \A o \in outbox'[e] : o.id[1] = e
      BY <1>1, <1>4 DEF IdsInv, IdsFresh, TypeInv, TypeOK
    <2>2. \A o \in Issued' : o.id[2] <= opSeq'[o.id[1]]
      BY <1>2, <1>3, <1>4, <1>6 DEF IdsInv, IdsFresh
    <2>3. \A i \in DOMAIN answers' : i[2] <= opSeq'[i[1]]
      BY <1>1, <1>3, <1>9 DEF IdsInv, IdsFresh
    <2>4. \A o, p \in Issued' : o.id = p.id => o = p
      BY <1>2, <1>7, <1>8 DEF IdsInv, IdsFresh
    <2> QED
      BY <2>1, <2>2, <2>3, <2>4 DEF IdsFresh
  <1>11. AnswersMatch'
    <2>1. \A o \in new : o.id \notin DOMAIN answers
      BY <1>3, <1>4, <1>9 DEF IdsInv, IdsFresh
    <2> QED
      BY <1>1, <1>2, <2>1, NewOpFacts DEF IdsInv, AnswersMatch
  <1> QED
    BY <1>10, <1>11 DEF IdsInv

\* The server records, for an operation it applies, the state the operation asks for.
LEMMA ServerIdsInv == ASSUME TypeInv, IdsInv, ServerStep PROVE IdsInv'
  <1>1. PICK o \in requests :
          AnswerAgain(o) \/ ApplyOp(o) \/ AcceptUnchanged(o) \/ ConflictOp(o) \/ RejectOp(o)
    BY DEF ServerStep
  <1>2. o \in Issued /\ o \in Op /\ server[o.rec] \in State
    BY DEF Issued, TypeInv, TypeOK, Op
  <1>3. requests' \subseteq requests /\ UNCHANGED <<outbox, opSeq>>
    BY <1>1 DEF AnswerAgain, ApplyOp, AcceptUnchanged, ConflictOp, RejectOp, Receive, storeVars
  <1>4. Issued' \subseteq Issued
    BY <1>3 DEF Issued
  <1>5. ASSUME NEW status, NEW s, Record(o, status, s), status = "applied" => Carries(o, s)
        PROVE  IdsInv'
    <2>1. /\ DOMAIN answers' = DOMAIN answers \cup {o.id}
          /\ \A i \in DOMAIN answers' : i # o.id => answers'[i] = answers[i]
          /\ answers'[o.id].status = status /\ answers'[o.id].current = s
          /\ answers'[o.id].rec = o.rec /\ answers'[o.id].kind = o.kind /\ answers'[o.id].val = o.val
      BY <1>5 DEF Record
    <2>2. IdsFresh'
      BY <1>2, <1>3, <1>4, <2>1 DEF IdsInv, IdsFresh
    <2>3. \A p \in Issued' : p.id = o.id => p = o
      BY <1>2, <1>4 DEF IdsInv, IdsFresh
    <2>4. AnswersMatch'
      BY <1>4, <1>5, <2>1, <2>3 DEF IdsInv, AnswersMatch
    <2> QED
      BY <2>2, <2>4 DEF IdsInv
  <1>6. CASE AnswerAgain(o)
    BY <1>3, <1>6, FewerIssued DEF AnswerAgain, serverVars
  <1>7. CASE ApplyOp(o)
    <2>1. o.kind = "delete" => o.dead
      BY <1>2 DEF IdsInv, AnswersMatch
    <2>2. Carries(o, After(o, server[o.rec]))
      BY <1>2, <2>1 DEF Carries, After, Known, State
    <2> QED
      BY <1>5, <1>7, <2>2 DEF ApplyOp
  <1>8. CASE AcceptUnchanged(o)
    <2>1. ChangesNothing(o, server[o.rec]) /\ Record(o, "applied", server[o.rec])
      BY <1>8 DEF AcceptUnchanged
    <2>2. CASE o.kind = "create"
      <3>1. MintsType(o) => ~o.dead
        BY <1>2 DEF IdsInv, AnswersMatch
      <3>2. Carries(o, server[o.rec])
        BY <1>2, <2>1, <2>2, <3>1 DEF ChangesNothing, Carries, MintsType, Live, Known, State, Op
      <3> QED
        BY <1>5, <2>1, <3>2
    <2>3. CASE o.kind = "update"
      <3>1. ~o.dead /\ o.base > 0
        BY <1>2, <2>3 DEF IdsInv, AnswersMatch
      <3>2. Carries(o, server[o.rec])
        BY <1>2, <2>1, <2>3, <3>1 DEF ChangesNothing, Carries, Fits, Known, State, Op
      <3> QED
        BY <1>5, <2>1, <3>2
    <2> QED
      BY <2>1, <2>2, <2>3 DEF ChangesNothing
  <1>9. CASE ConflictOp(o)
    BY <1>5, <1>9 DEF ConflictOp
  <1>10. CASE RejectOp(o)
    BY <1>5, <1>10 DEF RejectOp
  <1> QED
    BY <1>1, <1>6, <1>7, <1>8, <1>9, <1>10

LEMMA NextIdsInv == ASSUME TypeInv, IdsInv, [Next]_vars PROVE IdsInv'
  <1>1. CASE UNCHANGED vars
    BY <1>1, FewerIssued DEF vars, serverVars, storeVars
  <1>2. CASE UserStep
    BY <1>2, FewerIssued DEF UserStep, Create, Edit, Delete, ResetHistory, WriteLocal, WebCreate, WebUpdate,
                             WebDelete, WebWrite, serverVars, storeVars
  <1>3. ASSUME NEW d \in Devices, SyncStep(d), ~PushRound(d) PROVE IdsInv'
    <2>1. UNCHANGED <<opSeq, answers, requests>> /\ \E ops \in SUBSET outbox[d] : outbox' = [outbox EXCEPT ![d] = ops]
      <3> USE DEF TypeInv, TypeOK
      <3>1. ASSUME UNCHANGED outbox PROVE \E ops \in SUBSET outbox[d] : outbox' = [outbox EXCEPT ![d] = ops]
        BY <3>1
      <3>2. ASSUME NEW r, ForgetOps(d, r) PROVE \E ops \in SUBSET outbox[d] : outbox' = [outbox EXCEPT ![d] = ops]
        BY <3>2 DEF ForgetOps
      <3>3. CASE Begin(d) \/ StopPushing(d) \/ StartPull(d) \/ FetchPage(d) \/ TimeOut(d)
        BY <3>1, <3>3 DEF Begin, StopPushing, StartPull, FetchPage, TimeOut, EndRun, serverVars, storeVars
      <3>4. CASE Acknowledge(d)
        BY <3>4 DEF Acknowledge, serverVars
      <3>5. CASE ApplyPage(d)
        BY <3>1, <3>2, <3>5 DEF ApplyPage, SkipKnown, UpdateConflict, Converge, RaiseConflict, NoteTombstone, Adopt,
                                AdvanceCursor, serverVars
      <3> QED
        BY <1>3, <3>3, <3>4, <3>5 DEF SyncStep
    <2> QED
      BY <2>1, FewerIssued DEF TypeInv, TypeOK
  <1>4. ASSUME NEW d \in Devices, Resolve(d) PROVE IdsInv'
    <2>1. UNCHANGED <<opSeq, answers, requests>> /\ \E r : ForgetOps(d, r)
      BY <1>4 DEF Resolve, KeepLocal, AcceptRemote, serverVars
    <2> QED
      BY <2>1, FewerIssued DEF ForgetOps, TypeInv, TypeOK
  <1>5. CASE FaultStep
    <2>1. UNCHANGED <<opSeq, answers>> /\ requests' \subseteq requests
      BY <1>5 DEF FaultStep, LoseRequest, Interrupt, Refuse, EndRun, serverVars, storeVars
    <2>2. UNCHANGED outbox \/ \E d \in Devices : \E o : outbox' = [outbox EXCEPT ![d] = {p \in @ : p.rec # o.rec}]
      BY <1>5 DEF FaultStep, LoseRequest, Interrupt, Refuse, EndRun, storeVars
    <2>3. \A e \in Devices : outbox'[e] \subseteq outbox[e]
      BY <2>2, ZenonT(60) DEF TypeInv, TypeOK
    <2> QED
      BY <2>1, <2>3, FewerIssued
  <1> QED
    BY <1>1, <1>2, <1>3, <1>4, <1>5, PushIdsInv, ServerIdsInv DEF Next

-----------------------------------------------------------------------------
(* Marks.                                                                   *)

\* A record not stored here has neither mark nor operation nor conflict; an operation's
\* revision is never ahead of the mark, and if it is the mark's, so is its content.
Marked(d, r) ==
    /\ local[d][r].st = "none" => dirty[d][r] = 0 /\ ~HasOps(d, r) /\ ~HasConflict(d, r)
    /\ \A o \in outbox[d] : o.rec = r =>
        /\ o.rev <= dirty[d][r] /\ dirty[d][r] > 0
        /\ o.rev = dirty[d][r] => o.dead = ~IsLive(d, r) /\ (o.kind # "delete" => o.val = local[d][r].val)
    /\ MarkedOrSynced(d, r)

MarkInv == \A d \in Devices, r \in Records \ Executions : Marked(d, r)

\* A task type keeps the label it was minted with as long as copy and shadow stay.
LEMMA LabelStays ==
  ASSUME NEW d \in Devices, NEW r \in Records, KeepsLabel(d, r), AnswersGrow,
         local'[d][r] = local[d][r], shadow'[d][r] = shadow[d][r]
  PROVE  KeepsLabel(d, r)'
  BY DEF KeepsLabel, AnswersGrow

\* A record whose copy, mark and shadow stay is as before if it gains no operation and
\* keeps its conflict.
LEMMA MarkedStays ==
  ASSUME NEW d \in Devices, NEW r \in Records, Marked(d, r), AnswersGrow,
         local'[d][r] = local[d][r], dirty'[d][r] = dirty[d][r], shadow'[d][r] = shadow[d][r],
         \A o \in outbox'[d] : o.rec = r => o \in outbox[d],
         HasConflict(d, r)' <=> HasConflict(d, r)
  PROVE  Marked(d, r)'
  <1>1. KeepsLabel(d, r) => KeepsLabel(d, r)'
    BY LabelStays
  <1> QED
    BY <1>1 DEF Marked, MarkedOrSynced, HasOps, IsLive

\* The copy changes and its mark grows: nothing waiting is at the new revision.
LEMMA MarkedBump ==
  ASSUME TypeInv, NEW d \in Devices, NEW r \in Records, Marked(d, r), local'[d][r].st # "none",
         dirty'[d][r] = dirty[d][r] + 1, \A o \in outbox'[d] : o.rec = r => o \in outbox[d]
  PROVE  Marked(d, r)'
  <1>1. dirty[d][r] \in Nat
    BY DEF TypeInv, TypeOK
  <1>2. \A o \in outbox[d] : o.rec = r => o.rev \in Nat
    BY DEF TypeInv, TypeOK, Op
  <1> QED
    BY <1>1, <1>2 DEF Marked, MarkedOrSynced

\* The copy matches the shadow, with neither mark nor operation.
LEMMA MarkedClean ==
  ASSUME NEW d \in Devices, NEW r \in Records, local'[d][r].st # "none",
         \A o \in outbox'[d] : o.rec # r, Matches(local'[d][r], shadow'[d][r])
  PROVE  Marked(d, r)'
  BY DEF Marked, MarkedOrSynced

LEMMA UserMarkInv == ASSUME TypeInv, MarkInv, AnswersGrow, UserStep PROVE MarkInv'
  <1> USE DEF TypeInv, TypeOK
  <1> SUFFICES ASSUME NEW e \in Devices, NEW q \in Records \ Executions PROVE Marked(e, q)'
    BY DEF MarkInv
  <1>0. Marked(e, q) /\ q \in Records /\ UNCHANGED <<shadow, outbox, conflicts>>
    BY DEF MarkInv, UserStep, Create, Edit, Delete, ResetHistory, WriteLocal, WebCreate, WebUpdate, WebDelete,
           WebWrite, storeVars
  <1>1. HasConflict(e, q)' <=> HasConflict(e, q)
    BY <1>0 DEF HasConflict
  <1>2. ASSUME NEW d \in Devices, NEW r \in Records, NEW copy, copy.st # "none", WriteLocal(d, r, copy)
        PROVE  Marked(e, q)'
    <2>1. CASE d = e /\ r = q
      BY <1>0, <1>2, <2>1, MarkedBump DEF WriteLocal, Bump
    <2>2. CASE d # e \/ r # q
      BY <1>0, <1>1, <1>2, <2>2, MarkedStays DEF WriteLocal
    <2> QED
      BY <2>1, <2>2
  <1>3. ASSUME NEW d \in Devices, NEW r \in Records, NEW v, Create(d, r, v) \/ Edit(d, r, v) PROVE Marked(e, q)'
    BY <1>2, <1>3 DEF Create, Edit
  <1>4. ASSUME NEW d \in Devices, NEW r \in Records, Delete(d, r) PROVE Marked(e, q)'
    BY <1>2, <1>4 DEF Delete
  <1>5. ASSUME NEW d \in Devices, ResetHistory(d) PROVE Marked(e, q)'
    BY <1>0, <1>1, <1>5, MarkedStays DEF ResetHistory
  <1>6. ASSUME UNCHANGED <<local, dirty>> PROVE Marked(e, q)'
    BY <1>0, <1>1, <1>6, MarkedStays
  <1> QED
    BY <1>3, <1>4, <1>5, <1>6 DEF UserStep, WebCreate, WebUpdate, WebDelete, WebWrite, recordVars

LEMMA PushMarkInv ==
  ASSUME TypeInv, MarkInv, AnswersGrow, NEW d \in Devices, PushRound(d), NEW q \in Records \ Executions
  PROVE  Marked(d, q)'
  <1> USE DEF TypeInv, TypeOK
  <1>1. Marked(d, q)
    BY DEF MarkInv
  <1>2. UNCHANGED <<local, shadow>>
    BY DEF PushRound
  <1>3. outbox'[d] = outbox[d] \cup NewOps(d)
    BY DEF PushRound
  <1>4. dirty'[d][q] = IF q \in ToForget(d) THEN 0 ELSE dirty[d][q]
    BY DEF PushRound
  <1>5. conflicts'[d] = conflicts[d] \cup {[rec |-> r, remote |-> shadow[d][r]] : r \in ToDispute(d)}
    BY DEF PushRound
  <1>6. HasConflict(d, q)' <=> HasConflict(d, q) \/ q \in ToDispute(d)
    <2> DEFINE new == {[rec |-> r, remote |-> shadow[d][r]] : r \in ToDispute(d)}
    <2>1. \A c \in new : c.rec \in ToDispute(d)
      OBVIOUS
    <2>2. q \in ToDispute(d) => [rec |-> q, remote |-> shadow[d][q]] \in new
      OBVIOUS
    <2>3. (\E c \in new : c.rec = q) <=> q \in ToDispute(d)
      BY <2>1, <2>2
    <2> HIDE DEF new
    <2> QED
      BY <1>5, <2>3 DEF HasConflict, new
  <1>7. local[d][q].st = "none" => ~Changed(d, q) /\ ~Purged(d, q)
    BY <1>1 DEF Marked, Changed, Purged
  <1>8. \A o \in NewOps(d) : o.rec = q => q \in ToCreate(d) \cup ToUpdate(d) \cup ToDelete(d)
    BY DEF NewOps, NewOp
  <1>9. CASE q \in ToForget(d)
    <2>1. \/ Changed(d, q) /\ ~IsLive(d, q) /\ ~Live(shadow[d][q])
          \/ Changed(d, q) /\ Live(shadow[d][q]) /\ local[d][q] = CopyOf(shadow[d][q])
      BY <1>7, <1>9 DEF ToForget, Changed, Purged, NothingToSend
    <2>2. local[d][q].st # "none" /\ ~Waiting(d, q)
      BY <2>1 DEF Changed
    <2>3. Matches(local[d][q], shadow[d][q])
      BY <2>1 DEF Matches, IsLive
    <2>4. q \notin ToCreate(d) \cup ToUpdate(d) \cup ToDelete(d)
      BY <1>9, <2>2 DEF ToForget, ToCreate, ToUpdate, ToDelete, Changed, Purged, Live, Known, NothingToSend
    <2>5. \A o \in outbox'[d] : o.rec # q
      BY <1>3, <1>8, <2>2, <2>4 DEF Waiting, HasOps
    <2> QED
      BY <1>2, <2>2, <2>3, <2>5, MarkedClean
  <1>10. CASE q \notin ToForget(d)
    <2>1. CASE q \in ToCreate(d) \cup ToUpdate(d) \cup ToDelete(d)
      <3>1. Changed(d, q)
        BY <1>7, <2>1 DEF ToCreate, ToUpdate, ToDelete, Purged
      <3>2. \A o \in outbox'[d] : o.rec = q => o \in NewOps(d)
        BY <1>3, <3>1 DEF Changed, Waiting, HasOps
      <3>3. dirty[d][q] \in Nat /\ dirty[d][q] > 0 /\ local[d][q].st # "none" /\ dirty'[d][q] = dirty[d][q]
        BY <1>4, <1>10, <3>1 DEF Changed
      <3>4. \A o \in outbox'[d] : o.rec = q =>
              o.rev = dirty[d][q] /\ o.dead = ~IsLive(d, q) /\ o.val = local[d][q].val
        BY <3>2, NewOpFacts
      <3> QED
        BY <1>2, <3>3, <3>4 DEF Marked, MarkedOrSynced, IsLive
    <2>2. CASE q \notin ToCreate(d) \cup ToUpdate(d) \cup ToDelete(d)
      <3>1. \A o \in outbox'[d] : o.rec = q => o \in outbox[d]
        BY <1>3, <1>8, <2>2
      <3>2. dirty'[d][q] = dirty[d][q]
        BY <1>4, <1>10
      <3>3. CASE q \in ToDispute(d)
        <4>1. Changed(d, q) /\ HasConflict(d, q)'
          BY <1>6, <3>3 DEF ToDispute
        <4>2. \A o \in outbox'[d] : o.rec # q
          BY <3>1, <4>1 DEF Changed, Waiting, HasOps
        <4> QED
          BY <1>2, <4>1, <4>2 DEF Marked, MarkedOrSynced, Changed
      <3>4. CASE q \notin ToDispute(d)
        BY <1>1, <1>2, <1>6, <3>1, <3>2, <3>4, MarkedStays
      <3> QED
        BY <3>3, <3>4
    <2> QED
      BY <2>1, <2>2
  <1> QED
    BY <1>9, <1>10

\* The mark goes with the answer only if the operation carries what the device holds.
LEMMA AckMarkInv ==
  ASSUME TypeInv, ChainInv, IdsInv, MarkInv, AnswersGrow, NEW d \in Devices, Acknowledge(d),
         NEW q \in Records \ Executions
  PROVE  Marked(d, q)'
  <1> USE DEF TypeInv, TypeOK
  <1> DEFINE applied == {o \in inflight[d] : answers[o.id].status = "applied"}
             failed == inflight[d] \ applied
             AppliedTo == {o \in applied : o.rec = q}
             o1 == CHOOSE o \in AppliedTo : TRUE
  <1>1. Marked(d, q) /\ OneChain(d)
    BY DEF MarkInv, ChainInv
  <1>2. UNCHANGED local
    BY DEF Acknowledge
  <1>3. outbox'[d] = {p \in outbox[d] \ applied : \A o \in failed : p.rec # o.rec}
    BY DEF Acknowledge
  <1>4. conflicts'[d] = conflicts[d] \cup {[rec |-> o.rec, remote |-> answers[o.id].current] : o \in failed}
    BY DEF Acknowledge
  <1>5. HasConflict(d, q)' <=> HasConflict(d, q) \/ \E o \in failed : o.rec = q
    <2> DEFINE new == {[rec |-> o.rec, remote |-> answers[o.id].current] : o \in failed}
    <2>1. \A c \in new : \E o \in failed : c.rec = o.rec
      OBVIOUS
    <2>2. \A o \in failed : \E c \in new : c.rec = o.rec
      <3> TAKE o \in failed
      <3> WITNESS [rec |-> o.rec, remote |-> answers[o.id].current] \in new
      <3> QED
        OBVIOUS
    <2>3. conflicts'[d] = conflicts[d] \cup new
      BY <1>4
    <2> HIDE DEF new
    <2> QED
      BY <2>1, <2>2, <2>3, ZenonT(60) DEF HasConflict
  <1>6. shadow'[d][q] = IF AppliedTo = {} THEN shadow[d][q] ELSE answers[o1.id].current
    BY DEF Acknowledge
  <1>7. dirty'[d][q] = IF AppliedTo = {} \/ \E p \in outbox[d] \ applied : p.rec = q THEN dirty[d][q]
                       ELSE MarkAfter(dirty[d][q], o1.rev)
    BY DEF Acknowledge
  <1>8. CASE AppliedTo = {}
    <2>1. CASE \E o \in failed : o.rec = q
      <3>1. HasConflict(d, q)' /\ \A o \in outbox'[d] : o.rec # q
        BY <1>3, <1>5, <2>1
      <3>2. local[d][q].st # "none"
        BY <1>1, <2>1 DEF Marked, HasOps, OneChain
      <3> QED
        BY <1>2, <3>1, <3>2 DEF Marked, MarkedOrSynced
    <2>2. CASE \A o \in failed : o.rec # q
      BY <1>1, <1>2, <1>3, <1>5, <1>6, <1>7, <1>8, <2>2, MarkedStays
    <2> QED
      BY <2>1, <2>2
  <1>9. CASE AppliedTo # {}
    <2>1. o1 \in inflight[d] /\ o1.rec = q /\ answers[o1.id].status = "applied" /\ o1 \in outbox[d]
      BY <1>1, <1>9 DEF OneChain
    <2>2. \A p \in outbox[d] : p.rec = q => p = o1
      BY <1>1, <2>1 DEF OneChain
    <2>3. o1 \in applied /\ \A p \in outbox'[d] : p.rec # q
      BY <1>3, <2>1, <2>2
    <2>4. dirty'[d][q] = MarkAfter(dirty[d][q], o1.rev)
      BY <1>7, <1>9, <2>2, <2>3
    <2>5. local[d][q].st # "none" /\ dirty[d][q] > 0
      BY <1>1, <2>1, SMTT(60) DEF Marked, HasOps
    <2>6. CASE o1.rev = dirty[d][q]
      <3>1. o1.dead = ~IsLive(d, q) /\ (o1.kind # "delete" => o1.val = local[d][q].val)
        BY <1>1, <2>1, <2>6, SMTT(60) DEF Marked
      <3>2. o1.id \in DOMAIN answers /\ o1 \in Issued
        BY <2>1 DEF Acknowledge, Recorded, Issued
      <3>3. Carries(o1, answers[o1.id].current) /\ (o1.kind = "delete" => o1.dead)
        BY <2>1, <3>2 DEF IdsInv, AnswersMatch
      <3>4. local[d][q] \in Copy
        OBVIOUS
      <3>5. CASE ~MintsType(o1)
        <4>1. Matches(local[d][q], answers[o1.id].current)
          BY <3>1, <3>3, <3>4, <3>5 DEF Matches, Carries, IsLive, CopyOf, Live, Known, Copy
        <4> QED
          BY <1>2, <1>6, <1>9, <2>3, <2>5, <4>1, MarkedClean
      <3>6. CASE MintsType(o1)
        <4>1. ~o1.dead /\ answers[o1.id].rec = q /\ answers[o1.id].kind = "create"
              /\ answers[o1.id].val = o1.val
          BY <2>1, <3>2, <3>6 DEF IdsInv, AnswersMatch, MintsType
        <4>2. local[d][q] = [st |-> "live", val |-> o1.val]
          BY <3>1, <3>4, <3>6, <4>1 DEF IsLive, Copy, MintsType
        <4>3. o1.id[1] = d
          BY <2>1 DEF IdsInv, IdsFresh
        <4>4. KeepsLabel(d, q)'
          <5>1. shadow'[d][q] = answers[o1.id].current /\ Live(answers[o1.id].current)
            BY <1>6, <1>9, <3>3, <4>1 DEF Carries, Live, Known
          <5>2. local'[d][q] = [st |-> "live", val |-> answers[o1.id].val] /\ UNCHANGED answers
            BY <1>2, <4>1, <4>2 DEF Acknowledge, serverVars
          <5> QED
            BY <2>1, <3>2, <3>6, <4>1, <4>3, <5>1, <5>2 DEF KeepsLabel, MintsType, Live
        <4> QED
          BY <1>2, <2>3, <2>5, <4>4 DEF Marked, MarkedOrSynced
      <3> QED
        BY <3>5, <3>6
    <2>7. CASE o1.rev # dirty[d][q]
      BY <1>2, <2>3, <2>4, <2>5, <2>7 DEF MarkAfter, Marked, MarkedOrSynced
    <2> QED
      BY <2>6, <2>7
  <1> QED
    BY <1>8, <1>9

\* What a conflict added, or put in the place of another, is about.
LEMMA ConflictAdded ==
  ASSUME NEW d, NEW q, NEW r, NEW s, conflicts'[d] = conflicts[d] \cup {[rec |-> r, remote |-> s]}
  PROVE  HasConflict(d, q)' <=> HasConflict(d, q) \/ q = r
  <1>1. [rec |-> r, remote |-> s].rec = r
    OBVIOUS
  <1>2. HasConflict(d, q)' <=> \E c \in conflicts'[d] : c.rec = q
    BY DEF HasConflict
  <1> QED
    BY <1>1, <1>2, Zenon DEF HasConflict

LEMMA ConflictReplaced ==
  ASSUME NEW d, NEW q, NEW r, NEW s, HasConflict(d, r),
         conflicts'[d] = {c \in conflicts[d] : c.rec # r} \cup {[rec |-> r, remote |-> s]}
  PROVE  HasConflict(d, q)' <=> HasConflict(d, q)
  <1>1. [rec |-> r, remote |-> s].rec = r
    OBVIOUS
  <1>2. HasConflict(d, q)' <=> \E c \in conflicts'[d] : c.rec = q
    BY DEF HasConflict
  <1>3. CASE q = r
    BY <1>1, <1>2, <1>3, Zenon DEF HasConflict
  <1>4. CASE q # r
    BY <1>1, <1>2, <1>4, Zenon DEF HasConflict
  <1> QED
    BY <1>3, <1>4

\* A server state taken over matches the copy made of it.
LEMMA CopyMatches == ASSUME NEW s, s.ver > 0 PROVE Matches(CopyOf(s), s)
  BY DEF Matches, CopyOf, Live

LEMMA PageMarkInv ==
  ASSUME TypeInv, ChainInv, MarkInv, AnswersGrow, NEW d \in Devices, ApplyPage(d), NEW q \in Records \ Executions
  PROVE  Marked(d, q)'
  <1> USE DEF TypeInv, TypeOK
  <1> DEFINE r == Change(d).rec
             s == Change(d).state
  <1>1. Marked(d, q)
    BY DEF MarkInv
  <1>2. r \in Records /\ s \in State /\ shadow[d][r] \in State
    <2>1. AdvanceCursor(d)
      BY DEF ApplyPage, SkipKnown, UpdateConflict, Converge, RaiseConflict, NoteTombstone, Adopt
    <2>2. cursor[d] + 1 \in 1 .. Len(log)
      BY <2>1 DEF AdvanceCursor, PageIsThere
    <2>3. Change(d) \in Entry
      BY <2>2 DEF Change
    <2> QED
      BY <2>3 DEF Entry
  <1>3. Newer(s, shadow[d][r]) => s.ver > 0
    BY <1>2, SMTT(60) DEF Newer, State
  <1>4. CASE SkipKnown(d)
    BY <1>1, <1>4, MarkedStays DEF SkipKnown, recordVars, HasConflict
  <1>5. CASE UpdateConflict(d)
    <2>1. conflicts'[d] = {c \in conflicts[d] : c.rec # r} \cup {[rec |-> r, remote |-> s]}
      BY <1>5 DEF UpdateConflict
    <2>2. HasConflict(d, r)
      BY <1>5 DEF UpdateConflict
    <2>3. HasConflict(d, q)' <=> HasConflict(d, q)
      BY <2>1, <2>2, ConflictReplaced
    <2> QED
      BY <1>1, <1>5, <2>3, MarkedStays DEF UpdateConflict, recordVars
  <1>6. CASE Converge(d)
    <2>1. /\ UNCHANGED <<local, conflicts>>
          /\ shadow' = [shadow EXCEPT ![d][r] = s]
          /\ dirty' = [dirty EXCEPT ![d][r] = 0]
          /\ outbox' = [outbox EXCEPT ![d] = {o \in @ : o.rec # r}]
      BY <1>6 DEF Converge, PutShadow, ForgetOps
    <2>2. local[d][r] = CopyOf(s) /\ s.ver > 0 /\ local[d][r].st # "none"
      BY <1>3, <1>6 DEF Converge, Converges, IsNews
    <2>3. CASE q = r
      BY <1>2, <2>1, <2>2, <2>3, CopyMatches, MarkedClean, ZenonT(60)
    <2>4. CASE q # r
      BY <1>1, <2>1, <2>4, MarkedStays DEF HasConflict
    <2> QED
      BY <2>3, <2>4
  <1>7. CASE RaiseConflict(d)
    <2>1. /\ UNCHANGED <<local, dirty, shadow>>
          /\ conflicts'[d] = conflicts[d] \cup {[rec |-> r, remote |-> s]}
          /\ outbox'[d] = {o \in outbox[d] : o.rec # r}
          /\ local[d][r].st # "none"
      BY <1>7 DEF RaiseConflict, ForgetOps, recordVars
    <2>2. HasConflict(d, q)' <=> HasConflict(d, q) \/ q = r
      BY <2>1, ConflictAdded
    <2>3. CASE q = r
      BY <2>1, <2>2, <2>3 DEF Marked, MarkedOrSynced
    <2>4. CASE q # r
      BY <1>1, <2>1, <2>2, <2>4, MarkedStays
    <2> QED
      BY <2>3, <2>4
  <1>8. CASE NoteTombstone(d)
    <2>1. /\ UNCHANGED <<local, dirty, outbox, conflicts>> /\ local[d][r].st = "none"
          /\ shadow' = [shadow EXCEPT ![d][r] = s]
      BY <1>8 DEF NoteTombstone, PutShadow, recordVars
    <2>2. CASE q = r
      BY <1>1, <2>1, <2>2 DEF Marked, MarkedOrSynced, HasOps, HasConflict, IsLive
    <2>3. CASE q # r
      BY <1>1, <2>1, <2>3, MarkedStays DEF HasConflict
    <2> QED
      BY <2>2, <2>3
  <1>9. CASE Adopt(d)
    <2>1. /\ UNCHANGED <<dirty, outbox, conflicts>>
          /\ local' = [local EXCEPT ![d][r] = CopyOf(s)]
          /\ shadow' = [shadow EXCEPT ![d][r] = s]
          /\ s.ver > 0
          /\ local[d][r].st = "none" \/ ~Pending(d, r)
      BY <1>3, <1>9 DEF Adopt, PutShadow, IsNews
    <2>2. CASE q = r
      <3>1. \A o \in outbox[d] : o.rec # q
        BY <1>1, <2>1, <2>2 DEF Marked, Pending, HasOps
      <3>2. CopyOf(s).st # "none"
        BY DEF CopyOf
      <3> QED
        BY <1>2, <2>1, <2>2, <3>1, <3>2, CopyMatches, MarkedClean
    <2>3. CASE q # r
      BY <1>1, <2>1, <2>3, MarkedStays DEF HasConflict
    <2> QED
      BY <2>2, <2>3
  <1> QED
    BY <1>4, <1>5, <1>6, <1>7, <1>8, <1>9 DEF ApplyPage

LEMMA ResolveMarkInv ==
  ASSUME TypeInv, ChainInv, MarkInv, AnswersGrow, NEW d \in Devices, Resolve(d), NEW q \in Records \ Executions
  PROVE  Marked(d, q)'
  <1> USE DEF TypeInv, TypeOK
  <1>1. PICK c \in conflicts[d] : KeepLocal(d, c) \/ AcceptRemote(d, c)
    BY DEF Resolve
  <1>2. c.rec \in Records /\ c.remote \in State /\ OneChain(d) /\ Marked(d, q)
    BY DEF Conflict, ChainInv, MarkInv
  <1>3. conflicts'[d] = conflicts[d] \ {c} /\ outbox'[d] = {o \in outbox[d] : o.rec # c.rec}
    BY <1>1 DEF KeepLocal, AcceptRemote, ForgetOps
  <1>4. CASE q # c.rec
    <2>1. local'[d][q] = local[d][q] /\ dirty'[d][q] = dirty[d][q] /\ shadow'[d][q] = shadow[d][q]
      BY <1>1, <1>4 DEF KeepLocal, AcceptRemote
    <2>2. HasConflict(d, q)' <=> HasConflict(d, q)
      BY <1>3, <1>4 DEF HasConflict
    <2> QED
      BY <1>2, <1>3, <2>1, <2>2, MarkedStays
  <1>5. CASE q = c.rec
    <2>1. local[d][q].st # "none"
      BY <1>2, <1>5 DEF Marked, HasConflict
    <2>2. CASE KeepLocal(d, c)
      BY <1>2, <1>3, <1>5, <2>1, <2>2, MarkedBump DEF KeepLocal, Bump
    <2>3. CASE AcceptRemote(d, c)
      <3> DEFINE copy == Accepted(local[d][q], c.remote, shadow[d][q])
                 known == IF Known(c.remote) THEN c.remote ELSE shadow[d][q]
      <3>1. local'[d][q] = copy /\ shadow'[d][q] = known
        BY <1>5, <2>3 DEF AcceptRemote
      <3>2. CASE Known(c.remote)
        <4>1. copy = CopyOf(c.remote)
          BY <2>1, <3>2 DEF Accepted
        <4>2. known = c.remote /\ Matches(copy, known)
          BY <3>2, <4>1, CopyMatches DEF Known
        <4>3. copy.st # "none"
          BY <4>1 DEF CopyOf
        <4> QED
          BY <1>3, <1>5, <3>1, <4>2, <4>3, MarkedClean
      <3>3. CASE ~Known(c.remote) /\ Known(shadow[d][q])
        <4>1. copy = CopyOf(shadow[d][q])
          BY <3>3 DEF Accepted
        <4>2. known = shadow[d][q] /\ Matches(copy, known)
          BY <3>3, <4>1, CopyMatches DEF Known
        <4>3. copy.st # "none"
          BY <4>1 DEF CopyOf
        <4> QED
          BY <1>3, <1>5, <3>1, <4>2, <4>3, MarkedClean
      <3>4. CASE ~Known(c.remote) /\ ~Known(shadow[d][q])
        <4>1. copy.st # "live" /\ copy.st # "none"
          BY <2>1, <3>4 DEF Accepted
        <4>2. Matches(copy, shadow[d][q])
          BY <3>4, <4>1 DEF Matches, Live, Known
        <4> QED
          BY <1>3, <1>5, <3>1, <3>4, <4>1, <4>2, MarkedClean
      <3> QED
        BY <3>2, <3>3, <3>4
    <2> QED
      BY <1>1, <2>2, <2>3
  <1> QED
    BY <1>4, <1>5

LEMMA NextMarkInv == ASSUME TypeInv, ChainInv, IdsInv, MarkInv, [Next]_vars PROVE MarkInv'
  <1> USE DEF TypeInv, TypeOK
  <1>0. AnswersGrow
    BY NextAnswers
  <1>1. ASSUME UNCHANGED <<local, dirty, shadow, outbox, conflicts>> PROVE MarkInv'
    BY <1>0, <1>1, MarkedStays DEF MarkInv, HasConflict
  <1>2. ASSUME NEW d \in Devices, \A q \in Records \ Executions : Marked(d, q)',
               \A e \in Devices \ {d} : /\ local'[e] = local[e] /\ dirty'[e] = dirty[e] /\ shadow'[e] = shadow[e]
                                        /\ outbox'[e] = outbox[e] /\ conflicts'[e] = conflicts[e]
        PROVE  MarkInv'
    BY <1>0, <1>2, MarkedStays DEF MarkInv, HasConflict
  <1>3. CASE UNCHANGED vars \/ ServerStep
    BY <1>1, <1>3 DEF vars, recordVars, storeVars, ServerStep, AnswerAgain, ApplyOp, AcceptUnchanged, ConflictOp,
                      RejectOp, Receive
  <1>4. ASSUME NEW d \in Devices, PushRound(d) PROVE MarkInv'
    BY <1>0, <1>2, <1>4, PushMarkInv DEF PushRound
  <1>5. ASSUME NEW d \in Devices, Acknowledge(d) PROVE MarkInv'
    BY <1>0, <1>2, <1>5, AckMarkInv DEF Acknowledge
  <1>6. ASSUME NEW d \in Devices, ApplyPage(d) PROVE MarkInv'
    <2>1. \A e \in Devices \ {d} : /\ local'[e] = local[e] /\ dirty'[e] = dirty[e] /\ shadow'[e] = shadow[e]
                                   /\ outbox'[e] = outbox[e] /\ conflicts'[e] = conflicts[e]
      BY <1>6 DEF ApplyPage, SkipKnown, UpdateConflict, Converge, RaiseConflict, NoteTombstone, Adopt,
                  PutShadow, ForgetOps, recordVars
    <2> QED
      BY <1>0, <1>2, <1>6, <2>1, PageMarkInv
  <1>7. ASSUME NEW d \in Devices, Resolve(d) PROVE MarkInv'
    <2>1. \A e \in Devices \ {d} : /\ local'[e] = local[e] /\ dirty'[e] = dirty[e] /\ shadow'[e] = shadow[e]
                                   /\ outbox'[e] = outbox[e] /\ conflicts'[e] = conflicts[e]
      BY <1>7 DEF Resolve, KeepLocal, AcceptRemote, ForgetOps
    <2> QED
      BY <1>0, <1>2, <1>7, <2>1, ResolveMarkInv
  <1>8. ASSUME NEW d \in Devices, SyncStep(d) PROVE MarkInv'
    <2>1. CASE Begin(d) \/ StopPushing(d) \/ StartPull(d) \/ FetchPage(d) \/ TimeOut(d)
      BY <1>1, <2>1 DEF Begin, StopPushing, StartPull, FetchPage, TimeOut, EndRun, recordVars, storeVars
    <2> QED
      BY <1>4, <1>5, <1>6, <1>8, <2>1 DEF SyncStep
  <1>9. ASSUME NEW d \in Devices, NEW o \in inflight[d], Refuse(d, o) PROVE MarkInv'
    <2>1. /\ UNCHANGED <<local, dirty, shadow>>
          /\ outbox' = [outbox EXCEPT ![d] = {p \in @ : p.rec # o.rec}]
          /\ conflicts' = [conflicts EXCEPT ![d] = @ \cup {[rec |-> o.rec, remote |-> Absent]}]
      BY <1>9 DEF Refuse, recordVars
    <2>2. OneChain(d) /\ o \in outbox[d]
      BY <1>9 DEF ChainInv, OneChain
    <2>3. ASSUME NEW q \in Records \ Executions PROVE Marked(d, q)'
      <3>1. Marked(d, q)
        BY DEF MarkInv
      <3>2. conflicts'[d] = conflicts[d] \cup {[rec |-> o.rec, remote |-> Absent]}
        BY <2>1
      <3>5. HasConflict(d, q)' <=> HasConflict(d, q) \/ q = o.rec
        BY <3>2, ConflictAdded
      <3>3. CASE q = o.rec
        <4>1. local[d][q].st # "none"
          BY <2>2, <3>1, <3>3 DEF Marked, HasOps
        <4> QED
          BY <2>1, <3>5, <3>3, <4>1 DEF Marked, MarkedOrSynced
      <3>4. CASE q # o.rec
        BY <1>0, <2>1, <3>1, <3>4, <3>5, MarkedStays
      <3> QED
        BY <3>3, <3>4
    <2> QED
      BY <1>2, <2>1, <2>3
  <1>10. CASE FaultStep
    BY <1>1, <1>9, <1>10 DEF FaultStep, LoseRequest, Interrupt, EndRun, recordVars, storeVars
  <1> QED
    BY <1>0, <1>3, <1>7, <1>8, <1>10, UserMarkInv DEF Next

-----------------------------------------------------------------------------
LEMMA InitMarkInv == Init => ChainInv /\ IdsInv /\ MarkInv
  BY DEF Init, ChainInv, OneChain, IdsInv, IdsFresh, AnswersMatch, Issued, MarkInv, Marked, MarkedOrSynced,
         HasOps, HasConflict, NoCopy

LEMMA MarksCorrect == Spec => []MarkInv
  BY InitTypeInv, InitMarkInv, NextTypeInv, NextChainInv, NextIdsInv, NextMarkInv, PTL DEF Spec

\* A local copy that differs from the last state acknowledged carries a mark or an open
\* conflict, or is a task type still named as it was minted here: nothing a user changed
\* is forgotten, whatever is lost, late or retried.
THEOREM NoChangeForgotten == Spec => []UnsyncedIsMarked
  <1>1. MarkInv => UnsyncedIsMarked
    BY DEF MarkInv, Marked, UnsyncedIsMarked
  <1> QED
    BY <1>1, MarksCorrect, PTL

\* An operation at the mark's revision carries the content the record has now, so the
\* mark may go with its answer.
THEOREM OpsCarryTheCopy == Spec => []OpMatchesLocal
  <1>1. ASSUME TypeInv, MarkInv PROVE OpMatchesLocal
    <2> SUFFICES ASSUME NEW d \in Devices, NEW o \in outbox[d], o.rec \notin Executions, o.rev = dirty[d][o.rec]
                 PROVE  /\ o.dead = ~IsLive(d, o.rec)
                        /\ o.kind # "delete" => o.val = local[d][o.rec].val
      BY DEF OpMatchesLocal
    <2>1. o.rec \in Records
      BY <1>1 DEF TypeInv, TypeOK, Op
    <2> QED
      BY <1>1, <2>1 DEF MarkInv, Marked
  <1> QED
    BY <1>1, MarksCorrect, InitTypeInv, NextTypeInv, PTL DEF Spec
=============================================================================
