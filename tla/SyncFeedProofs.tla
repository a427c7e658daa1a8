---------------------------- MODULE SyncFeedProofs ----------------------------
(***************************************************************************)
(* What a device knows of the server, for every number of devices and      *)
(* records and every bound.                                                *)
(*                                                                         *)
(* The feed is the history of the records (FeedOrder), and everything a    *)
(* device or a recorded outcome says of a record is a state of that        *)
(* history (Seen).  The operations sent are answered before the feed is    *)
(* read (SentInv): sync_now pushes first, and a run that was cut short     *)
(* sends the same operations again, because they are the oldest.  So an    *)
(* operation and its outcome can be compared with what the device had      *)
(* acknowledged (KnownInv): what it acknowledges next is never older, a    *)
(* push never overwrites a state its device had not seen, and the feed     *)
(* never shows a device its own change as somebody else's.                 *)
(***************************************************************************)
EXTENDS SyncProtocolProofs

-----------------------------------------------------------------------------
(* What a step does to one record of one device.                            *)

OpsOf(d, r) == {o \in outbox[d] : o.rec = r}
DisputesOf(d, r) == {c \in conflicts[d] : c.rec = r}
Dispute(r, s) == [rec |-> r, remote |-> s]

SameCopy(d, r) == local'[d][r] = local[d][r]
SameMark(d, r) == dirty'[d][r] = dirty[d][r]
SameBase(d, r) == shadow'[d][r] = shadow[d][r]
SameOps(d, r) == OpsOf(d, r)' = OpsOf(d, r)
SameDisputes(d, r) == DisputesOf(d, r)' = DisputesOf(d, r)

ServerSame == UNCHANGED <<server, log, answers>>

Same(d, r) ==
    SameCopy(d, r) /\ SameMark(d, r) /\ SameBase(d, r) /\ SameOps(d, r) /\ SameDisputes(d, r)

\* The user creates, changes, deletes or resets the copy.
Worked(d, r) ==
    /\ SameBase(d, r) /\ SameOps(d, r) /\ SameDisputes(d, r)
    /\ dirty'[d][r] = dirty[d][r] + 1 /\ writes' = writes + 1 /\ ServerSame
    /\ \/ local[d][r].st = "none" /\ local'[d][r].st = "live" /\ Mintable(r) /\ r \in born'
       \/ local[d][r].st = "live" /\ local'[d][r].st \in {"live", "dead"}
       \/ r \in Executions /\ local[d][r].st # "none" /\ local'[d][r].st = "none"

\* prepare() queues an operation, clears a mark, or finds a conflict.
Queued(d, r) ==
    /\ SameCopy(d, r) /\ SameMark(d, r) /\ SameBase(d, r) /\ SameDisputes(d, r)
    /\ OpsOf(d, r) = {} /\ OpsOf(d, r)' = {NewOp(d, r)} /\ DisputesOf(d, r) = {}
    /\ NewOp(d, r) \in NewOps(d)
Forgot(d, r) ==
    /\ SameCopy(d, r) /\ SameBase(d, r) /\ SameOps(d, r) /\ SameDisputes(d, r)
    /\ r \in ToForget(d) /\ dirty'[d][r] = 0
Disputed(d, r) ==
    /\ SameCopy(d, r) /\ SameMark(d, r) /\ SameBase(d, r) /\ SameOps(d, r)
    /\ r \in ToDispute(d)
    /\ OpsOf(d, r) = {} /\ DisputesOf(d, r) = {}
    /\ DisputesOf(d, r)' = {Dispute(r, shadow[d][r])}

\* The operation of the record is answered or refused.
Applied(d, r) ==
    /\ SameCopy(d, r) /\ DisputesOf(d, r) = {} /\ DisputesOf(d, r)' = {}
    /\ \E o \in inflight[d] :
        /\ OpsOf(d, r) = {o} /\ OpsOf(d, r)' = {}
        /\ Recorded(o) /\ answers[o.id].status = "applied"
        /\ shadow'[d][r] = answers[o.id].current
        /\ dirty'[d][r] = MarkAfter(dirty[d][r], o.rev)
Failed(d, r) ==
    /\ SameCopy(d, r) /\ SameMark(d, r) /\ SameBase(d, r)
    /\ \E o \in inflight[d] :
        /\ OpsOf(d, r) = {o} /\ OpsOf(d, r)' = {}
        /\ Recorded(o) /\ answers[o.id].status # "applied"
        /\ DisputesOf(d, r) = {}
        /\ DisputesOf(d, r)' = {Dispute(r, answers[o.id].current)}
Refused(d, r) ==
    /\ SameCopy(d, r) /\ SameMark(d, r) /\ SameBase(d, r)
    /\ \E o \in inflight[d] : OpsOf(d, r) = {o} /\ OpsOf(d, r)' = {} /\ ~Recorded(o) /\ o \notin requests'
    /\ DisputesOf(d, r) = {}
    /\ DisputesOf(d, r)' = {Dispute(r, Absent)}

\* A page brings a newer state.
News(d, r, s) ==
    /\ phase[d] = "page" /\ cursor[d] + 1 \in DOMAIN log
    /\ log[cursor[d] + 1] = [rec |-> r, state |-> s]
    /\ s \in State /\ s.ver > shadow[d][r].ver
Updated(d, r) ==
    /\ SameCopy(d, r) /\ SameMark(d, r) /\ SameBase(d, r) /\ SameOps(d, r)
    /\ DisputesOf(d, r) # {} /\ OpsOf(d, r) = {}
    /\ \E s : News(d, r, s) /\ DisputesOf(d, r)' = {Dispute(r, s)}
Converged(d, r) ==
    /\ SameCopy(d, r) /\ DisputesOf(d, r) = {} /\ DisputesOf(d, r)' = {}
    /\ dirty'[d][r] = 0 /\ OpsOf(d, r)' = {}
    /\ local[d][r].st # "none" /\ Pending(d, r) /\ r \in Derived
    /\ \E s : News(d, r, s) /\ local[d][r] = CopyOf(s) /\ shadow'[d][r] = s
Raised(d, r) ==
    /\ SameCopy(d, r) /\ SameMark(d, r) /\ SameBase(d, r)
    /\ local[d][r].st # "none" /\ Pending(d, r)
    /\ OpsOf(d, r)' = {} /\ DisputesOf(d, r) = {}
    /\ \E s : News(d, r, s) /\ DisputesOf(d, r)' = {Dispute(r, s)}
Noted(d, r) ==
    /\ SameCopy(d, r) /\ SameMark(d, r) /\ SameOps(d, r) /\ SameDisputes(d, r)
    /\ DisputesOf(d, r) = {} /\ local[d][r].st = "none" /\ r \notin Derived
    /\ \E s : News(d, r, s) /\ s.dead /\ shadow'[d][r] = s
Adopted(d, r) ==
    /\ SameMark(d, r) /\ SameOps(d, r) /\ SameDisputes(d, r)
    /\ DisputesOf(d, r) = {}
    /\ local[d][r].st = "none" \/ ~Pending(d, r)
    /\ \E s : News(d, r, s) /\ local'[d][r] = CopyOf(s) /\ shadow'[d][r] = s
              /\ (local[d][r].st = "none" /\ s.dead => r \in Derived)

\* The user decides the conflict.
Kept(d, r) ==
    /\ SameCopy(d, r) /\ dirty'[d][r] = dirty[d][r] + 1
    /\ OpsOf(d, r) = {} /\ OpsOf(d, r)' = {} /\ DisputesOf(d, r)' = {}
    /\ \E c \in conflicts[d] :
        /\ DisputesOf(d, r) = {c} /\ ~c.remote.dead
        /\ shadow'[d][r] = IF Known(c.remote) THEN c.remote ELSE shadow[d][r]
TookRemote(d, r) ==
    /\ dirty'[d][r] = 0
    /\ OpsOf(d, r) = {} /\ OpsOf(d, r)' = {} /\ DisputesOf(d, r)' = {}
    /\ \E c \in conflicts[d] :
        /\ DisputesOf(d, r) = {c}
        /\ local'[d][r] = Accepted(local[d][r], c.remote, shadow[d][r])
        /\ shadow'[d][r] = IF Known(c.remote) THEN c.remote ELSE shadow[d][r]

PageStep(d, r) == Updated(d, r) \/ Converged(d, r) \/ Raised(d, r) \/ Noted(d, r) \/ Adopted(d, r)
AnswerStep(d, r) == Applied(d, r) \/ Failed(d, r) \/ Refused(d, r)
PrepareStep(d, r) == Queued(d, r) \/ Forgot(d, r) \/ Disputed(d, r)

RecordStep(d, r) ==
    \/ Same(d, r) \/ Worked(d, r)
    \/ PrepareStep(d, r) \/ AnswerStep(d, r) \/ PageStep(d, r)
    \/ Kept(d, r) \/ TookRemote(d, r)

LEMMA SameRecord ==
  ASSUME NEW d \in Devices, NEW r \in Records,
         local'[d] = local[d], dirty'[d] = dirty[d], shadow'[d] = shadow[d],
         outbox'[d] = outbox[d], conflicts'[d] = conflicts[d]
  PROVE  Same(d, r)
  BY DEF Same, SameCopy, SameMark, SameBase, SameOps, SameDisputes, OpsOf, DisputesOf

LEMMA UserRecords ==
  ASSUME TypeInv, UserStep, NEW d \in Devices, NEW r \in Records
  PROVE  Same(d, r) \/ Worked(d, r)
  <1> USE DEF TypeInv, TypeOK
  <1>0. UNCHANGED <<shadow, outbox, conflicts>>
    BY DEF UserStep, Create, Edit, Delete, ResetHistory, WriteLocal, WebCreate, WebUpdate, WebDelete,
           WebWrite, storeVars
  <1>1. SameBase(d, r) /\ SameOps(d, r) /\ SameDisputes(d, r)
    BY <1>0 DEF SameBase, SameOps, SameDisputes, OpsOf, DisputesOf
  <1>2. ASSUME NEW e \in Devices, NEW q \in Records, NEW copy, WriteLocal(e, q, copy), ~(e = d /\ q = r)
        PROVE  Same(d, r)
    <2>1. local'[d][r] = local[d][r] /\ dirty'[d][r] = dirty[d][r]
      BY <1>2 DEF WriteLocal
    <2> QED
      BY <1>1, <2>1 DEF Same, SameCopy, SameMark
  <1>3. ASSUME NEW copy, WriteLocal(d, r, copy)
        PROVE  local'[d][r] = copy /\ dirty'[d][r] = dirty[d][r] + 1 /\ ServerSame
    BY <1>3 DEF WriteLocal, Bump, serverVars, ServerSame
  <1>4. ASSUME NEW e \in Devices, NEW q \in Records, NEW v \in Values, Create(e, q, v) PROVE Same(d, r) \/ Worked(d, r)
    <2>1. CASE e = d /\ q = r
      BY <1>1, <1>3, <1>4, <2>1 DEF Create, Write, Worked
    <2> QED
      BY <1>2, <1>4, <2>1 DEF Create
  <1>5. ASSUME NEW e \in Devices, NEW q \in Records, NEW v \in Values, Edit(e, q, v) PROVE Same(d, r) \/ Worked(d, r)
    <2>1. CASE e = d /\ q = r
      BY <1>1, <1>3, <1>5, <2>1 DEF Edit, Write, Worked
    <2> QED
      BY <1>2, <1>5, <2>1 DEF Edit
  <1>6. ASSUME NEW e \in Devices, NEW q \in Records, Delete(e, q) PROVE Same(d, r) \/ Worked(d, r)
    <2>1. CASE e = d /\ q = r
      BY <1>1, <1>3, <1>6, <2>1 DEF Delete, Write, Worked
    <2> QED
      BY <1>2, <1>6, <2>1 DEF Delete
  <1>7. ASSUME NEW e \in Devices, ResetHistory(e) PROVE Same(d, r) \/ Worked(d, r)
    <2>1. CASE e = d /\ r \in Executions /\ local[d][r].st # "none"
      <3>1. local'[d][r] = NoCopy /\ dirty'[d][r] = dirty[d][r] + 1
        BY <1>7, <2>1 DEF ResetHistory, Bump
      <3>2. writes' = writes + 1 /\ ServerSame
        BY <1>7 DEF ResetHistory, Write, serverVars, ServerSame
      <3> QED
        BY <1>1, <2>1, <3>1, <3>2 DEF Worked, NoCopy
    <2>2. CASE ~(e = d /\ r \in Executions /\ local[d][r].st # "none")
      <3>1. local'[d][r] = local[d][r] /\ dirty'[d][r] = dirty[d][r]
        BY <1>7, <2>2 DEF ResetHistory
      <3> QED
        BY <1>1, <3>1 DEF Same, SameCopy, SameMark
    <2> QED
      BY <2>1, <2>2
  <1>8. ASSUME UNCHANGED <<local, dirty>> PROVE Same(d, r)
    BY <1>1, <1>8 DEF Same, SameCopy, SameMark
  <1> QED
    BY <1>4, <1>5, <1>6, <1>7, <1>8 DEF UserStep, WebCreate, WebUpdate, WebDelete, WebWrite, recordVars

LEMMA PushRecords ==
  ASSUME TypeInv, ChainInv, NEW e \in Devices, PushRound(e), NEW d \in Devices, NEW r \in Records
  PROVE  Same(d, r) \/ PrepareStep(d, r)
  <1> USE DEF TypeInv, TypeOK
  <1> DEFINE new == {[rec |-> q, remote |-> shadow[d][q]] : q \in ToDispute(d)}
             marks == [q \in Records |-> IF q \in ToForget(d) THEN 0 ELSE dirty[d][q]]
  <1>1. CASE e # d
    BY <1>1, SameRecord DEF PushRound
  <1>2. CASE e = d
    <2>1. /\ UNCHANGED <<local, shadow>>
          /\ outbox'[d] = outbox[d] \cup NewOps(d)
          /\ dirty'[d] = marks
          /\ conflicts'[d] = conflicts[d] \cup new
      BY <1>2 DEF PushRound
    <2>2. SameCopy(d, r) /\ SameBase(d, r)
      BY <2>1 DEF SameCopy, SameBase
    <2>3. \A o \in NewOps(d) : o.rec = r =>
             /\ r \in ToCreate(d) \cup ToUpdate(d) \cup ToDelete(d)
             /\ o = NewOp(d, r)
             /\ ~Waiting(d, r)
      <3>1. ASSUME NEW o \in NewOps(d)
            PROVE  \E q \in ToCreate(d) \cup ToUpdate(d) \cup ToDelete(d) : o = NewOp(d, q) /\ o.rec = q
        <4>1. PICK q \in ToCreate(d) \cup ToUpdate(d) \cup ToDelete(d) : o = NewOp(d, q)
          BY Zenon DEF NewOps
        <4>2. NewOp(d, q).rec = q
          BY DEF NewOp
        <4> QED
          BY <4>1, <4>2
      <3>2. ASSUME NEW o \in NewOps(d)
            PROVE  o = NewOp(d, o.rec) /\ ~Waiting(d, o.rec)
        BY NewOpFacts, Zenon
      <3> QED
        BY <3>1, <3>2, ZenonT(60)
    <2>4. r \in ToCreate(d) \cup ToUpdate(d) \cup ToDelete(d) => NewOp(d, r) \in NewOps(d) /\ NewOp(d, r).rec = r
      BY DEF NewOps, NewOp
    <2>5. /\ \A c \in new : c.rec = r => r \in ToDispute(d) /\ c = Dispute(r, shadow[d][r])
          /\ r \in ToDispute(d) => Dispute(r, shadow[d][r]) \in new
      BY DEF Dispute
    <2>6. r \in ToForget(d) => r \notin ToCreate(d) \cup ToUpdate(d) \cup ToDelete(d) \cup ToDispute(d)
      BY DEF ToForget, ToCreate, ToUpdate, ToDelete, ToDispute, Changed, Purged, Live, Known, IsLive, NothingToSend
    <2>7. r \in ToDispute(d) => r \notin ToCreate(d) \cup ToUpdate(d) \cup ToDelete(d) /\ ~Waiting(d, r)
      BY DEF ToCreate, ToUpdate, ToDelete, ToDispute, Changed, Purged, Live, Known, IsLive
    <2>8. ~Waiting(d, r) => OpsOf(d, r) = {} /\ DisputesOf(d, r) = {}
      BY DEF Waiting, HasOps, HasConflict, OpsOf, DisputesOf
    <2> HIDE DEF new
    <2>9. CASE r \in ToCreate(d) \cup ToUpdate(d) \cup ToDelete(d)
      <3>1. NewOp(d, r) \in NewOps(d) /\ NewOp(d, r).rec = r /\ ~Waiting(d, r)
        BY <2>3, <2>4, <2>9
      <3>2. OpsOf(d, r) = {} /\ DisputesOf(d, r) = {} /\ r \notin ToDispute(d) /\ r \notin ToForget(d)
        BY <2>6, <2>7, <2>8, <2>9, <3>1
      <3>3. OpsOf(d, r)' = {NewOp(d, r)}
        BY <2>1, <2>3, <3>1, <3>2 DEF OpsOf
      <3>4. DisputesOf(d, r)' = DisputesOf(d, r)
        BY <2>1, <2>5, <3>2 DEF DisputesOf
      <3>5. dirty'[d][r] = dirty[d][r]
        BY <2>1, <3>2
      <3> QED
        BY <2>2, <3>1, <3>2, <3>3, <3>4, <3>5 DEF PrepareStep, Queued, SameMark, SameDisputes
    <2>10. CASE r \notin ToCreate(d) \cup ToUpdate(d) \cup ToDelete(d)
      <3>1. SameOps(d, r)
        BY <2>1, <2>3, <2>10 DEF SameOps, OpsOf
      <3>2. CASE r \in ToDispute(d)
        <4>1. DisputesOf(d, r)' = {Dispute(r, shadow[d][r])}
          <5>1. DisputesOf(d, r) = {}
            BY <2>7, <2>8, <3>2
          <5>2. Dispute(r, shadow[d][r]).rec = r
            BY DEF Dispute
          <5> QED
            BY <2>1, <2>5, <3>2, <5>1, <5>2 DEF DisputesOf
        <4>2. dirty'[d][r] = dirty[d][r]
          BY <2>1, <2>6, <3>2
        <4> QED
          BY <2>2, <2>7, <2>8, <3>1, <3>2, <4>1, <4>2 DEF PrepareStep, Disputed, SameMark
      <3>3. CASE r \notin ToDispute(d)
        <4>1. SameDisputes(d, r)
          BY <2>1, <2>5, <3>3 DEF SameDisputes, DisputesOf
        <4>2. CASE r \in ToForget(d)
          BY <2>1, <2>2, <3>1, <4>1, <4>2 DEF PrepareStep, Forgot
        <4>3. CASE r \notin ToForget(d)
          BY <2>1, <2>2, <3>1, <4>1, <4>3 DEF Same, SameMark
        <4> QED
          BY <4>2, <4>3
      <3> QED
        BY <3>2, <3>3
    <2> QED
      BY <2>9, <2>10
  <1> QED
    BY <1>1, <1>2

LEMMA AckRecords ==
  ASSUME TypeInv, ChainInv, NEW e \in Devices, Acknowledge(e), NEW d \in Devices, NEW r \in Records
  PROVE  Same(d, r) \/ Applied(d, r) \/ Failed(d, r)
  <1> USE DEF TypeInv, TypeOK
  <1> DEFINE applied == {o \in inflight[d] : answers[o.id].status = "applied"}
             failed == inflight[d] \ applied
             AppliedTo == {o \in applied : o.rec = r}
             o1 == CHOOSE o \in AppliedTo : TRUE
             new == {[rec |-> o.rec, remote |-> answers[o.id].current] : o \in failed}
  <1>1. CASE e # d
    BY <1>1, SameRecord DEF Acknowledge
  <1>2. CASE e = d
    <2>1. /\ SameCopy(d, r)
          /\ \A o \in inflight[d] : Recorded(o) /\ o \in outbox[d]
          /\ outbox'[d] = {p \in outbox[d] \ applied : \A o \in failed : p.rec # o.rec}
          /\ conflicts'[d] = conflicts[d] \cup new
          /\ shadow'[d][r] = IF AppliedTo = {} THEN shadow[d][r] ELSE answers[o1.id].current
          /\ dirty'[d][r] = IF AppliedTo = {} \/ \E p \in outbox[d] \ applied : p.rec = r THEN dirty[d][r]
                            ELSE MarkAfter(dirty[d][r], o1.rev)
      BY <1>2 DEF Acknowledge, SameCopy, ChainInv, OneChain
    <2>2. OneChain(d)
      BY DEF ChainInv
    <2>3. \A c \in new : \E o \in failed : c = Dispute(o.rec, answers[o.id].current)
      BY DEF Dispute
    <2>4. \A o \in failed : Dispute(o.rec, answers[o.id].current) \in new
      BY DEF Dispute
    <2>5. conflicts'[d] = conflicts[d] \cup new
      BY <2>1
    <2>9. \A c \in new : \E o \in failed : c.rec = o.rec /\ c = Dispute(o.rec, answers[o.id].current)
      BY DEF Dispute
    <2>10. \A o \in failed : Dispute(o.rec, answers[o.id].current).rec = o.rec
      BY DEF Dispute
    <2> HIDE DEF new
    <2>6. CASE AppliedTo # {}
      <3>1. o1 \in inflight[d] /\ o1.rec = r /\ answers[o1.id].status = "applied" /\ o1 \in outbox[d] /\ Recorded(o1)
        BY <2>1, <2>6
      <3>2. OpsOf(d, r) = {o1} /\ DisputesOf(d, r) = {}
        BY <2>2, <3>1 DEF OneChain, OpsOf, DisputesOf
      <3>3. \A p \in outbox[d] \ applied : p.rec # r
        BY <2>2, <3>1 DEF OneChain
      <3>4. \A o \in failed : o.rec # r
        BY <2>1, <3>3
      <3>5. OpsOf(d, r)' = {}
        BY <2>1, <3>3 DEF OpsOf
      <3>6. DisputesOf(d, r)' = {}
        <4>1. \A c \in conflicts[d] : c.rec # r
          BY <3>2 DEF DisputesOf
        <4>2. \A c \in conflicts'[d] : c.rec # r
          BY <2>5, <2>9, <3>4, <4>1, ZenonT(60)
        <4> QED
          BY <4>2 DEF DisputesOf
      <3>7. shadow'[d][r] = answers[o1.id].current /\ dirty'[d][r] = MarkAfter(dirty[d][r], o1.rev)
        BY <2>1, <2>6, <3>3
      <3> HIDE DEF o1
      <3> QED
        BY <2>1, <3>1, <3>2, <3>5, <3>6, <3>7, SMTT(60) DEF Applied
    <2>7. CASE AppliedTo = {} /\ \E o \in failed : o.rec = r
      <3>1. PICK o \in failed : o.rec = r
        BY <2>7, SMTT(60)
      <3>2. o \in inflight[d] /\ o \in outbox[d] /\ answers[o.id].status # "applied" /\ Recorded(o)
        BY <2>1, <3>1
      <3>3. OpsOf(d, r) = {o} /\ DisputesOf(d, r) = {}
        BY <2>2, <3>1, <3>2 DEF OneChain, OpsOf, DisputesOf
      <3>4. OpsOf(d, r)' = {}
        BY <2>1, <3>1 DEF OpsOf
      <3>5. \A p \in failed : p.rec = r => p = o
        BY <2>1, <2>2, <3>1, <3>2 DEF OneChain
      <3>6. DisputesOf(d, r)' = {Dispute(r, answers[o.id].current)}
        <4>1. Dispute(r, answers[o.id].current) \in conflicts'[d] /\ Dispute(r, answers[o.id].current).rec = r
          BY <2>4, <2>5, <2>10, <3>1
        <4>2. \A c \in conflicts'[d] : c.rec = r => c = Dispute(r, answers[o.id].current)
          <5>1. \A c \in conflicts[d] : c.rec # r
            BY <3>3 DEF DisputesOf
          <5>2. ASSUME NEW c \in conflicts'[d], c.rec = r PROVE c = Dispute(r, answers[o.id].current)
            <6>1. PICK p \in failed : c.rec = p.rec /\ c = Dispute(p.rec, answers[p.id].current)
              BY <2>5, <2>9, <5>1, <5>2
            <6>2. p = o
              BY <3>5, <5>2, <6>1
            <6> QED
              BY <3>1, <6>1, <6>2
          <5> QED
            BY <5>2
        <4> QED
          BY <4>1, <4>2 DEF DisputesOf
      <3>7. SameMark(d, r) /\ SameBase(d, r)
        BY <2>1, <2>7 DEF SameMark, SameBase
      <3> QED
        BY <2>1, <3>2, <3>3, <3>4, <3>6, <3>7 DEF Failed
    <2>8. CASE AppliedTo = {} /\ \A o \in failed : o.rec # r
      <3>1. \A p \in outbox[d] : p.rec = r => p \notin applied
        BY <2>8
      <3>2. SameOps(d, r)
        BY <2>1, <2>8, <3>1 DEF SameOps, OpsOf
      <3>3. SameDisputes(d, r)
        BY <2>5, <2>8, <2>9, Zenon DEF SameDisputes, DisputesOf
      <3> QED
        BY <2>1, <2>8, <3>2, <3>3 DEF Same, SameMark, SameBase
    <2> QED
      BY <2>6, <2>7, <2>8, SMTT(60)
  <1> QED
    BY <1>1, <1>2, SMTT(60)

LEMMA RefuseRecords ==
  ASSUME TypeInv, ChainInv, NEW e \in Devices, NEW o \in inflight[e], Refuse(e, o), NEW d \in Devices, NEW r \in Records
  PROVE  Same(d, r) \/ Refused(d, r)
  <1> USE DEF TypeInv, TypeOK
  <1>1. CASE e # d
    BY <1>1, SameRecord DEF Refuse, recordVars
  <1>2. CASE e = d
    <2>1. /\ SameCopy(d, r) /\ SameMark(d, r) /\ SameBase(d, r)
          /\ outbox'[d] = {p \in outbox[d] : p.rec # o.rec}
          /\ conflicts'[d] = conflicts[d] \cup {Dispute(o.rec, Absent)}
          /\ ~Recorded(o) /\ o \notin requests' /\ o \in outbox[d]
      BY <1>2 DEF Refuse, recordVars, SameCopy, SameMark, SameBase, Dispute, ChainInv, OneChain
    <2>2. OneChain(d)
      BY DEF ChainInv
    <2>3. Dispute(o.rec, Absent).rec = o.rec
      BY DEF Dispute
    <2>4. CASE o.rec = r
      <3>1. OpsOf(d, r) = {o} /\ DisputesOf(d, r) = {} /\ OpsOf(d, r)' = {}
        BY <2>1, <2>2, <2>4 DEF OneChain, OpsOf, DisputesOf
      <3>2. DisputesOf(d, r)' = {Dispute(r, Absent)}
        BY <2>1, <2>3, <2>4, <3>1 DEF DisputesOf
      <3> QED
        BY <1>2, <2>1, <3>1, <3>2 DEF Refused
    <2>5. CASE o.rec # r
      BY <2>1, <2>3, <2>5 DEF Same, SameOps, SameDisputes, OpsOf, DisputesOf
    <2> QED
      BY <2>4, <2>5
  <1> QED
    BY <1>1, <1>2

LEMMA PageRecords ==
  ASSUME TypeInv, ChainInv, NEW e \in Devices, ApplyPage(e), NEW d \in Devices, NEW r \in Records
  PROVE  Same(d, r) \/ PageStep(d, r)
  <1> USE DEF TypeInv, TypeOK
  <1> DEFINE s == Change(d).state
  <1>0. ASSUME e # d PROVE Same(d, r)
    BY <1>0, SameRecord DEF ApplyPage, SkipKnown, UpdateConflict, Converge, RaiseConflict, NoteTombstone, Adopt,
                            PutShadow, ForgetOps, recordVars
  <1>1. CASE e = d /\ Change(d).rec # r
    <2>1. \A c \in conflicts'[d] \ conflicts[d] : c.rec # r
      BY <1>1 DEF ApplyPage, SkipKnown, UpdateConflict, Converge, RaiseConflict, NoteTombstone, Adopt
    <2>2. \A c \in conflicts[d] : c.rec = r => c \in conflicts'[d]
      BY <1>1 DEF ApplyPage, SkipKnown, UpdateConflict, Converge, RaiseConflict, NoteTombstone, Adopt
    <2>3. SameDisputes(d, r)
      BY <2>1, <2>2 DEF SameDisputes, DisputesOf
    <2>4. SameOps(d, r) /\ SameCopy(d, r) /\ SameMark(d, r) /\ SameBase(d, r)
      BY <1>1 DEF ApplyPage, SkipKnown, UpdateConflict, Converge, RaiseConflict, NoteTombstone, Adopt, PutShadow,
                  ForgetOps, recordVars, SameOps, SameCopy, SameMark, SameBase, OpsOf
    <2> QED
      BY <2>3, <2>4 DEF Same
  <1>2. CASE e = d /\ Change(d).rec = r
    <2>0. OneChain(d)
      BY DEF ChainInv
    <2>1. AdvanceCursor(d)
      BY <1>2 DEF ApplyPage, SkipKnown, UpdateConflict, Converge, RaiseConflict, NoteTombstone, Adopt
    <2>2. phase[d] = "page" /\ cursor[d] + 1 \in DOMAIN log /\ Change(d) = log[cursor[d] + 1] /\ Change(d) \in Entry
      BY <2>1 DEF AdvanceCursor, PageIsThere, Change
    <2>3. log[cursor[d] + 1] = [rec |-> r, state |-> s] /\ s \in State
      BY <1>2, <2>2 DEF Entry
    <2>4. ASSUME Newer(s, shadow[d][r]) PROVE News(d, r, s)
      BY <2>2, <2>3, <2>4 DEF News, Newer
    <2>5. ~HasConflict(d, r) => DisputesOf(d, r) = {}
      BY DEF HasConflict, DisputesOf
    <2> HIDE DEF s
    <2>6. CASE SkipKnown(d)
      BY <2>6 DEF SkipKnown, recordVars, Same, SameCopy, SameMark, SameBase, SameOps, SameDisputes, OpsOf, DisputesOf
    <2>7. CASE UpdateConflict(d)
      <3>1. conflicts'[d] = {c \in conflicts[d] : c.rec # r} \cup {Dispute(r, s)} /\ Newer(s, shadow[d][r])
        BY <1>2, <2>7 DEF UpdateConflict, Dispute, s
      <3>2. DisputesOf(d, r) # {} /\ OpsOf(d, r) = {}
        BY <1>2, <2>0, <2>7 DEF UpdateConflict, HasConflict, DisputesOf, OpsOf, OneChain
      <3>3. Dispute(r, s).rec = r
        BY DEF Dispute
      <3>4. DisputesOf(d, r)' = {Dispute(r, s)}
        BY <3>1, <3>3 DEF DisputesOf
      <3>5. SameCopy(d, r) /\ SameMark(d, r) /\ SameBase(d, r) /\ SameOps(d, r)
        BY <2>7 DEF UpdateConflict, recordVars, SameCopy, SameMark, SameBase, SameOps, OpsOf
      <3> QED
        BY <2>4, <3>1, <3>2, <3>4, <3>5 DEF PageStep, Updated
    <2>8. CASE Converge(d)
      <3>1. /\ UNCHANGED <<local, conflicts>> /\ DisputesOf(d, r) = {}
            /\ dirty'[d][r] = 0 /\ outbox'[d] = {o \in outbox[d] : o.rec # r}
            /\ local[d][r].st # "none" /\ Pending(d, r) /\ r \in Derived
            /\ local[d][r] = CopyOf(s) /\ shadow'[d][r] = s /\ Newer(s, shadow[d][r])
        BY <1>2, <2>5, <2>8 DEF Converge, PutShadow, ForgetOps, IsNews, Converges, s
      <3>2. SameCopy(d, r) /\ DisputesOf(d, r)' = {} /\ OpsOf(d, r)' = {}
        BY <3>1 DEF SameCopy, DisputesOf, OpsOf
      <3> QED
        BY <2>4, <3>1, <3>2 DEF PageStep, Converged
    <2>9. CASE RaiseConflict(d)
      <3>1. /\ UNCHANGED <<local, dirty, shadow>> /\ DisputesOf(d, r) = {}
            /\ conflicts'[d] = conflicts[d] \cup {Dispute(r, s)}
            /\ outbox'[d] = {o \in outbox[d] : o.rec # r}
            /\ local[d][r].st # "none" /\ Pending(d, r) /\ Newer(s, shadow[d][r])
        BY <1>2, <2>5, <2>9 DEF RaiseConflict, recordVars, ForgetOps, IsNews, Dispute, s
      <3>2. Dispute(r, s).rec = r
        BY DEF Dispute
      <3>3. SameCopy(d, r) /\ SameMark(d, r) /\ SameBase(d, r) /\ DisputesOf(d, r)' = {Dispute(r, s)} /\ OpsOf(d, r)' = {}
        BY <3>1, <3>2 DEF SameCopy, SameMark, SameBase, DisputesOf, OpsOf
      <3> QED
        BY <2>4, <3>1, <3>3 DEF PageStep, Raised
    <2>10. CASE NoteTombstone(d)
      <3>1. /\ UNCHANGED <<local, dirty, outbox, conflicts>> /\ DisputesOf(d, r) = {}
            /\ local[d][r].st = "none" /\ s.dead /\ r \notin Derived
            /\ shadow'[d][r] = s /\ Newer(s, shadow[d][r])
        BY <1>2, <2>5, <2>10 DEF NoteTombstone, recordVars, PutShadow, IsNews, s
      <3>2. SameCopy(d, r) /\ SameMark(d, r) /\ SameOps(d, r) /\ SameDisputes(d, r)
        BY <3>1 DEF SameCopy, SameMark, SameOps, SameDisputes, DisputesOf, OpsOf
      <3> QED
        BY <2>4, <3>1, <3>2 DEF PageStep, Noted
    <2>11. CASE Adopt(d)
      <3>1. /\ UNCHANGED <<dirty, outbox, conflicts>> /\ DisputesOf(d, r) = {}
            /\ local[d][r].st = "none" \/ ~Pending(d, r)
            /\ local[d][r].st = "none" /\ s.dead => r \in Derived
            /\ local'[d][r] = CopyOf(s) /\ shadow'[d][r] = s /\ Newer(s, shadow[d][r])
        BY <1>2, <2>5, <2>11 DEF Adopt, PutShadow, IsNews, s
      <3>2. SameMark(d, r) /\ SameOps(d, r) /\ SameDisputes(d, r)
        BY <3>1 DEF SameMark, SameOps, SameDisputes, DisputesOf, OpsOf
      <3> QED
        BY <2>4, <3>1, <3>2 DEF PageStep, Adopted
    <2> QED
      BY <1>2, <2>6, <2>7, <2>8, <2>9, <2>10, <2>11 DEF ApplyPage
  <1> QED
    BY <1>0, <1>1, <1>2

LEMMA ResolveRecords ==
  ASSUME TypeInv, ChainInv, NEW e \in Devices, Resolve(e), NEW d \in Devices, NEW r \in Records
  PROVE  Same(d, r) \/ Kept(d, r) \/ TookRemote(d, r)
  <1> USE DEF TypeInv, TypeOK
  <1>1. PICK c \in conflicts[e] : KeepLocal(e, c) \/ AcceptRemote(e, c)
    BY DEF Resolve
  <1>2. CASE e # d
    BY <1>1, <1>2, SameRecord DEF KeepLocal, AcceptRemote, ForgetOps
  <1>3. CASE e = d
    <2>1. /\ OneChain(d)
          /\ conflicts'[d] = conflicts[d] \ {c}
          /\ outbox'[d] = {o \in outbox[d] : o.rec # c.rec}
      BY <1>1, <1>3 DEF KeepLocal, AcceptRemote, ForgetOps, ChainInv
    <2>2. CASE c.rec # r
      <3>1. SameCopy(d, r) /\ SameMark(d, r) /\ SameBase(d, r)
        BY <1>1, <1>3, <2>2 DEF KeepLocal, AcceptRemote, SameCopy, SameMark, SameBase
      <3> QED
        BY <2>1, <2>2, <3>1 DEF Same, SameOps, SameDisputes, OpsOf, DisputesOf
    <2>3. CASE c.rec = r
      <3>1. OpsOf(d, r) = {} /\ OpsOf(d, r)' = {} /\ DisputesOf(d, r) = {c} /\ DisputesOf(d, r)' = {}
        BY <1>3, <2>1, <2>3 DEF OneChain, OpsOf, DisputesOf
      <3>2. CASE KeepLocal(d, c)
        BY <1>3, <2>3, <3>1, <3>2 DEF KeepLocal, KeepAllowed, Bump, Kept, SameCopy
      <3>3. CASE AcceptRemote(d, c)
        BY <1>3, <2>3, <3>1, <3>3 DEF AcceptRemote, TookRemote
      <3> QED
        BY <1>1, <1>3, <3>2, <3>3
    <2> QED
      BY <2>2, <2>3
  <1> QED
    BY <1>2, <1>3

\* What a step does to a record of a device; the server meanwhile stays as it is.
LEMMA NextRecords ==
  ASSUME TypeInv, ChainInv, [Next]_vars, NEW d \in Devices, NEW r \in Records
  PROVE  RecordStep(d, r) /\ (Same(d, r) \/ ServerSame)
  <1>1. ASSUME UNCHANGED <<local, dirty, shadow, outbox, conflicts>> PROVE Same(d, r)
    BY <1>1, SameRecord
  <1>2. CASE UNCHANGED vars \/ ServerStep
    BY <1>1, <1>2 DEF vars, recordVars, storeVars, ServerStep, AnswerAgain, ApplyOp, AcceptUnchanged, ConflictOp,
                      RejectOp, Receive, RecordStep
  <1>3. CASE UserStep
    BY <1>3, UserRecords DEF RecordStep, Worked
  <1>4. ASSUME NEW e \in Devices, SyncStep(e) PROVE RecordStep(d, r) /\ ServerSame
    <2>1. ServerSame
      BY <1>4 DEF SyncStep, Begin, PushRound, StopPushing, Acknowledge, StartPull, FetchPage, TimeOut, EndRun,
                  ApplyPage, SkipKnown, UpdateConflict, Converge, RaiseConflict, NoteTombstone, Adopt, AdvanceCursor,
                  serverVars, ServerSame
    <2>2. CASE Begin(e) \/ StopPushing(e) \/ StartPull(e) \/ FetchPage(e) \/ TimeOut(e)
      BY <1>1, <2>1, <2>2 DEF Begin, StopPushing, StartPull, FetchPage, TimeOut, EndRun, recordVars, storeVars, RecordStep
    <2> QED
      BY <1>4, <2>1, <2>2, PushRecords, AckRecords, PageRecords, SMTT(60) DEF SyncStep, RecordStep, AnswerStep
  <1>5. ASSUME NEW e \in Devices, Resolve(e) PROVE RecordStep(d, r) /\ ServerSame
    BY <1>5, ResolveRecords DEF RecordStep, Resolve, KeepLocal, AcceptRemote, serverVars, ServerSame
  <1>6. CASE FaultStep
    <2>1. ASSUME NEW e \in Devices, NEW o \in inflight[e], Refuse(e, o) PROVE RecordStep(d, r) /\ ServerSame
      BY <2>1, RefuseRecords DEF RecordStep, AnswerStep, Refuse, serverVars, ServerSame
    <2>2. ASSUME NEW o \in requests, LoseRequest(o) PROVE RecordStep(d, r) /\ Same(d, r)
      BY <1>1, <2>2 DEF LoseRequest, recordVars, storeVars, RecordStep
    <2>3. ASSUME NEW e \in Devices, Interrupt(e) PROVE RecordStep(d, r) /\ Same(d, r)
      BY <1>1, <2>3 DEF Interrupt, EndRun, recordVars, storeVars, RecordStep
    <2> QED
      BY <1>6, <2>1, <2>2, <2>3 DEF FaultStep
  <1> QED
    BY <1>2, <1>3, <1>4, <1>5, <1>6 DEF Next, RecordStep

-----------------------------------------------------------------------------
\* Local work is never overwritten: only the user, or the user's decision of its conflict,
\* changes the content of a record that has a change not yet acknowledged.
THEOREM PendingWorkIsKept == Spec => PendingWorkKept
  <1> DEFINE Untouched == \A d \in Devices, r \in Records :
                /\ dirty[d][r] > 0 /\ local[d][r].st # "none"
                /\ local'[d][r] # local[d][r]
                => writes' # writes \/ (HasConflict(d, r) /\ ~HasConflict(d, r)')
  <1>1. ASSUME TypeInv, ChainInv, [Next]_vars PROVE Untouched
    <2> SUFFICES ASSUME NEW d \in Devices, NEW r \in Records, dirty[d][r] > 0, local[d][r].st # "none",
                        local'[d][r] # local[d][r]
                 PROVE  writes' # writes \/ (HasConflict(d, r) /\ ~HasConflict(d, r)')
      OBVIOUS
    <2>1. RecordStep(d, r)
      BY <1>1, NextRecords
    <2>2. ~SameCopy(d, r)
      BY DEF SameCopy
    <2>3. Worked(d, r) \/ Adopted(d, r) \/ TookRemote(d, r)
      BY <2>1, <2>2 DEF RecordStep, Same, PrepareStep, Queued, Forgot, Disputed, AnswerStep, Applied, Failed, Refused,
                        PageStep, Updated, Converged, Raised, Noted, Kept
    <2>4. CASE Worked(d, r)
      BY <1>1, <2>4 DEF Worked, TypeInv, TypeOK
    <2>5. ~Adopted(d, r)
      BY DEF Adopted, Pending
    <2>6. CASE TookRemote(d, r)
      BY <2>6 DEF TookRemote, HasConflict, DisputesOf
    <2> QED
      BY <2>3, <2>4, <2>5, <2>6
  <1>2. TypeInv /\ ChainInv /\ [Next]_vars => [Untouched]_vars
    BY <1>1
  <1> QED
    BY <1>2, InitTypeInv, InitMarkInv, NextTypeInv, NextChainInv, PTL DEF Spec, PendingWorkKept

-----------------------------------------------------------------------------
(* The feed is the history of the records.                                  *)

\* A state the record has had: none yet, or an entry of the feed.
Had(r, s) == s = Absent \/ \E i \in DOMAIN log : log[i] = [rec |-> r, state |-> s]

\* A record's entries have increasing versions, and the last is its row.
FeedOrder ==
    /\ \A r \in Records : Had(r, server[r])
    /\ \A i \in DOMAIN log : 0 < log[i].state.ver /\ log[i].state.ver <= server[log[i].rec].ver
    /\ \A i, j \in DOMAIN log : i < j /\ log[i].rec = log[j].rec => log[i].state.ver < log[j].state.ver

\* Devices and recorded outcomes only know states that were.
Seen ==
    /\ \A d \in Devices, r \in Records : Had(r, shadow[d][r])
    /\ \A d \in Devices, r \in Records : \A c \in DisputesOf(d, r) : Had(r, c.remote)
    /\ \A i \in DOMAIN answers : Had(answers[i].rec, answers[i].current)
    /\ \A d \in Devices : cursor[d] <= Len(log)

LEMMA FeedSteps ==
  ASSUME TypeInv, [Next]_vars
  PROVE  \/ UNCHANGED <<server, log>>
         \/ \E r \in Records, s \in State : Commit(r, s) /\ s.ver = server[r].ver + 1
  <1> USE DEF TypeInv, TypeOK
  <1> DEFINE Commits == \E r \in Records, s \in State : Commit(r, s) /\ s.ver = server[r].ver + 1
  <1>1. ASSUME NEW r \in Records, NEW s \in State, WebWrite(r, s), s.ver = server[r].ver + 1 PROVE Commits
    BY <1>1 DEF WebWrite
  <1>2. ASSUME NEW r \in Records, NEW v \in Values, WebCreate(r, v) PROVE Commits
    <2>1. [ver |-> 1, dead |-> FALSE, val |-> v] \in State /\ server[r].ver = 0
      BY <1>2 DEF WebCreate, Known, State, Content
    <2>2. [ver |-> 1, dead |-> FALSE, val |-> v].ver = server[r].ver + 1
      BY <2>1
    <2>3. WebWrite(r, [ver |-> 1, dead |-> FALSE, val |-> v])
      BY <1>2 DEF WebCreate
    <2> QED
      BY <1>1, <2>1, <2>2, <2>3
  <1>3. ASSUME NEW r \in Records, NEW v \in Values, WebUpdate(r, v) PROVE Commits
    <2>1. [ver |-> server[r].ver + 1, dead |-> FALSE, val |-> v] \in State
      BY StateType DEF Content
    <2> QED
      BY <1>1, <1>3, <2>1 DEF WebUpdate
  <1>4. ASSUME NEW r \in Records, WebDelete(r) PROVE Commits
    <2>1. [ver |-> server[r].ver + 1, dead |-> TRUE, val |-> server[r].val] \in State
      BY DEF State
    <2> QED
      BY <1>1, <1>4, <2>1 DEF WebDelete
  <1>5. ASSUME NEW o \in requests, ApplyOp(o) PROVE Commits
    <2>1. o.rec \in Records /\ After(o, server[o.rec]) \in State /\ After(o, server[o.rec]).ver = server[o.rec].ver + 1
      <3>1. o \in Op /\ o.rec \in Records /\ server[o.rec] \in State
        BY SMTT(60) DEF Op
      <3> QED
        BY <3>1, SMTT(60) DEF After, State, Op
    <2> QED
      BY <1>5, <2>1 DEF ApplyOp
  <1>6. ASSUME NEW d \in Devices, SyncStep(d) \/ Resolve(d) PROVE UNCHANGED <<server, log>>
    BY <1>6 DEF SyncStep, Resolve, Begin, PushRound, StopPushing, Acknowledge, StartPull, FetchPage, TimeOut,
                EndRun, ApplyPage, SkipKnown, UpdateConflict, Converge, RaiseConflict, NoteTombstone, Adopt,
                AdvanceCursor, KeepLocal, AcceptRemote, serverVars
  <1>7. CASE UserStep
    BY <1>2, <1>3, <1>4, <1>7 DEF UserStep, Create, Edit, Delete, ResetHistory, WriteLocal, serverVars
  <1>8. CASE ServerStep
    BY <1>5, <1>8 DEF ServerStep, AnswerAgain, AcceptUnchanged, ConflictOp, RejectOp, serverVars
  <1>9. CASE FaultStep
    BY <1>9 DEF FaultStep, LoseRequest, Interrupt, Refuse, EndRun, serverVars
  <1>10. CASE UNCHANGED vars
    BY <1>10 DEF vars, serverVars
  <1> QED
    BY <1>6, <1>7, <1>8, <1>9, <1>10 DEF Next

LEMMA HadGrows == ASSUME TypeInv, [Next]_vars, NEW r, NEW s, Had(r, s) PROVE Had(r, s)'
  <1>1. CASE UNCHANGED <<server, log>>
    BY <1>1 DEF Had
  <1>2. ASSUME NEW q \in Records, NEW t \in State, Commit(q, t) PROVE Had(r, s)'
    <2>1. \A i \in DOMAIN log : i \in DOMAIN log' /\ log'[i] = log[i]
      BY <1>2 DEF Commit, TypeInv, TypeOK, Entry
    <2> QED
      BY <2>1 DEF Had
  <1> QED
    BY <1>1, <1>2, FeedSteps

LEMMA AbsentType == Absent \in State /\ Absent.ver = 0
  BY DEF Absent, State, Content

LEMMA HadFacts ==
  ASSUME TypeInv, FeedOrder, NEW r \in Records, NEW s, Had(r, s)
  PROVE  /\ s \in State /\ s.ver \in Nat /\ s.ver <= server[r].ver
         /\ s.ver = 0 => s = Absent
         /\ s.ver > 0 => \E i \in DOMAIN log : log[i] = [rec |-> r, state |-> s]
  <1>1. server[r] \in State /\ server[r].ver \in Nat
    BY DEF TypeInv, TypeOK, State
  <1>2. CASE s = Absent
    BY <1>1, <1>2, AbsentType
  <1>3. ASSUME NEW i \in DOMAIN log, log[i] = [rec |-> r, state |-> s]
        PROVE  s \in State /\ s.ver \in Nat /\ s.ver <= server[r].ver /\ s.ver > 0
    <2>1. log[i] \in Entry
      BY <1>3 DEF TypeInv, TypeOK
    <2>2. log[i].rec = r /\ log[i].state = s
      BY <1>3
    <2>3. s \in State
      BY <2>1, <2>2 DEF Entry
    <2> QED
      BY <1>3, <2>2, <2>3 DEF FeedOrder, State
  <1> QED
    BY <1>2, <1>3 DEF Had

LEMMA HadUnique ==
  ASSUME TypeInv, FeedOrder, NEW r \in Records, NEW s, NEW t, Had(r, s), Had(r, t), s.ver = t.ver
  PROVE  s = t
  <1>1. CASE s.ver = 0
    BY <1>1, HadFacts
  <1>2. CASE s.ver # 0
    <2>1. s.ver > 0 /\ t.ver > 0
      BY <1>2, HadFacts
    <2>2. PICK i \in DOMAIN log : log[i] = [rec |-> r, state |-> s]
      BY <2>1, HadFacts
    <2>3. PICK j \in DOMAIN log : log[j] = [rec |-> r, state |-> t]
      BY <2>1, HadFacts
    <2>4. /\ log[i].rec = r /\ log[j].rec = r /\ log[i].state = s /\ log[j].state = t
          /\ i \in Nat /\ j \in Nat /\ s.ver \in Nat
      BY <2>2, <2>3, HadFacts, SMTT(60) DEF TypeInv, TypeOK
    <2>5. ~(i < j) /\ ~(j < i)
      BY <2>4 DEF FeedOrder
    <2>6. i = j
      BY <2>4, <2>5
    <2> QED
      BY <2>4, <2>6
  <1> QED
    BY <1>1, <1>2

LEMMA NextFeedOrder == ASSUME TypeInv, FeedOrder, [Next]_vars PROVE FeedOrder'
  <1>1. CASE UNCHANGED <<server, log>>
    BY <1>1 DEF FeedOrder, Had
  <1>2. ASSUME NEW q \in Records, NEW t \in State, Commit(q, t), t.ver = server[q].ver + 1 PROVE FeedOrder'
    <2> DEFINE n == Len(log) + 1
    <2>1. /\ n \in Nat /\ DOMAIN log = 1 .. Len(log) /\ DOMAIN log' = 1 .. n
          /\ \A i \in DOMAIN log : log'[i] = log[i] /\ log[i] \in Entry
          /\ log'[n] = [rec |-> q, state |-> t]
      <3>1. log \in Seq(Entry) /\ [rec |-> q, state |-> t] \in Entry
        BY DEF TypeInv, TypeOK, Entry
      <3>2. log' = Append(log, [rec |-> q, state |-> t])
        BY <1>2 DEF Commit
      <3> HIDE DEF Entry
      <3> QED
        BY <3>1, <3>2
    <2>2. \A r \in Records : /\ server[r] \in State /\ server[r].ver \in Nat /\ server'[r].ver \in Nat
                             /\ server[r].ver <= server'[r].ver
                             /\ server'[r] = IF r = q THEN t ELSE server[r]
      BY <1>2 DEF Commit, TypeInv, TypeOK, State
    <2>3. ASSUME NEW r \in Records PROVE Had(r, server[r])' 
      <3>1. CASE r = q
        BY <2>1, <2>2, <3>1 DEF Had
      <3>2. CASE r # q
        <4>1. PICK s : s = server[r]
          OBVIOUS
        <4>2. Had(r, s)'
          BY <4>1, HadGrows DEF FeedOrder
        <4> QED
          BY <2>2, <3>2, <4>1, <4>2 DEF Had
      <3> QED
        BY <3>1, <3>2
    <2>4. \A i \in DOMAIN log' : 0 < log'[i].state.ver /\ log'[i].state.ver <= server'[log'[i].rec].ver
      <3>1. ASSUME NEW i \in DOMAIN log PROVE 0 < log'[i].state.ver /\ log'[i].state.ver <= server'[log'[i].rec].ver
        <4>1. log'[i] = log[i] /\ log[i].rec \in Records /\ log[i].state.ver \in Nat
          BY <2>1 DEF Entry, State
        <4>2. 0 < log[i].state.ver /\ log[i].state.ver <= server[log[i].rec].ver
          BY DEF FeedOrder
        <4> QED
          BY <2>2, <4>1, <4>2
      <3>2. 0 < log'[n].state.ver /\ log'[n].state.ver <= server'[log'[n].rec].ver
        BY <1>2, <2>1, <2>2
      <3> QED
        BY <2>1, <3>1, <3>2
    <2>5. \A i, j \in DOMAIN log' : i < j /\ log'[i].rec = log'[j].rec => log'[i].state.ver < log'[j].state.ver
      <3>1. ASSUME NEW i \in DOMAIN log, log[i].rec = q PROVE log[i].state.ver < t.ver
        <4>1. log[i].state.ver \in Nat /\ log[i].state.ver <= server[q].ver
          BY <2>1, <3>1 DEF FeedOrder, Entry, State
        <4> QED
          BY <1>2, <2>2, <4>1
      <3>2. ASSUME NEW i \in DOMAIN log', NEW j \in DOMAIN log', i < j, log'[i].rec = log'[j].rec
            PROVE  log'[i].state.ver < log'[j].state.ver
        <4>1. i \in DOMAIN log
          BY <2>1, <3>2
        <4>2. CASE j = n
          <5>1. log'[j].rec = q /\ log'[j].state = t
            BY <2>1, <4>2
          <5> QED
            BY <2>1, <3>1, <3>2, <4>1, <5>1
        <4>3. CASE j # n
          <5>1. j \in DOMAIN log
            BY <2>1, <4>3
          <5> QED
            BY <2>1, <3>2, <4>1, <5>1 DEF FeedOrder
        <4> QED
          BY <4>2, <4>3
      <3> QED
        BY <3>2
    <2> QED
      BY <2>3, <2>4, <2>5 DEF FeedOrder
  <1> QED
    BY <1>1, <1>2, FeedSteps

-----------------------------------------------------------------------------
(* What was sent is answered before the feed is read.                       *)

\* The server has the operation's outcome, or may still receive it.
Sent(o) == o \in requests \/ Recorded(o)

NoneSent(d) == \A o \in outbox[d] : ~Sent(o)

SentFirst(d) ==
    /\ IsFiniteSet(outbox[d])
    /\ \A o \in outbox[d] : Sent(o) => o \in Oldest(outbox[d])
    /\ phase[d] = "sent" => \A o \in outbox[d] : Sent(o) => o \in inflight[d]
    /\ phase[d] \in {"history", "pull", "page"} => NoneSent(d)
    /\ phase[d] = "push" /\ rounds[d] > 0 => NoneSent(d)
    /\ phase[d] \notin {"push", "sent"} => rounds[d] = 0

\* An operation under way without an outcome is still its device's to hear of.
SentInv ==
    /\ \A d \in Devices : SentFirst(d)
    /\ \A o \in requests : ~Recorded(o) => o \in outbox[o.id[1]]

\* With fewer operations an operation among the oldest stays among them.
LEMMA OldestShrinks ==
  ASSUME NEW X, IsFiniteSet(X), NEW Y \in SUBSET X, NEW o \in Y, o \in Oldest(X)
  PROVE  o \in Oldest(Y)
  <1> DEFINE X0 == {p \in X : p.id[2] < o.id[2]}
             Y0 == {p \in Y : p.id[2] < o.id[2]}
  <1>1. IsFiniteSet(X0)
    BY FS_Subset
  <1>2. Y0 \in SUBSET X0
    OBVIOUS
  <1>3. Cardinality(Y0) <= Cardinality(X0) /\ Cardinality(X0) \in Nat /\ Cardinality(Y0) \in Nat
    BY <1>1, <1>2, FS_Subset, FS_CardinalityType
  <1>4. Cardinality(X0) < BatchLimit
    BY DEF Oldest
  <1>5. Cardinality(Y0) < BatchLimit
    BY <1>3, <1>4, LimitAssumption
  <1> QED
    BY <1>5 DEF Oldest

\* Later operations do not push it out.
LEMMA OldestGrows ==
  ASSUME NEW X, NEW Y, \A p \in Y : ~(p \in X) => \A o \in X : ~(p.id[2] < o.id[2]), X \subseteq Y
  PROVE  Oldest(X) \subseteq Oldest(Y)
  <1>1. ASSUME NEW o \in Oldest(X) PROVE o \in Oldest(Y)
    <2>1. {p \in Y : p.id[2] < o.id[2]} = {p \in X : p.id[2] < o.id[2]}
      BY DEF Oldest
    <2> QED
      BY <2>1 DEF Oldest
  <1> QED
    BY <1>1

\* No operation of a device that stays queued is sent by the step.
LEMMA FewerSent ==
  ASSUME NEW d \in Devices, SentFirst(d), outbox'[d] \subseteq outbox[d],
         \A o \in outbox'[d] : Sent(o)' => Sent(o)
  PROVE  /\ IsFiniteSet(outbox'[d])
         /\ \A o \in outbox'[d] : Sent(o)' => o \in Oldest(outbox'[d])
         /\ phase[d] = "sent" => \A o \in outbox'[d] : Sent(o)' => o \in inflight[d]
         /\ NoneSent(d) => NoneSent(d)'
  <1>1. IsFiniteSet(outbox'[d])
    BY FS_Subset DEF SentFirst
  <1>2. \A o \in outbox'[d] : Sent(o)' => o \in Oldest(outbox'[d])
    BY OldestShrinks DEF SentFirst
  <1> QED
    BY <1>1, <1>2 DEF SentFirst, NoneSent

LEMMA SentStays ==
  ASSUME NEW d \in Devices, SentFirst(d), outbox'[d] \subseteq outbox[d],
         \A o \in outbox'[d] : Sent(o)' => Sent(o),
         phase'[d] = phase[d], rounds'[d] = rounds[d], inflight'[d] = inflight[d]
  PROVE  SentFirst(d)'
  BY FewerSent DEF SentFirst

LEMMA FiniteNewOps == ASSUME NEW d \in Devices PROVE IsFiniteSet(NewOps(d))
  <1> DEFINE A == ToCreate(d) \cup ToUpdate(d) \cup ToDelete(d)
             f == [r \in A |-> NewOp(d, r)]
  <1>1. IsFiniteSet(A)
    BY RecordsAssumption, FS_Subset DEF ToCreate, ToUpdate, ToDelete
  <1>2. f \in Surjection(A, NewOps(d))
    BY DEF Surjection, NewOps
  <1> QED
    BY <1>1, <1>2, FS_Surjection

LEMMA PushSent ==
  ASSUME TypeInv, ChainInv, IdsInv, SentInv, NEW d \in Devices, PushRound(d)
  PROVE  SentFirst(d)' /\ \A o \in requests' : ~Recorded(o)' => o \in outbox'[o.id[1]]
  <1> USE DEF TypeInv, TypeOK
  <1> DEFINE ops == outbox[d] \cup NewOps(d)
  <1>1. outbox'[d] = ops /\ phase[d] = "push" /\ UNCHANGED answers /\ \A e \in Devices : outbox[e] \subseteq outbox'[e]
    BY DEF PushRound, serverVars
  <1>2. IsFiniteSet(ops)
    BY FiniteNewOps, FS_Union DEF SentInv, SentFirst
  <1>0. opSeq[d] \in Nat
    OBVIOUS
  <1>3. \A o \in NewOps(d) : o.id[1] = d /\ o.id[2] \in Nat /\ opSeq[d] < o.id[2]
    <2> TAKE o \in NewOps(d)
    <2>1. o.rec \in Records /\ o.id = <<d, SeqOf(d, o.rec)>>
      BY NewOpFacts
    <2>2. SeqOf(d, o.rec) \in Nat /\ opSeq[d] < SeqOf(d, o.rec)
      BY <2>1, NewSeq
    <2> QED
      BY <2>1, <2>2
  <1>4. \A o \in outbox[d] : o.id[1] = d /\ o.id[2] <= opSeq[d] /\ o.id[2] \in Nat
    <2> TAKE o \in outbox[d]
    <2>1. o \in Issued /\ o \in Op
      BY DEF Issued
    <2>2. o.id[2] \in Nat
      BY <2>1 DEF Op, OpId
    <2> QED
      BY <2>1, <2>2 DEF IdsInv, IdsFresh
  <1>5. Oldest(outbox[d]) \subseteq Oldest(ops)
    <2>1. \A p \in ops : ~(p \in outbox[d]) => \A o \in outbox[d] : ~(p.id[2] < o.id[2])
      BY <1>3, <1>4
    <2> QED
      BY <2>1, OldestGrows
  <1>6. \A o \in NewOps(d) : ~Sent(o)
    <2>1. ASSUME NEW o \in NewOps(d), Recorded(o) PROVE FALSE
      <3>1. o.id[2] <= opSeq[d]
        BY <1>3, <2>1 DEF Recorded, IdsInv, IdsFresh
      <3> QED
        BY <1>0, <1>3, <3>1
    <2>2. ASSUME NEW o \in NewOps(d), o \in requests PROVE FALSE
      <3>1. o.id[2] <= opSeq[d]
        BY <1>3, <2>2 DEF IdsInv, IdsFresh, Issued
      <3> QED
        BY <1>0, <1>3, <3>1
    <2> QED
      BY <2>1, <2>2 DEF Sent
  <1>7. \A o \in ops : Sent(o) => o \in Oldest(ops)
    BY <1>5, <1>6 DEF SentInv, SentFirst
  <1>8. CASE Oldest(ops) = {}
    <2>1. /\ phase' = [phase EXCEPT ![d] = "history"] /\ rounds' = [rounds EXCEPT ![d] = 0]
          /\ UNCHANGED <<inflight, requests>>
      BY <1>8 DEF PushRound
    <2>2. \A o \in ops : ~Sent(o)'
      BY <1>1, <1>7, <1>8, <2>1 DEF Sent, Recorded
    <2>3. SentFirst(d)'
      BY <1>1, <1>2, <2>1, <2>2 DEF SentFirst, NoneSent
    <2>4. \A o \in requests : o.id[1] \in Devices
      BY DEF Op, OpId
    <2> QED
      BY <1>1, <2>1, <2>3, <2>4 DEF SentInv, Recorded
  <1>9. CASE Oldest(ops) # {}
    <2>1. /\ phase' = [phase EXCEPT ![d] = "sent"]
          /\ inflight' = [inflight EXCEPT ![d] = Oldest(ops)]
          /\ requests' = requests \cup Oldest(ops)
      BY <1>9 DEF PushRound
    <2>2. \A o \in ops : Sent(o)' => o \in Oldest(ops)
      BY <1>1, <1>7, <2>1 DEF Sent, Recorded
    <2>3. SentFirst(d)'
      BY <1>1, <1>2, <2>1, <2>2 DEF SentFirst
    <2>4. Oldest(ops) \subseteq ops /\ \A o \in ops : o.id[1] = d
      BY <1>3, <1>4 DEF Oldest
    <2>5. \A o \in requests : o.id[1] \in Devices
      BY DEF Op, OpId
    <2> QED
      BY <1>1, <2>1, <2>3, <2>4, <2>5 DEF SentInv, Recorded
  <1> QED
    BY <1>8, <1>9

LEMMA AckSent ==
  ASSUME TypeInv, ChainInv, IdsInv, SentInv, NEW d \in Devices, Acknowledge(d)
  PROVE  SentFirst(d)' /\ \A o \in requests' : ~Recorded(o)' => o \in outbox'[o.id[1]]
  <1> USE DEF TypeInv, TypeOK
  <1> DEFINE applied == {o \in inflight[d] : answers[o.id].status = "applied"}
             failed == inflight[d] \ applied
  <1>1. /\ outbox'[d] = {p \in outbox[d] \ applied : \A o \in failed : p.rec # o.rec}
        /\ phase[d] = "sent" /\ phase'[d] = "push" /\ inflight'[d] = {}
        /\ UNCHANGED <<requests, answers, rounds>>
        /\ \A o \in inflight[d] : Recorded(o) /\ o \in outbox[d]
        /\ \A e \in Devices \ {d} : outbox'[e] = outbox[e]
    BY DEF Acknowledge, serverVars, ChainInv, OneChain
  <1>2. \A o : Sent(o)' <=> Sent(o)
    BY <1>1 DEF Sent, Recorded
  <1>3. outbox'[d] \subseteq outbox[d] /\ \A o \in outbox'[d] : o \notin inflight[d]
    BY <1>1
  <1>4. SentFirst(d)'
    <2>1. NoneSent(d)'
      BY <1>1, <1>2, <1>3 DEF SentInv, SentFirst, NoneSent
    <2>2. IsFiniteSet(outbox'[d])
      BY <1>2, <1>3, FewerSent DEF SentInv
    <2> QED
      BY <1>1, <2>1, <2>2 DEF SentFirst, NoneSent
  <1>5. ASSUME NEW o \in requests, ~Recorded(o) PROVE o \in outbox'[o.id[1]]
    <2>1. o \in outbox[o.id[1]] /\ o.id[1] \in Devices
      BY <1>5 DEF SentInv, Op, OpId
    <2>2. CASE o.id[1] = d
      <3>1. \A p \in failed : p.rec # o.rec
        BY <1>1, <1>5, <2>1, <2>2 DEF ChainInv, OneChain
      <3> QED
        BY <1>1, <1>5, <2>1, <2>2, <3>1
    <2> QED
      BY <1>1, <2>1, <2>2
  <1> QED
    BY <1>1, <1>4, <1>5 DEF Recorded

LEMMA NextSentInv == ASSUME TypeInv, ChainInv, IdsInv, SentInv, [Next]_vars PROVE SentInv'
  <1> USE DEF TypeInv, TypeOK
  <1>0. \A o \in requests : o.id[1] \in Devices /\ o \in Issued
    BY DEF Op, OpId, Issued
  <1>1. ASSUME UNCHANGED <<outbox, phase, rounds, inflight, requests, answers>> PROVE SentInv'
    <2>1. \A o : Sent(o)' <=> Sent(o)
      BY <1>1 DEF Sent, Recorded
    <2> QED
      BY <1>1, <2>1 DEF SentInv, SentFirst, NoneSent, Recorded
  \* A step of one device that sends nothing.
  <1>2. ASSUME NEW d \in Devices, SentFirst(d)', UNCHANGED <<requests, answers>>,
               \A o \in outbox[d] : Sent(o) => o \in outbox'[d] \/ Recorded(o),
               \A e \in Devices \ {d} : /\ outbox'[e] = outbox[e] /\ phase'[e] = phase[e]
                                        /\ rounds'[e] = rounds[e] /\ inflight'[e] = inflight[e]
        PROVE  SentInv'
    <2>1. \A o : Sent(o)' <=> Sent(o)
      BY <1>2 DEF Sent, Recorded
    <2>2. ASSUME NEW e \in Devices \ {d} PROVE SentFirst(e)'
      BY <1>2, <2>1, SentStays DEF SentInv
    <2>3. ASSUME NEW o \in requests, ~Recorded(o) PROVE o \in outbox'[o.id[1]]
      BY <1>0, <1>2, <2>3 DEF SentInv, Sent
    <2> QED
      BY <1>2, <2>2, <2>3 DEF SentInv, Recorded
  <1>3. CASE UNCHANGED vars \/ UserStep
    <2>1. UserStep => UNCHANGED <<outbox, phase, rounds, inflight, requests, answers>>
      BY DEF UserStep, Create, Edit, Delete, ResetHistory, WriteLocal, WebCreate, WebUpdate, WebDelete, WebWrite,
             serverVars, storeVars, runVars
    <2> QED
      BY <1>1, <1>3, <2>1 DEF vars, serverVars, storeVars, runVars
  <1>4. CASE ServerStep
    <2>1. PICK o \in requests :
            AnswerAgain(o) \/ ApplyOp(o) \/ AcceptUnchanged(o) \/ ConflictOp(o) \/ RejectOp(o)
      BY <1>4 DEF ServerStep
    <2>2. /\ requests' = requests \ {o} /\ UNCHANGED <<outbox, phase, rounds, inflight>>
          /\ DOMAIN answers' = DOMAIN answers \cup {o.id}
      BY <2>1 DEF AnswerAgain, ApplyOp, AcceptUnchanged, ConflictOp, RejectOp, Receive, Record, KnownId, Recorded,
                  serverVars, storeVars, runVars
    <2>3. ASSUME NEW d \in Devices, NEW p \in outbox[d], Sent(p)' PROVE Sent(p)
      <3>1. p \in Issued
        BY DEF Issued
      <3>2. p.id = o.id => p = o
        BY <1>0, <3>1 DEF IdsInv, IdsFresh
      <3> QED
        BY <2>2, <2>3, <3>2 DEF Sent, Recorded
    <2>4. ASSUME NEW d \in Devices PROVE SentFirst(d)'
      BY <2>2, <2>3, SentStays DEF SentInv
    <2> QED
      BY <2>2, <2>4 DEF SentInv, Recorded
  <1>5. ASSUME NEW o \in requests, LoseRequest(o) PROVE SentInv'
    <2>1. requests' = requests \ {o} /\ UNCHANGED <<outbox, phase, rounds, inflight, answers>>
      BY <1>5 DEF LoseRequest, serverVars, storeVars, runVars
    <2>2. ASSUME NEW d \in Devices PROVE SentFirst(d)'
      BY <2>1, SentStays DEF SentInv, Sent, Recorded
    <2> QED
      BY <2>1, <2>2 DEF SentInv, Recorded
  <1>6. ASSUME NEW d \in Devices, EndRun(d) PROVE SentInv'
    <2>1. /\ UNCHANGED <<outbox, requests, answers>> /\ phase'[d] = "idle" /\ rounds'[d] = 0
          /\ \A e \in Devices \ {d} : /\ outbox'[e] = outbox[e] /\ phase'[e] = phase[e]
                                      /\ rounds'[e] = rounds[e] /\ inflight'[e] = inflight[e]
      BY <1>6 DEF EndRun, serverVars, storeVars
    <2>2. SentFirst(d)'
      BY <2>1, FewerSent DEF SentInv, SentFirst, Sent, Recorded
    <2> QED
      BY <1>2, <2>1, <2>2
  <1>7. ASSUME NEW d \in Devices, NEW o \in inflight[d], Refuse(d, o) PROVE SentInv'
    <2>1. /\ requests' = requests \ {o} /\ UNCHANGED <<answers, phase, rounds>>
          /\ outbox'[d] = {p \in outbox[d] : p.rec # o.rec} /\ inflight'[d] = inflight[d] \ {o}
          /\ phase[d] = "sent"
          /\ \A e \in Devices \ {d} : outbox'[e] = outbox[e] /\ inflight'[e] = inflight[e]
      BY <1>7 DEF Refuse, serverVars
    <2>2. \A p : Sent(p)' => Sent(p)
      BY <2>1 DEF Sent, Recorded
    <2>3. SentFirst(d)'
      BY <2>1, <2>2, FewerSent DEF SentInv, SentFirst
    <2>4. \A e \in Devices \ {d} : SentFirst(e)'
      BY <2>1, <2>2, SentStays DEF SentInv
    <2>5. ASSUME NEW p \in requests', ~Recorded(p) PROVE p \in outbox'[p.id[1]]
      <3>1. p \in outbox[p.id[1]] /\ p.id[1] \in Devices /\ p # o
        BY <1>0, <2>1, <2>5 DEF SentInv
      <3>2. CASE p.id[1] = d
        <4>1. p.rec # o.rec
          BY <3>1, <3>2 DEF ChainInv, OneChain
        <4> QED
          BY <2>1, <3>1, <3>2, <4>1
      <3> QED
        BY <2>1, <3>1, <3>2
    <2> QED
      BY <2>1, <2>3, <2>4, <2>5 DEF SentInv, Recorded
  <1>8. ASSUME NEW d \in Devices, Resolve(d) PROVE SentInv'
    <2>1. UNCHANGED <<requests, answers, phase, rounds, inflight>>
      BY <1>8 DEF Resolve, KeepLocal, AcceptRemote, serverVars, runVars
    <2>2. PICK c \in conflicts[d] : outbox' = [outbox EXCEPT ![d] = {o \in @ : o.rec # c.rec}]
      BY <1>8 DEF Resolve, KeepLocal, AcceptRemote, ForgetOps
    <2>3. outbox'[d] = outbox[d] /\ \A e \in Devices \ {d} : outbox'[e] = outbox[e]
      BY <2>2 DEF ChainInv, OneChain
    <2>4. SentFirst(d)'
      BY <2>1, <2>3, SentStays DEF SentInv, Sent, Recorded
    <2> QED
      BY <1>2, <2>1, <2>3, <2>4
  <1>9. ASSUME NEW d \in Devices, PushRound(d) \/ Acknowledge(d) PROVE SentInv'
    <2>1. SentFirst(d)' /\ \A o \in requests' : ~Recorded(o)' => o \in outbox'[o.id[1]]
      BY <1>9, PushSent, AckSent
    <2>2. UNCHANGED answers /\ \A e \in Devices \ {d} : /\ outbox'[e] = outbox[e] /\ phase'[e] = phase[e]
                                                        /\ rounds'[e] = rounds[e] /\ inflight'[e] = inflight[e]
      <3>1. CASE PushRound(d)
        BY <3>1 DEF PushRound, serverVars
      <3>2. CASE Acknowledge(d)
        BY <3>2 DEF Acknowledge, serverVars
      <3> QED
        BY <1>9, <3>1, <3>2
    <2>3. ASSUME NEW e \in Devices \ {d} PROVE SentFirst(e)'
      <3>1. requests' \ requests \subseteq outbox[d] \cup NewOps(d)
        BY <1>9 DEF PushRound, Acknowledge, Oldest
      <3>2. \A o \in outbox[e] : o \notin outbox[d] \cup NewOps(d)
        <4>1. \A o \in NewOps(d) : o.id[1] = d
          <5> TAKE o \in NewOps(d)
          <5>1. o.id = <<d, SeqOf(d, o.rec)>>
            BY NewOpFacts
          <5> QED
            BY <5>1
        <4> QED
          BY <4>1 DEF IdsInv, IdsFresh
      <3>3. \A o \in outbox[e] : Sent(o)' => Sent(o)
        BY <2>2, <3>1, <3>2 DEF Sent, Recorded
      <3> QED
        BY <2>2, <3>3, SentStays DEF SentInv
    <2> QED
      BY <2>1, <2>3 DEF SentInv
  <1>10. ASSUME NEW d \in Devices, Begin(d) PROVE SentInv'
    <2>1. /\ UNCHANGED <<outbox, requests, answers, rounds, inflight>> /\ phase[d] = "idle" /\ phase'[d] = "push"
          /\ \A e \in Devices \ {d} : phase'[e] = phase[e]
      BY <1>10 DEF Begin, serverVars, storeVars
    <2>3. SentFirst(d) /\ rounds[d] = 0 /\ \A o : Sent(o)' <=> Sent(o)
      BY <2>1 DEF SentInv, SentFirst, Sent, Recorded
    <2>2. SentFirst(d)'
      BY <2>1, <2>3 DEF SentFirst
    <2> QED
      BY <1>2, <2>1, <2>2
  <1>11. ASSUME NEW d \in Devices, StopPushing(d) PROVE SentInv'
    <2>1. /\ UNCHANGED <<outbox, requests, answers, inflight>> /\ phase[d] = "push" /\ phase'[d] = "history"
          /\ rounds[d] > 0 /\ rounds'[d] = 0
          /\ \A e \in Devices \ {d} : phase'[e] = phase[e] /\ rounds'[e] = rounds[e]
      BY <1>11, LimitAssumption DEF StopPushing, AnotherRound, serverVars, storeVars
    <2>2. SentFirst(d)'
      BY <2>1, FewerSent DEF SentInv, SentFirst, Sent, Recorded
    <2> QED
      BY <1>2, <2>1, <2>2
  <1>12. ASSUME NEW d \in Devices, StartPull(d) \/ FetchPage(d) PROVE SentInv'
    <2>1. /\ UNCHANGED <<outbox, requests, answers, inflight, rounds>>
          /\ phase[d] \in {"history", "pull"} /\ phase'[d] \in {"pull", "page", "idle"}
          /\ \A e \in Devices \ {d} : phase'[e] = phase[e]
      BY <1>12 DEF StartPull, FetchPage, serverVars, storeVars
    <2>2. SentFirst(d)'
      BY <2>1, FewerSent DEF SentInv, SentFirst, Sent, Recorded
    <2> QED
      BY <1>2, <2>1, <2>2
  <1>13. ASSUME NEW d \in Devices, ApplyPage(d) PROVE SentInv'
    <2>1. AdvanceCursor(d)
      BY <1>13 DEF ApplyPage, SkipKnown, UpdateConflict, Converge, RaiseConflict, NoteTombstone, Adopt
    <2>2. /\ UNCHANGED <<requests, answers, inflight, rounds>>
          /\ phase[d] = "page" /\ phase'[d] \in {"pull", "idle"}
          /\ \A e \in Devices \ {d} : phase'[e] = phase[e]
      BY <2>1 DEF AdvanceCursor, serverVars
    <2>3. outbox'[d] \subseteq outbox[d] /\ \A e \in Devices \ {d} : outbox'[e] = outbox[e]
      BY <1>13 DEF ApplyPage, SkipKnown, UpdateConflict, Converge, RaiseConflict, NoteTombstone, Adopt, ForgetOps
    <2>4. NoneSent(d)
      BY <2>2 DEF SentInv, SentFirst
    <2>5. SentFirst(d)'
      BY <2>2, <2>3, <2>4, FewerSent DEF SentInv, SentFirst, Sent, Recorded
    <2> QED
      BY <1>2, <2>2, <2>3, <2>4, <2>5 DEF NoneSent
  <1> QED
    BY <1>3, <1>4, <1>5, <1>6, <1>7, <1>8, <1>9, <1>10, <1>11, <1>12, <1>13
       DEF Next, SyncStep, FaultStep, TimeOut, Interrupt

-----------------------------------------------------------------------------
(* The outcomes the server records.                                         *)

Answered(o, status, s) ==
    /\ ~Recorded(o) /\ Record(o, status, s)
    /\ requests' = requests \ {o} /\ UNCHANGED <<recordVars, storeVars, runVars>>
    /\ \/ /\ status = "applied" /\ s = server'[o.rec] /\ server[o.rec].ver <= s.ver
          /\ Fits(o, server[o.rec]) \/ (o.kind = "create" /\ o.rec \in Derived \cup TaskTypes)
       \/ status = "conflict" /\ s = server[o.rec] /\ ~Fits(o, server[o.rec]) /\ UNCHANGED <<server, log>>
       \/ status = "rejected" /\ s = Absent /\ UNCHANGED <<server, log>>

LEMMA AnswerSteps ==
  ASSUME TypeInv, [Next]_vars
  PROVE  UNCHANGED answers \/ \E o \in requests : \E status, s : Answered(o, status, s)
  <1> USE DEF TypeInv, TypeOK
  <1>1. ASSUME ServerStep PROVE UNCHANGED answers \/ \E o \in requests : \E status, s : Answered(o, status, s)
    <2>1. PICK o \in requests :
            AnswerAgain(o) \/ ApplyOp(o) \/ AcceptUnchanged(o) \/ ConflictOp(o) \/ RejectOp(o)
      BY <1>1 DEF ServerStep
    <2>2. o \in Op /\ o.rec \in Records /\ server[o.rec] \in State /\ server[o.rec].ver \in Nat
      BY DEF Op, State
    <2>3. CASE AnswerAgain(o)
      BY <2>3 DEF AnswerAgain, serverVars
    <2>4. CASE ApplyOp(o)
      <3>1. /\ server'[o.rec] = After(o, server[o.rec])
            /\ After(o, server[o.rec]).ver = server[o.rec].ver + 1
        BY <2>2, <2>4 DEF ApplyOp, Commit, After
      <3>2. Answered(o, "applied", After(o, server[o.rec]))
        BY <2>2, <2>4, <3>1 DEF ApplyOp, Answered, KnownId, Receive
      <3> QED
        BY <3>2
    <2>5. CASE AcceptUnchanged(o)
      <3>1. Answered(o, "applied", server[o.rec])
        BY <2>2, <2>5 DEF AcceptUnchanged, Answered, KnownId, Receive, ChangesNothing
      <3> QED
        BY <3>1
    <2>6. CASE ConflictOp(o)
      <3>1. Answered(o, "conflict", server[o.rec])
        BY <2>2, <2>6 DEF ConflictOp, Answered, KnownId, Receive
      <3> QED
        BY <3>1
    <2>7. CASE RejectOp(o)
      <3>1. Answered(o, "rejected", Absent)
        BY <2>2, <2>7, SMTT(60) DEF RejectOp, Answered, KnownId, Receive
      <3> QED
        BY <3>1
    <2> QED
      BY <2>1, <2>3, <2>4, <2>5, <2>6, <2>7
  <1>2. ASSUME NEW d \in Devices, SyncStep(d) \/ Resolve(d) PROVE UNCHANGED answers
    BY <1>2 DEF SyncStep, Resolve, Begin, PushRound, StopPushing, Acknowledge, StartPull, FetchPage, TimeOut,
                EndRun, ApplyPage, SkipKnown, UpdateConflict, Converge, RaiseConflict, NoteTombstone, Adopt,
                AdvanceCursor, KeepLocal, AcceptRemote, serverVars
  <1>3. ASSUME UserStep PROVE UNCHANGED answers
    BY <1>3 DEF UserStep, Create, Edit, Delete, ResetHistory, WriteLocal, WebCreate, WebUpdate, WebDelete,
                WebWrite, serverVars
  <1>4. ASSUME FaultStep PROVE UNCHANGED answers
    BY <1>4 DEF FaultStep, LoseRequest, Interrupt, Refuse, EndRun, serverVars
  <1>5. ASSUME UNCHANGED vars PROVE UNCHANGED answers
    BY <1>5 DEF vars, serverVars
  <1> QED
    BY <1>1, <1>2, <1>3, <1>4, <1>5 DEF Next

LEMMA RecordFacts ==
  ASSUME NEW o, NEW status, NEW s, Record(o, status, s)
  PROVE  /\ DOMAIN answers' = DOMAIN answers \cup {o.id}
         /\ \A i \in DOMAIN answers : i # o.id => answers'[i] = answers[i]
         /\ answers'[o.id] = [status |-> status, rec |-> o.rec, kind |-> o.kind, val |-> o.val, current |-> s]
  BY DEF Record

\* An operation a device may hear of was one before, or is new.
LEMMA IssuedSteps ==
  ASSUME TypeInv, ChainInv, [Next]_vars, NEW o \in Issued'
  PROVE  o \in Issued \/ \E d \in Devices : o \in NewOps(d)
  <1> USE DEF TypeInv, TypeOK
  <1>1. requests' \subseteq requests \cup UNION {outbox'[d] : d \in Devices}
    <2>1. CASE UserStep \/ UNCHANGED vars
      <3>1. UserStep => UNCHANGED requests
        BY DEF UserStep, Create, Edit, Delete, ResetHistory, WriteLocal, WebCreate, WebUpdate, WebDelete, WebWrite
      <3> QED
        BY <2>1, <3>1 DEF vars
    <2>2. CASE ServerStep \/ FaultStep
      <3>1. ServerStep => requests' \subseteq requests
        BY DEF ServerStep, AnswerAgain, ApplyOp, AcceptUnchanged, ConflictOp, RejectOp, Receive
      <3>2. FaultStep => requests' \subseteq requests
        BY DEF FaultStep, LoseRequest, Interrupt, Refuse, EndRun
      <3> QED
        BY <2>2, <3>1, <3>2
    <2>3. ASSUME NEW d \in Devices, SyncStep(d), ~PushRound(d) PROVE UNCHANGED requests
      BY <2>3 DEF SyncStep, Begin, StopPushing, Acknowledge, StartPull, FetchPage, TimeOut, EndRun, ApplyPage, SkipKnown,
                  UpdateConflict, Converge, RaiseConflict, NoteTombstone, Adopt, AdvanceCursor
    <2>4. ASSUME NEW d \in Devices, Resolve(d) PROVE UNCHANGED requests
      BY <2>4 DEF Resolve, KeepLocal, AcceptRemote
    <2>5. ASSUME NEW d \in Devices, PushRound(d) PROVE requests' \subseteq requests \cup outbox'[d]
      BY <2>5 DEF PushRound, Oldest
    <2>6. ASSUME NEW d \in Devices, SyncStep(d) \/ Resolve(d)
          PROVE  requests' \subseteq requests \cup UNION {outbox'[e] : e \in Devices}
      <3>1. requests' \subseteq requests \cup outbox'[d]
        BY <2>3, <2>4, <2>5, <2>6
      <3> QED
        BY <3>1
    <2>7. ASSUME requests' \subseteq requests PROVE requests' \subseteq requests \cup UNION {outbox'[e] : e \in Devices}
      BY <2>7
    <2> QED
      BY <2>1, <2>2, <2>6, <2>7 DEF Next
  <1>2. CASE o \in requests
    BY <1>2 DEF Issued
  <1>3. ASSUME NEW d \in Devices, o \in outbox'[d] PROVE o \in outbox[d] \/ o \in NewOps(d)
    <2>1. o.rec \in Records
      <3>1. outbox'[d] \subseteq Op
        BY NextTypeInv
      <3> QED
        BY <1>3, <3>1 DEF Op
    <2>2. RecordStep(d, o.rec) /\ o \in OpsOf(d, o.rec)'
      BY <1>3, <2>1, NextRecords DEF OpsOf
    <2>3. o \in OpsOf(d, o.rec) \/ o \in NewOps(d)
      BY <2>2 DEF RecordStep, Same, SameOps, Worked, PrepareStep, Queued, Forgot, Disputed, AnswerStep, Applied, Failed,
                  Refused, PageStep, Updated, Converged, Raised, Noted, Adopted, Kept, TookRemote
    <2> QED
      BY <2>3 DEF OpsOf
  <1> QED
    BY <1>1, <1>2, <1>3 DEF Issued

\* A new operation's id is in no outcome.
LEMMA NewIsFresh ==
  ASSUME TypeInv, ChainInv, IdsInv, [Next]_vars, NEW d \in Devices, NEW o \in NewOps(d)
  PROVE  ~Recorded(o) /\ ~Recorded(o)'
  <1> USE DEF TypeInv, TypeOK
  <1>1. o.rec \in Records /\ o.id = <<d, SeqOf(d, o.rec)>> /\ opSeq[d] \in Nat
    BY NewOpFacts
  <1>2. SeqOf(d, o.rec) \in Nat /\ opSeq[d] < SeqOf(d, o.rec)
    BY <1>1, NewSeq
  <1>3. ~(o.id[2] <= opSeq[o.id[1]])
    BY <1>1, <1>2
  <1>4. ~Recorded(o)
    BY <1>3 DEF Recorded, IdsInv, IdsFresh
  <1>5. ASSUME NEW p \in requests, NEW status, NEW s, Answered(p, status, s) PROVE ~Recorded(o)'
    <2>1. p.id # o.id
      BY <1>3 DEF IdsInv, IdsFresh, Issued
    <2>2. Record(p, status, s)
      BY <1>5 DEF Answered
    <2>3. DOMAIN answers' = DOMAIN answers \cup {p.id}
      BY <2>2, RecordFacts
    <2> QED
      BY <1>4, <2>1, <2>3 DEF Recorded
  <1> QED
    BY <1>4, <1>5, AnswerSteps DEF Recorded

\* A creation is of a record not acknowledged, and an outcome is of the operation's record.
ShapeInv == \A o \in Issued :
    /\ o.kind = "create" => o.base = 0
    /\ Recorded(o) => answers[o.id].rec = o.rec

LEMMA NewOpBase ==
  ASSUME TypeInv, NEW d \in Devices, NEW o \in NewOps(d)
  PROVE  /\ o.base = shadow[d][o.rec].ver
         /\ o.kind = "create" => o.base = 0
         /\ o.kind # "create" => Live(shadow[d][o.rec])
  <1>1. PICK r \in ToCreate(d) \cup ToUpdate(d) \cup ToDelete(d) : o = NewOp(d, r)
    BY DEF NewOps
  <1>2. o.rec = r /\ r \in Records /\ o.base = shadow[d][r].ver /\ shadow[d][r].ver \in Nat
    BY <1>1 DEF NewOp, ToCreate, ToUpdate, ToDelete, TypeInv, TypeOK, State
  <1>3. o.kind = "create" => r \in ToCreate(d)
    BY <1>1 DEF NewOp
  <1>4. o.kind # "create" => r \in ToDelete(d) \/ r \in ToUpdate(d)
    BY <1>1 DEF NewOp
  <1> QED
    BY <1>2, <1>3, <1>4 DEF ToCreate, ToUpdate, ToDelete, Known

LEMMA NextShapeInv == ASSUME TypeInv, ChainInv, IdsInv, ShapeInv, [Next]_vars PROVE ShapeInv'
  <1> SUFFICES ASSUME NEW o \in Issued'
               PROVE  (o.kind = "create" => o.base = 0) /\ (Recorded(o)' => answers'[o.id].rec = o.rec)
    BY DEF ShapeInv
  <1>1. ASSUME NEW d \in Devices, o \in NewOps(d)
        PROVE  (o.kind = "create" => o.base = 0) /\ (Recorded(o)' => answers'[o.id].rec = o.rec)
    BY <1>1, NewOpBase, NewIsFresh
  <1>2. CASE o \in Issued
    <2>1. ASSUME NEW p \in requests, NEW status, NEW s, Answered(p, status, s), Recorded(o)'
          PROVE  answers'[o.id].rec = o.rec
      <3>1. p.id = o.id => p = o
        BY <1>2 DEF IdsInv, IdsFresh, Issued
      <3>2. Record(p, status, s)
        BY <2>1 DEF Answered
      <3>3. /\ DOMAIN answers' = DOMAIN answers \cup {p.id}
            /\ \A i \in DOMAIN answers : i # p.id => answers'[i] = answers[i]
            /\ answers'[p.id] = [status |-> status, rec |-> p.rec, kind |-> p.kind, val |-> p.val, current |-> s]
        BY <3>2, RecordFacts, SMTT(60)
      <3>4. CASE p.id = o.id
        BY <3>1, <3>3, <3>4
      <3>5. CASE p.id # o.id
        BY <1>2, <2>1, <3>3, <3>5 DEF Recorded, ShapeInv
      <3> QED
        BY <3>4, <3>5
    <2>2. UNCHANGED answers => (Recorded(o)' => answers'[o.id].rec = o.rec)
      BY <1>2 DEF ShapeInv, Recorded
    <2> QED
      BY <1>2, <2>1, <2>2, AnswerSteps DEF ShapeInv
  <1> QED
    BY <1>1, <1>2, IssuedSteps

\* The cursor stays, starts over, or passes one change.
LEMMA CursorSteps ==
  ASSUME TypeInv, [Next]_vars, NEW d \in Devices
  PROVE  \/ cursor'[d] \in {cursor[d], 0}
         \/ /\ ApplyPage(d) /\ phase[d] = "page" /\ cursor[d] < Len(log)
            /\ cursor'[d] = cursor[d] + 1 /\ UNCHANGED <<server, log, answers>>
  <1> USE DEF TypeInv, TypeOK
  <1>1. ASSUME NEW e \in Devices, ApplyPage(e)
        PROVE  /\ phase[e] = "page" /\ cursor[e] < Len(log)
               /\ cursor' = [cursor EXCEPT ![e] = cursor[e] + 1] /\ UNCHANGED <<server, log, answers>>
    <2>1. AdvanceCursor(e)
      BY <1>1 DEF ApplyPage, SkipKnown, UpdateConflict, Converge, RaiseConflict, NoteTombstone, Adopt
    <2> QED
      BY <2>1 DEF AdvanceCursor, NextCursor, serverVars, PageIsThere
  <1>2. ASSUME NEW e \in Devices, StartPull(e) PROVE cursor'[d] \in {cursor[d], 0}
    BY <1>2, SMTT(60) DEF StartPull
  <1>3. ASSUME NEW e \in Devices, SyncStep(e) \/ Resolve(e), ~ApplyPage(e), ~StartPull(e) PROVE UNCHANGED cursor
    BY <1>3 DEF SyncStep, Resolve, Begin, PushRound, StopPushing, Acknowledge, FetchPage, TimeOut, EndRun,
                KeepLocal, AcceptRemote, storeVars
  <1>4. ASSUME UserStep PROVE UNCHANGED cursor
    BY <1>4 DEF UserStep, Create, Edit, Delete, ResetHistory, WriteLocal, WebCreate, WebUpdate, WebDelete,
                WebWrite, storeVars
  <1>5. ASSUME ServerStep PROVE UNCHANGED cursor
    BY <1>5 DEF ServerStep, AnswerAgain, ApplyOp, AcceptUnchanged, ConflictOp, RejectOp, Receive, storeVars
  <1>6. ASSUME FaultStep PROVE UNCHANGED cursor
    BY <1>6 DEF FaultStep, LoseRequest, Interrupt, Refuse, EndRun, storeVars
  <1>7. ASSUME UNCHANGED vars PROVE UNCHANGED cursor
    BY <1>7 DEF vars, storeVars
  <1> QED
    BY <1>1, <1>2, <1>3, <1>4, <1>5, <1>6, <1>7 DEF Next

LEMMA NextSeen ==
  ASSUME TypeInv, ChainInv, FeedOrder, ShapeInv, Seen, [Next]_vars
  PROVE  Seen'
  <1>1. \A d \in Devices, r \in Records : \A o \in OpsOf(d, r) :
           Recorded(o) => Had(r, answers[o.id].current)
    <2> TAKE d \in Devices, r \in Records
    <2> TAKE o \in OpsOf(d, r)
    <2>1. o \in Issued /\ o.rec = r
      BY DEF OpsOf, Issued
    <2> QED
      BY <2>1 DEF ShapeInv, Seen, Recorded
  <1>2. \A d \in Devices, r \in Records : \A s : News(d, r, s) => Had(r, s)
    BY DEF News, Had
  <1>3. ASSUME NEW d \in Devices, NEW r \in Records PROVE Had(r, shadow'[d][r])
    <2>1. RecordStep(d, r)
      BY NextRecords
    <2>2. SameBase(d, r) \/ Applied(d, r) \/ Converged(d, r) \/ Noted(d, r) \/ Adopted(d, r) \/ Kept(d, r) \/ TookRemote(d, r)
      BY <2>1 DEF RecordStep, Same, Worked, PrepareStep, Queued, Forgot, Disputed, AnswerStep, Failed, Refused,
                  PageStep, Updated, Raised
    <2>3. CASE SameBase(d, r)
      BY <2>3 DEF SameBase, Seen
    <2>4. CASE Applied(d, r)
      BY <1>1, <2>4 DEF Applied
    <2>5. CASE Converged(d, r) \/ Noted(d, r) \/ Adopted(d, r)
      BY <1>2, <2>5 DEF Converged, Noted, Adopted
    <2>6. CASE Kept(d, r) \/ TookRemote(d, r)
      BY <2>6 DEF Kept, TookRemote, Seen
    <2> QED
      BY <2>2, <2>3, <2>4, <2>5, <2>6
  <1>4. ASSUME NEW d \in Devices, NEW r \in Records, NEW c \in DisputesOf(d, r)' PROVE Had(r, c.remote)
    <2>1. RecordStep(d, r)
      BY NextRecords
    <2>2. \/ DisputesOf(d, r)' = DisputesOf(d, r) \/ Disputed(d, r) \/ Failed(d, r) \/ Refused(d, r)
          \/ Updated(d, r) \/ Raised(d, r) \/ DisputesOf(d, r)' = {}
      BY <2>1 DEF RecordStep, Same, SameDisputes, Worked, PrepareStep, Queued, Forgot, AnswerStep, Applied,
                  PageStep, Converged, Noted, Adopted, Kept, TookRemote
    <2>3. \A s : Dispute(r, s).remote = s
      BY DEF Dispute
    <2>4. CASE DisputesOf(d, r)' = DisputesOf(d, r)
      BY <2>4 DEF Seen
    <2>5. CASE Disputed(d, r)
      BY <2>3, <2>5 DEF Disputed, Seen
    <2>6. CASE Failed(d, r)
      BY <1>1, <2>3, <2>6 DEF Failed
    <2>7. CASE Refused(d, r)
      BY <2>3, <2>7 DEF Refused, Had
    <2>8. CASE Updated(d, r) \/ Raised(d, r)
      BY <1>2, <2>3, <2>8 DEF Updated, Raised
    <2> QED
      BY <2>2, <2>4, <2>5, <2>6, <2>7, <2>8
  <1>5. ASSUME NEW i \in DOMAIN answers' PROVE Had(answers[i].rec, answers[i].current)'
    <2>1. CASE UNCHANGED answers
      <3>1. PICK q, s : q = answers[i].rec /\ s = answers[i].current
        OBVIOUS
      <3>2. Had(q, s)'
        BY <2>1, <3>1, HadGrows DEF Seen
      <3> QED
        BY <2>1, <3>1, <3>2 DEF Had
    <2>2. ASSUME NEW o \in requests, NEW status, NEW s, Answered(o, status, s)
          PROVE  Had(answers[i].rec, answers[i].current)'
      <3>1. Record(o, status, s) /\ o.rec \in Records
        BY <2>2 DEF Answered, Op, TypeInv, TypeOK
      <3>2. /\ DOMAIN answers' = DOMAIN answers \cup {o.id}
            /\ \A j \in DOMAIN answers : j # o.id => answers'[j] = answers[j]
            /\ answers'[o.id] = [status |-> status, rec |-> o.rec, kind |-> o.kind, val |-> o.val, current |-> s]
        BY <3>1, RecordFacts
      <3>3. CASE i = o.id
        <4>1. answers'[i].rec = o.rec /\ answers'[i].current = s
          BY <3>2, <3>3
        <4>2. Had(o.rec, server[o.rec]) /\ Had(o.rec, server[o.rec])'
          BY <3>1, NextFeedOrder DEF FeedOrder
        <4>3. Had(o.rec, s) \/ Had(o.rec, s)'
          BY <2>2, <4>2 DEF Answered, Had
        <4>4. Had(o.rec, s)'
          BY <4>3, HadGrows
        <4> QED
          BY <4>1, <4>4 DEF Had
      <3>4. CASE i # o.id
        <4>1. PICK q, t : q = answers[i].rec /\ t = answers[i].current
          OBVIOUS
        <4>2. Had(q, t)'
          BY <3>2, <3>4, <4>1, HadGrows DEF Seen
        <4>3. answers'[i] = answers[i]
          BY <1>5, <3>2, <3>4
        <4> QED
          BY <4>1, <4>2, <4>3 DEF Had
      <3> QED
        BY <3>3, <3>4
    <2> QED
      BY <2>1, <2>2, AnswerSteps
  <1>6. ASSUME NEW d \in Devices PROVE cursor'[d] <= Len(log')
    <2>1. Len(log) \in Nat /\ Len(log') \in Nat /\ Len(log) <= Len(log')
      <3>1. CASE UNCHANGED <<server, log>>
        BY <3>1 DEF TypeInv, TypeOK
      <3>2. ASSUME NEW r \in Records, NEW s \in State, Commit(r, s) PROVE Len(log) \in Nat /\ Len(log') = Len(log) + 1
        BY <3>2 DEF Commit, TypeInv, TypeOK
      <3> QED
        BY <3>1, <3>2, FeedSteps
    <2>2. cursor[d] \in Nat /\ cursor[d] <= Len(log)
      BY DEF Seen, TypeInv, TypeOK
    <2>3. cursor'[d] \in {cursor[d], 0} \/ (cursor[d] < Len(log) /\ cursor'[d] = cursor[d] + 1)
      BY CursorSteps
    <2> QED
      BY <2>1, <2>2, <2>3
  <1>7. \A d \in Devices, r \in Records : Had(r, shadow[d][r])'
    <2> TAKE d \in Devices, r \in Records
    <2>1. PICK s : s = shadow'[d][r]
      OBVIOUS
    <2> QED
      BY <1>3, <2>1, HadGrows
  <1>8. \A d \in Devices, r \in Records : \A c \in DisputesOf(d, r)' : Had(r, c.remote)'
    BY <1>4, HadGrows
  <1> QED
    BY <1>5, <1>6, <1>7, <1>8 DEF Seen

-----------------------------------------------------------------------------
(* Operations, outcomes and conflicts against what was acknowledged.        *)

\* The device's own changes to the record that the server accepted.
Own(d, r) == {i \in DOMAIN answers : i[1] = d /\ answers[i].rec = r /\ answers[i].status = "applied"}

\* An operation is based on a state its device has acknowledged.
BasesInv == \A o \in Issued : o.base <= shadow[o.id[1]][o.rec].ver

\* An operation waiting for its answer is based on what the device acknowledged last (but
\* for executions, whose copy a reset removes), after every earlier change of its own.
OpKnows(d, r, o) ==
    /\ r \notin Executions => o.base = shadow[d][r].ver
    /\ o.kind # "create" /\ o.base = shadow[d][r].ver => Live(shadow[d][r])
    /\ \A i \in Own(d, r) : i # o.id => answers[i].current.ver <= o.base
    /\ Recorded(o) /\ answers[o.id].status = "applied" =>
          o.base = shadow[d][r].ver /\ o.base <= answers[o.id].current.ver
    /\ Recorded(o) /\ answers[o.id].status = "conflict" =>
          o.base < answers[o.id].current.ver /\ shadow[d][r].ver <= answers[o.id].current.ver
    /\ Recorded(o) /\ answers[o.id].status = "rejected" => answers[o.id].current = Absent

\* A conflict is about a state newer than all the device made or acknowledged.
ConflictKnows(d, r, s) == Known(s) =>
    /\ shadow[d][r].ver <= s.ver
    /\ \A i \in Own(d, r) : answers[i].current.ver < s.ver

\* A change accepted from the device is acknowledged, or its operation still waits.
OwnKnown(d, r) == \A i \in Own(d, r) :
    answers[i].current.ver <= shadow[d][r].ver \/ \E o \in OpsOf(d, r) : o.id = i

KnownOf(d, r) ==
    /\ \A o \in OpsOf(d, r) : OpKnows(d, r, o)
    /\ \A c \in DisputesOf(d, r) : ConflictKnows(d, r, c.remote)
    /\ OwnKnown(d, r)

KnownInv == \A d \in Devices, r \in Records : KnownOf(d, r)

\* A record that exists anywhere has been minted.
BornInv ==
    /\ \A r \in Records : Known(server[r]) => r \in born
    /\ \A d \in Devices, r \in Records :
          local[d][r].st # "none" \/ dirty[d][r] > 0 \/ OpsOf(d, r) # {} \/ DisputesOf(d, r) # {} => r \in born

\* A live copy is of a record the device does not know to be deleted, but for a task type
\* minted again after its deletion was noted; of that, and of a record never stored here,
\* the device made no change the server accepted.
KnownDead(d, r) == IsLive(d, r) /\ Known(shadow[d][r]) /\ shadow[d][r].dead

LiveInv == \A d \in Devices, r \in Records :
    /\ KnownDead(d, r) => r \in TaskTypes /\ Own(d, r) = {}
    /\ r \in Derived /\ local[d][r].st = "none" => ~Known(shadow[d][r])
    /\ r \notin Executions /\ local[d][r].st = "none" => Own(d, r) = {}

\* An operation based on the state last acknowledged speaks for the copy, also of an execution.
Speaks(d, r) == \A o \in OpsOf(d, r) :
    o.base = shadow[d][r].ver /\ local[d][r].st # "none" =>
        /\ o.rev <= dirty[d][r] /\ dirty[d][r] > 0
        /\ o.rev = dirty[d][r] => o.dead = ~IsLive(d, r) /\ (o.kind # "delete" => o.val = local[d][r].val)
        /\ o.dead => ~IsLive(d, r)

ExecInv == \A d \in Devices, r \in Records : Speaks(d, r) /\ MarkedOrSynced(d, r)

-----------------------------------------------------------------------------
(* What a device acknowledged only moves to newer states.                   *)

LEMMA BaseType ==
  ASSUME TypeInv, NEW d \in Devices, NEW r \in Records
  PROVE  shadow[d][r] \in State /\ shadow[d][r].ver \in Nat /\ dirty[d][r] \in Nat /\ local[d][r] \in Copy
  BY DEF TypeInv, TypeOK, State

LEMMA OpTypes ==
  ASSUME TypeInv, IdsInv, NEW d \in Devices, NEW r \in Records, NEW o \in OpsOf(d, r)
  PROVE  /\ o \in Op /\ o \in Issued /\ o \in outbox[d] /\ o.rec = r /\ o.id[1] = d
         /\ o.base \in Nat /\ o.rev \in Nat
         /\ Recorded(o) => answers[o.id] \in Result /\ answers[o.id].current.ver \in Nat
  <1>1. o \in Op /\ o \in Issued /\ o \in outbox[d] /\ o.rec = r
    BY DEF OpsOf, Issued, TypeInv, TypeOK
  <1>2. o.id[1] = d
    BY <1>1 DEF IdsInv, IdsFresh
  <1>3. Recorded(o) => answers[o.id] \in Result /\ answers[o.id].current.ver \in Nat
    BY DEF Recorded, TypeInv, TypeOK, Result, State
  <1> QED
    BY <1>1, <1>2, <1>3 DEF Op

LEMMA BaseGrows ==
  ASSUME TypeInv, ChainInv, IdsInv, FeedOrder, ShapeInv, Seen, [Next]_vars, NEW d \in Devices, NEW r \in Records, KnownOf(d, r)
  PROVE  shadow'[d][r] = shadow[d][r] \/ shadow'[d][r].ver > shadow[d][r].ver
  <1>1. RecordStep(d, r)
    BY NextRecords
  <1>2. SameBase(d, r) \/ Applied(d, r) \/ Converged(d, r) \/ Noted(d, r) \/ Adopted(d, r) \/ Kept(d, r) \/ TookRemote(d, r)
    BY <1>1 DEF RecordStep, Same, Worked, PrepareStep, Queued, Forgot, Disputed, AnswerStep, Failed, Refused,
                PageStep, Updated, Raised
  <1>3. Had(r, shadow[d][r]) /\ shadow[d][r].ver \in Nat
    BY BaseType DEF Seen
  <1>4. ASSUME NEW s, Had(r, s), shadow[d][r].ver <= s.ver PROVE s = shadow[d][r] \/ s.ver > shadow[d][r].ver
    <2>1. s.ver \in Nat
      BY <1>4, HadFacts
    <2> QED
      BY <1>3, <1>4, <2>1, HadUnique
  <1>5. CASE Applied(d, r)
    <2>1. PICK o \in OpsOf(d, r) : Recorded(o) /\ answers[o.id].status = "applied" /\ shadow'[d][r] = answers[o.id].current
      BY <1>5 DEF Applied
    <2>2. shadow[d][r].ver <= answers[o.id].current.ver
      BY <2>1 DEF KnownOf, OpKnows
    <2>3. Had(r, answers[o.id].current)
      BY <2>1, OpTypes DEF ShapeInv, Seen, Recorded
    <2> QED
      BY <1>4, <2>1, <2>2, <2>3
  <1>6. CASE Converged(d, r) \/ Noted(d, r) \/ Adopted(d, r)
    BY <1>6 DEF Converged, Noted, Adopted, News
  <1>7. CASE Kept(d, r) \/ TookRemote(d, r)
    <2>1. PICK c \in DisputesOf(d, r) : shadow'[d][r] = IF Known(c.remote) THEN c.remote ELSE shadow[d][r]
      BY <1>7 DEF Kept, TookRemote
    <2>2. Had(r, c.remote) /\ (Known(c.remote) => shadow[d][r].ver <= c.remote.ver)
      BY <2>1 DEF Seen, KnownOf, ConflictKnows
    <2> QED
      BY <1>4, <2>1, <2>2
  <1> QED
    BY <1>2, <1>5, <1>6, <1>7 DEF SameBase

LEMMA NextBasesInv ==
  ASSUME TypeInv, ChainInv, IdsInv, FeedOrder, ShapeInv, Seen, KnownInv, BasesInv, [Next]_vars
  PROVE  BasesInv'
  <1>1. \A d \in Devices, r \in Records : shadow[d][r].ver \in Nat /\ shadow'[d][r].ver \in Nat
                                          /\ shadow[d][r].ver <= shadow'[d][r].ver
    <2> TAKE d \in Devices, r \in Records
    <2>1. shadow[d][r].ver \in Nat /\ shadow'[d][r].ver \in Nat
      BY NextTypeInv DEF TypeInv, TypeOK, State
    <2>2. shadow'[d][r] = shadow[d][r] \/ shadow'[d][r].ver > shadow[d][r].ver
      BY BaseGrows DEF KnownInv
    <2> QED
      BY <2>1, <2>2
  <1>2. ASSUME NEW o \in Issued PROVE o.base <= shadow'[o.id[1]][o.rec].ver
    <2>1. o.id[1] \in Devices /\ o.rec \in Records /\ o.base \in Nat
      BY DEF Issued, TypeInv, TypeOK, Op, OpId
    <2> QED
      BY <1>1, <2>1 DEF BasesInv
  <1>3. ASSUME NEW d \in Devices, NEW o \in NewOps(d) PROVE o.base <= shadow'[o.id[1]][o.rec].ver
    <2>1. o.rec \in Records /\ o.id = <<d, SeqOf(d, o.rec)>>
      BY NewOpFacts
    <2>2. o.id[1] = d /\ o.base = shadow[d][o.rec].ver
      BY <2>1, NewOpBase
    <2> QED
      BY <1>1, <2>1, <2>2
  <1> QED
    BY <1>2, <1>3, IssuedSteps DEF BasesInv

\* A step of the device, the server staying as it is.
LEMMA KnownDevice ==
  ASSUME TypeInv, ChainInv, IdsInv, MarkInv, FeedOrder, SentInv, BasesInv, LiveInv, KnownInv, [Next]_vars,
         NEW d \in Devices, NEW r \in Records, ServerSame
  PROVE  KnownOf(d, r)'
  <1>1. RecordStep(d, r) /\ KnownOf(d, r)
    BY NextRecords DEF KnownInv
  <1>2. Own(d, r)' = Own(d, r) /\ answers' = answers /\ \A o : Recorded(o)' <=> Recorded(o)
    BY DEF ServerSame, Own, Recorded
  <1>3. shadow[d][r].ver \in Nat /\ \A i \in Own(d, r) : answers[i].current.ver \in Nat
    BY DEF TypeInv, TypeOK, State, Own, Result
  <1>4. \A o \in OpsOf(d, r) : o.base \in Nat /\ o.base <= shadow[d][r].ver /\ o.rec = r /\ o.id[1] = d
    BY OpTypes DEF BasesInv
  <1>5. \A s : Dispute(r, s).remote = s
    BY DEF Dispute
  <1>6. phase[d] = "page" => \A o \in OpsOf(d, r) : ~Recorded(o) /\ o.id \notin Own(d, r)
    BY DEF SentInv, SentFirst, NoneSent, Sent, OpsOf, Recorded, Own
  <1>7. phase[d] = "page" => \A i \in Own(d, r) : answers[i].current.ver <= shadow[d][r].ver
    BY <1>1, <1>6 DEF KnownOf, OwnKnown
  <1>8. \A s : News(d, r, s) => phase[d] = "page" /\ s.ver \in Nat /\ shadow[d][r].ver < s.ver
    BY DEF News, State
  <1>9. CASE SameBase(d, r) /\ SameOps(d, r) /\ SameDisputes(d, r)
    BY <1>1, <1>2, <1>9 DEF SameBase, SameOps, SameDisputes, KnownOf, OpKnows, ConflictKnows, OwnKnown
  <1>10. CASE Queued(d, r)
    <2>1. /\ OpsOf(d, r) = {} /\ OpsOf(d, r)' = {NewOp(d, r)} /\ DisputesOf(d, r)' = {}
          /\ shadow'[d][r] = shadow[d][r] /\ NewOp(d, r) \in NewOps(d) /\ NewOp(d, r).rec = r
      BY <1>10 DEF Queued, SameBase, SameDisputes, NewOp
    <2>2. \A i \in Own(d, r) : answers[i].current.ver <= shadow[d][r].ver
      BY <1>1, <2>1 DEF KnownOf, OwnKnown
    <2>3. /\ NewOp(d, r).base = shadow[d][r].ver
          /\ NewOp(d, r).kind # "create" => Live(shadow[d][r])
          /\ ~Recorded(NewOp(d, r))
      <3>1. PICK o \in NewOps(d) : o = NewOp(d, r) /\ o.rec = r
        BY <2>1
      <3>2. o.base = shadow[d][r].ver /\ (o.kind # "create" => Live(shadow[d][r])) /\ ~Recorded(o)
        BY <3>1, NewOpBase, NewIsFresh
      <3> QED
        BY <3>1, <3>2
    <2>5. OwnKnown(d, r)'
      BY <1>2, <2>1, <2>2 DEF OwnKnown
    <2>6. \A o \in OpsOf(d, r)' : OpKnows(d, r, o)'
      <3>1. PICK o : o = NewOp(d, r)
        OBVIOUS
      <3>2. OpKnows(d, r, o)'
        BY <1>2, <2>1, <2>2, <2>3, <3>1 DEF OpKnows
      <3> QED
        BY <2>1, <3>1, <3>2
    <2> QED
      BY <2>1, <2>5, <2>6 DEF KnownOf
  <1>11. CASE Disputed(d, r)
    <2>1. Own(d, r) = {}
      BY <1>11 DEF Disputed, ToDispute, LiveInv, KnownDead, Live, Known
    <2>2. OpsOf(d, r)' = {} /\ shadow'[d][r] = shadow[d][r] /\ DisputesOf(d, r)' = {Dispute(r, shadow[d][r])}
      BY <1>11 DEF Disputed, SameBase, SameOps
    <2>3. \A c \in DisputesOf(d, r)' : ConflictKnows(d, r, c.remote)'
      BY <1>2, <1>3, <1>5, <2>1, <2>2 DEF ConflictKnows
    <2> QED
      BY <1>2, <2>1, <2>2, <2>3 DEF KnownOf, OwnKnown
  <1>12. CASE Applied(d, r)
    <2>1. PICK o \in OpsOf(d, r) : /\ OpsOf(d, r) = {o} /\ Recorded(o) /\ answers[o.id].status = "applied"
                                   /\ shadow'[d][r] = answers[o.id].current
      BY <1>12 DEF Applied
    <2>2. OpsOf(d, r)' = {} /\ DisputesOf(d, r)' = {}
      BY <1>12 DEF Applied
    <2>3. /\ \A i \in Own(d, r) : i # o.id => answers[i].current.ver <= o.base
          /\ o.base <= answers[o.id].current.ver
      BY <1>1, <2>1 DEF KnownOf, OpKnows
    <2>4. answers[o.id].current.ver \in Nat /\ o.base \in Nat
      BY <2>1, OpTypes
    <2>5. \A i \in Own(d, r) : answers[i].current.ver <= answers[o.id].current.ver
      <3> TAKE i \in Own(d, r)
      <3> QED
        BY <1>3, <2>3, <2>4
    <2> QED
      BY <1>2, <2>1, <2>2, <2>5 DEF KnownOf, OwnKnown
  <1>13. CASE Failed(d, r)
    <2>1. PICK o \in OpsOf(d, r) : /\ OpsOf(d, r) = {o} /\ Recorded(o) /\ answers[o.id].status # "applied"
                                   /\ DisputesOf(d, r)' = {Dispute(r, answers[o.id].current)}
      BY <1>13 DEF Failed
    <2>2. OpsOf(d, r)' = {} /\ shadow'[d][r] = shadow[d][r]
      BY <1>13 DEF Failed, SameBase
    <2>3. answers[o.id].status \in {"conflict", "rejected"} /\ answers[o.id].current.ver \in Nat
      BY <2>1, OpTypes DEF Result
    <2>4. o.id \notin Own(d, r)
      BY <2>1 DEF Own
    <2>5. ConflictKnows(d, r, answers[o.id].current)
      <3>1. CASE answers[o.id].status = "rejected"
        BY <1>1, <2>1, <3>1 DEF KnownOf, OpKnows, ConflictKnows, Known, Absent
      <3>2. CASE answers[o.id].status = "conflict"
        <4>1. /\ o.base < answers[o.id].current.ver /\ shadow[d][r].ver <= answers[o.id].current.ver
              /\ \A i \in Own(d, r) : answers[i].current.ver <= o.base
          BY <1>1, <2>1, <2>4, <3>2 DEF KnownOf, OpKnows
        <4>2. \A i \in Own(d, r) : answers[i].current.ver < answers[o.id].current.ver
          <5> TAKE i \in Own(d, r)
          <5> QED
            BY <1>3, <1>4, <2>3, <4>1
        <4> QED
          BY <4>1, <4>2 DEF ConflictKnows
      <3> QED
        BY <2>3, <3>1, <3>2
    <2>6. \A i \in Own(d, r) : answers[i].current.ver <= shadow[d][r].ver
      BY <1>1, <2>1, <2>4 DEF KnownOf, OwnKnown
    <2>7. \A c \in DisputesOf(d, r)' : ConflictKnows(d, r, c.remote)'
      BY <1>2, <1>5, <2>1, <2>2, <2>5 DEF ConflictKnows
    <2> QED
      BY <1>2, <2>2, <2>6, <2>7 DEF KnownOf, OwnKnown
  <1>14. CASE Refused(d, r)
    <2>1. PICK o \in OpsOf(d, r) : OpsOf(d, r) = {o} /\ ~Recorded(o)
      BY <1>14 DEF Refused
    <2>2. OpsOf(d, r)' = {} /\ shadow'[d][r] = shadow[d][r] /\ DisputesOf(d, r)' = {Dispute(r, Absent)}
      BY <1>14 DEF Refused, SameBase
    <2>3. o.id \notin Own(d, r)
      BY <2>1 DEF Own, Recorded
    <2>4. \A i \in Own(d, r) : answers[i].current.ver <= shadow[d][r].ver
      BY <1>1, <2>1, <2>3 DEF KnownOf, OwnKnown
    <2>5. \A c \in DisputesOf(d, r)' : ConflictKnows(d, r, c.remote)'
      BY <1>5, <2>2 DEF ConflictKnows, Known, Absent
    <2> QED
      BY <1>2, <2>2, <2>4, <2>5 DEF KnownOf, OwnKnown
  <1>15. CASE Updated(d, r) \/ Raised(d, r)
    <2>1. PICK s : News(d, r, s) /\ DisputesOf(d, r)' = {Dispute(r, s)}
      BY <1>15 DEF Updated, Raised
    <2>2. OpsOf(d, r)' = {} /\ shadow'[d][r] = shadow[d][r]
      BY <1>15 DEF Updated, Raised, SameBase, SameOps
    <2>3. ConflictKnows(d, r, s)
      <3>1. \A i \in Own(d, r) : answers[i].current.ver < s.ver
        <4> TAKE i \in Own(d, r)
        <4> QED
          BY <1>3, <1>7, <1>8, <2>1
      <3> QED
        BY <1>3, <1>8, <2>1, <3>1 DEF ConflictKnows
    <2>4. \A c \in DisputesOf(d, r)' : ConflictKnows(d, r, c.remote)'
      BY <1>2, <1>5, <2>1, <2>2, <2>3 DEF ConflictKnows
    <2> QED
      BY <1>2, <1>7, <1>8, <2>1, <2>2, <2>4 DEF KnownOf, OwnKnown
  <1>16. CASE Converged(d, r) \/ Noted(d, r) \/ Adopted(d, r)
    <2>1. PICK s : News(d, r, s) /\ shadow'[d][r] = s
      BY <1>16 DEF Converged, Noted, Adopted
    <2>2. DisputesOf(d, r)' = {} /\ OpsOf(d, r)' \subseteq OpsOf(d, r)
      BY <1>16 DEF Converged, Noted, Adopted, SameDisputes, SameOps
    <2>3. OpsOf(d, r)' # {} => r \in Executions
      <3>1. Noted(d, r) /\ r \notin Executions => OpsOf(d, r) = {}
        BY DEF Noted, MarkInv, Marked, HasOps, OpsOf
      <3>2. Adopted(d, r) /\ r \notin Executions => OpsOf(d, r) = {}
        BY DEF Adopted, Pending, MarkInv, Marked, HasOps, OpsOf
      <3>3. Converged(d, r) => OpsOf(d, r)' = {}
        BY DEF Converged
      <3> QED
        BY <1>16, <2>2, <3>1, <3>2, <3>3
    <2>4. \A i \in Own(d, r) : answers[i].current.ver <= s.ver
      <3> TAKE i \in Own(d, r)
      <3> QED
        BY <1>3, <1>7, <1>8, <2>1
    <2>5. ASSUME NEW o \in OpsOf(d, r)' PROVE OpKnows(d, r, o)'
      <3>1. o \in OpsOf(d, r) /\ ~Recorded(o) /\ r \in Executions /\ o.base # s.ver
        BY <1>3, <1>4, <1>6, <1>8, <2>1, <2>2, <2>3, <2>5
      <3>2. \A i \in Own(d, r) : i # o.id => answers[i].current.ver <= o.base
        BY <1>1, <3>1 DEF KnownOf, OpKnows
      <3> QED
        BY <1>2, <2>1, <3>1, <3>2 DEF OpKnows
    <2> QED
      BY <1>2, <2>1, <2>2, <2>4, <2>5 DEF KnownOf, OwnKnown
  <1>17. CASE Kept(d, r) \/ TookRemote(d, r)
    <2>1. PICK c \in DisputesOf(d, r) : shadow'[d][r] = IF Known(c.remote) THEN c.remote ELSE shadow[d][r]
      BY <1>17 DEF Kept, TookRemote
    <2>2. OpsOf(d, r) = {} /\ OpsOf(d, r)' = {} /\ DisputesOf(d, r)' = {}
      BY <1>17 DEF Kept, TookRemote
    <2>3. \A i \in Own(d, r) : answers[i].current.ver <= shadow[d][r].ver
      BY <1>1, <2>2 DEF KnownOf, OwnKnown
    <2>4. Known(c.remote) => \A i \in Own(d, r) : answers[i].current.ver < c.remote.ver
      BY <1>1, <2>1 DEF KnownOf, ConflictKnows
    <2>6. c.remote.ver \in Nat
      BY <2>1 DEF DisputesOf, TypeInv, TypeOK, Conflict, State
    <2>7. \A i \in Own(d, r) : answers[i].current.ver <= shadow'[d][r].ver
      <3> TAKE i \in Own(d, r)
      <3> QED
        BY <1>3, <2>1, <2>3, <2>4, <2>6
    <2> QED
      BY <1>2, <2>2, <2>7 DEF KnownOf, OwnKnown
  <1>18. CASE Same(d, r) \/ Worked(d, r) \/ Forgot(d, r)
    BY <1>9, <1>18 DEF Same, Worked, Forgot
  <1> QED
    BY <1>1, <1>10, <1>11, <1>12, <1>13, <1>14, <1>15, <1>16, <1>17, <1>18
       DEF RecordStep, PrepareStep, AnswerStep, PageStep

\* The server answers an operation, the device staying as it is.
LEMMA KnownServer ==
  ASSUME TypeInv, ChainInv, IdsInv, FeedOrder, SentInv, ShapeInv, Seen, BasesInv, KnownInv, [Next]_vars,
         NEW d \in Devices, NEW r \in Records, Same(d, r),
         NEW p \in requests, NEW status, NEW s, Answered(p, status, s)
  PROVE  KnownOf(d, r)'
  <1>1. KnownOf(d, r)
    BY DEF KnownInv
  <1>2. /\ OpsOf(d, r)' = OpsOf(d, r) /\ DisputesOf(d, r)' = DisputesOf(d, r) /\ shadow'[d][r] = shadow[d][r]
    BY DEF Same, SameOps, SameDisputes, SameBase
  <1>3. ~Recorded(p) /\ Record(p, status, s) /\ p \in outbox[p.id[1]] /\ p \in Issued
    BY DEF Answered, SentInv, Issued
  <1>4. /\ DOMAIN answers' = DOMAIN answers \cup {p.id}
        /\ \A i \in DOMAIN answers : i # p.id => answers'[i] = answers[i]
        /\ answers'[p.id] = [status |-> status, rec |-> p.rec, kind |-> p.kind, val |-> p.val, current |-> s]
    BY <1>3, RecordFacts
  <1>5. \A i \in DOMAIN answers : answers'[i] = answers[i]
    BY <1>3, <1>4 DEF Recorded
  <1>6. \A i \in Own(d, r)' : \/ i \in Own(d, r) /\ answers'[i].current = answers[i].current
                              \/ i = p.id /\ p.id[1] = d /\ p.rec = r
    <2> TAKE i \in Own(d, r)'
    <2>1. i \in DOMAIN answers' /\ i[1] = d /\ answers'[i].rec = r /\ answers'[i].status = "applied"
      BY DEF Own
    <2>2. CASE i = p.id
      <3>1. answers'[i].rec = p.rec
        BY <1>4, <2>2
      <3> QED
        BY <2>1, <2>2, <3>1
    <2>3. CASE i # p.id
      BY <1>4, <1>5, <2>1, <2>3 DEF Own
    <2> QED
      BY <2>2, <2>3
  <1>7. \A o \in OpsOf(d, r) : o # p => (Recorded(o)' <=> Recorded(o)) /\ (Recorded(o) => answers'[o.id] = answers[o.id])
    <2> TAKE o \in OpsOf(d, r)
    <2>1. o.id = p.id => o = p
      BY <1>3, OpTypes DEF IdsInv, IdsFresh
    <2> QED
      BY <1>4, <1>5, <2>1 DEF Recorded
  <1>8. CASE p.id[1] = d /\ p.rec = r
    <2>1. OpsOf(d, r) = {p} /\ DisputesOf(d, r) = {}
      BY <1>3, <1>8 DEF OpsOf, DisputesOf, ChainInv, OneChain
    <2>2. /\ r \notin Executions => p.base = shadow[d][r].ver
          /\ p.kind # "create" /\ p.base = shadow[d][r].ver => Live(shadow[d][r])
          /\ \A i \in Own(d, r) : i # p.id => answers[i].current.ver <= p.base
      BY <1>1, <2>1 DEF KnownOf, OpKnows
    <2>3. p.base \in Nat /\ p.base <= shadow[d][r].ver /\ (p.kind = "create" => p.base = 0)
      BY <1>3, <1>8, <2>1, OpTypes DEF BasesInv, ShapeInv
    <2>4. Had(r, shadow[d][r]) /\ Had(r, server[r]) /\ shadow[d][r].ver \in Nat /\ server[r].ver \in Nat
      BY BaseType, HadFacts DEF Seen, FeedOrder
    <2>5. shadow[d][r].ver <= server[r].ver
      BY <2>4, HadFacts
    <2>6. shadow[d][r].ver = server[r].ver => shadow[d][r] = server[r]
      BY <2>4, HadUnique
    <2>7. s.ver \in Nat
      <3>1. server'[r] \in State
        BY NextTypeInv DEF TypeInv, TypeOK
      <3> QED
        BY <1>8, <2>4, <3>1, AbsentType DEF Answered, State
    <2>8. status = "applied" => p.base = shadow[d][r].ver /\ p.base <= s.ver
      <3> SUFFICES ASSUME status = "applied" PROVE p.base = shadow[d][r].ver /\ p.base <= s.ver
        OBVIOUS
      <3>1. server[r].ver <= s.ver /\ (Fits(p, server[r]) \/ (p.kind = "create" /\ r \in Derived \cup TaskTypes))
        BY <1>8 DEF Answered
      <3>2. CASE p.kind = "create" /\ r \in Derived \cup TaskTypes
        BY <2>2, <2>3, <2>4, <2>7, <3>2, RecordsAssumption
      <3>3. CASE Fits(p, server[r])
        BY <2>3, <2>4, <2>5, <2>7, <3>1, <3>3 DEF Fits, Known
      <3> QED
        BY <3>1, <3>2, <3>3
    <2>9. status = "conflict" => p.base < s.ver /\ shadow[d][r].ver <= s.ver
      <3> SUFFICES ASSUME status = "conflict" PROVE p.base < s.ver /\ shadow[d][r].ver <= s.ver
        OBVIOUS
      <3>1. s = server[r] /\ ~Fits(p, server[r])
        BY <1>8 DEF Answered
      <3>2. CASE p.kind = "create"
        BY <2>3, <2>4, <2>5, <3>1, <3>2 DEF Fits, Known
      <3>3. CASE p.kind # "create"
        <4>1. server[r].dead \/ server[r].ver # p.base
          BY <3>1, <3>3 DEF Fits
        <4>2. server[r].ver # p.base
          BY <2>2, <2>3, <2>4, <2>5, <2>6, <3>3, <4>1 DEF Live
        <4> QED
          BY <2>3, <2>4, <2>5, <3>1, <4>2
      <3> QED
        BY <3>2, <3>3
    <2>10. status = "rejected" => s = Absent
      BY DEF Answered
    <2>11. answers'[p.id].status = status /\ answers'[p.id].current = s
      BY <1>4
    <2>12. \A i \in Own(d, r)' : i # p.id => answers'[i].current.ver <= p.base
      BY <1>6, <2>2
    <2>13. OpKnows(d, r, p)'
      BY <1>2, <2>2, <2>8, <2>9, <2>10, <2>11, <2>12 DEF OpKnows
    <2>14. OwnKnown(d, r)'
      <3>1. \A i \in Own(d, r)' : i = p.id \/ answers'[i].current.ver <= shadow[d][r].ver
        <4> TAKE i \in Own(d, r)'
        <4>1. CASE i = p.id
          BY <4>1
        <4>2. CASE i # p.id
          <5>1. i \in Own(d, r) /\ answers'[i].current = answers[i].current
            BY <1>6, <4>2
          <5>2. answers[i].current.ver <= shadow[d][r].ver
            BY <1>1, <2>1, <4>2, <5>1 DEF KnownOf, OwnKnown
          <5> QED
            BY <5>1, <5>2
        <4> QED
          BY <4>1, <4>2
      <3> QED
        BY <1>2, <2>1, <3>1 DEF OwnKnown
    <2> QED
      BY <1>2, <2>1, <2>13, <2>14 DEF KnownOf
  <1>9. CASE ~(p.id[1] = d /\ p.rec = r)
    <2>1. \A i \in Own(d, r)' : i \in Own(d, r) /\ answers'[i].current = answers[i].current
      BY <1>6, <1>9
    <2>2. \A o \in OpsOf(d, r) : o # p
      BY <1>9, OpTypes
    <2>3. \A o \in OpsOf(d, r) : OpKnows(d, r, o)'
      BY <1>1, <1>2, <1>7, <2>1, <2>2 DEF KnownOf, OpKnows
    <2>4. \A c \in DisputesOf(d, r) : ConflictKnows(d, r, c.remote)'
      BY <1>1, <1>2, <2>1 DEF KnownOf, ConflictKnows
    <2>5. OwnKnown(d, r)'
      BY <1>1, <1>2, <2>1 DEF KnownOf, OwnKnown
    <2> QED
      BY <1>2, <2>3, <2>4, <2>5 DEF KnownOf
  <1> QED
    BY <1>8, <1>9

LEMMA NextKnownInv ==
  ASSUME TypeInv, ChainInv, IdsInv, MarkInv, FeedOrder, ShapeInv, Seen, SentInv, BasesInv, LiveInv, KnownInv, [Next]_vars
  PROVE  KnownInv'
  <1> SUFFICES ASSUME NEW d \in Devices, NEW r \in Records PROVE KnownOf(d, r)'
    BY DEF KnownInv
  <1>1. CASE ServerSame
    BY <1>1, KnownDevice
  <1>2. CASE ~ServerSame /\ UNCHANGED answers
    <2>1. Same(d, r) /\ KnownOf(d, r)
      BY <1>2, NextRecords DEF KnownInv
    <2> QED
      BY <1>2, <2>1 DEF Same, SameBase, SameOps, SameDisputes, KnownOf, OpKnows, ConflictKnows, OwnKnown, Own, Recorded
  <1>3. CASE ~ServerSame /\ ~UNCHANGED answers
    <2>1. Same(d, r)
      BY <1>3, NextRecords
    <2>2. PICK p \in requests : \E status, s : Answered(p, status, s)
      BY <1>3, AnswerSteps
    <2> QED
      BY <2>1, <2>2, KnownServer
  <1> QED
    BY <1>1, <1>2, <1>3

-----------------------------------------------------------------------------
(* Records, copies and operations of executions.                            *)

LEMMA RecordedStates ==
  ASSUME NEW d \in Devices, NEW r \in Records
  PROVE  /\ HasOps(d, r) <=> OpsOf(d, r) # {}
         /\ HasConflict(d, r) <=> DisputesOf(d, r) # {}
         /\ HasConflict(d, r)' <=> DisputesOf(d, r)' # {}
  BY DEF HasOps, HasConflict, OpsOf, DisputesOf

LEMMA BornGrows == ASSUME [Next]_vars PROVE born \subseteq born'
  <1>1. UserStep => born \subseteq born'
    BY DEF UserStep, Create, Edit, Delete, ResetHistory, WebCreate, WebUpdate, WebDelete
  <1>2. ASSUME NEW d \in Devices, SyncStep(d) \/ Resolve(d) PROVE UNCHANGED born
    BY <1>2 DEF SyncStep, Resolve, Begin, PushRound, StopPushing, Acknowledge, StartPull, FetchPage, TimeOut, EndRun,
           ApplyPage, SkipKnown, UpdateConflict, Converge, RaiseConflict, NoteTombstone, Adopt, AdvanceCursor,
           KeepLocal, AcceptRemote
  <1>3. ServerStep => UNCHANGED born
    BY DEF ServerStep, AnswerAgain, ApplyOp, AcceptUnchanged, ConflictOp, RejectOp, Receive
  <1>4. FaultStep => UNCHANGED born
    BY DEF FaultStep, LoseRequest, Interrupt, Refuse, EndRun
  <1> QED
    BY <1>1, <1>2, <1>3, <1>4 DEF Next, vars

\* Only minting, or an operation of a device, adds a record to the server.
LEMMA NewKnown ==
  ASSUME TypeInv, [Next]_vars, NEW r \in Records, Known(server'[r])
  PROVE  Known(server[r]) \/ r \in born' \/ \E o \in requests : ~Recorded(o) /\ o.rec = r
  <1> USE DEF TypeInv, TypeOK
  <1>1. CASE UserStep
    <2>1. ASSUME NEW q \in Records, NEW v \in Values, WebCreate(q, v) PROVE Known(server[r]) \/ r \in born'
      BY <2>1 DEF WebCreate, WebWrite, Commit
    <2>2. ASSUME NEW q \in Records, NEW v \in Values, WebUpdate(q, v) PROVE Known(server[r])
      BY <2>2 DEF WebUpdate, WebWrite, Commit, Live, Known
    <2>3. ASSUME NEW q \in Records, WebDelete(q) PROVE Known(server[r])
      BY <2>3 DEF WebDelete, WebWrite, Commit, Live, Known
    <2>4. ASSUME UNCHANGED server PROVE Known(server[r])
      BY <2>4
    <2> QED
      BY <1>1, <2>1, <2>2, <2>3, <2>4 DEF UserStep, Create, Edit, Delete, ResetHistory, WriteLocal, serverVars
  <1>2. ASSUME NEW o \in requests, ApplyOp(o) PROVE Known(server[r]) \/ (~Recorded(o) /\ o.rec = r)
    BY <1>2 DEF ApplyOp, Commit, KnownId
  <1>3. CASE ServerStep
    BY <1>2, <1>3, SMTT(60) DEF ServerStep, AnswerAgain, AcceptUnchanged, ConflictOp, RejectOp, serverVars
  <1>4. ASSUME NEW d \in Devices, SyncStep(d) \/ Resolve(d) PROVE UNCHANGED server
    BY <1>4 DEF SyncStep, Resolve, Begin, PushRound, StopPushing, Acknowledge, StartPull, FetchPage, TimeOut,
                EndRun, ApplyPage, SkipKnown, UpdateConflict, Converge, RaiseConflict, NoteTombstone, Adopt,
                AdvanceCursor, KeepLocal, AcceptRemote, serverVars
  <1>5. CASE FaultStep
    BY <1>5 DEF FaultStep, LoseRequest, Interrupt, Refuse, EndRun, serverVars
  <1>6. CASE UNCHANGED vars
    BY <1>6 DEF vars, serverVars
  <1> QED
    BY <1>1, <1>3, <1>4, <1>5, <1>6 DEF Next

LEMMA NextBornInv ==
  ASSUME TypeInv, ChainInv, FeedOrder, SentInv, BornInv, [Next]_vars
  PROVE  BornInv'
  <1>1. ASSUME NEW r \in Records, Known(server'[r]) PROVE r \in born'
    <2>1. ASSUME NEW o \in requests, ~Recorded(o), o.rec = r PROVE r \in born
      <3>1. o.id[1] \in Devices /\ o \in OpsOf(o.id[1], r)
        BY <2>1 DEF SentInv, OpsOf, TypeInv, TypeOK, Op, OpId
      <3> QED
        BY <3>1 DEF BornInv
    <2> QED
      BY <1>1, <2>1, NewKnown, BornGrows DEF BornInv
  <1>2. ASSUME NEW d \in Devices, NEW r \in Records
        PROVE  local'[d][r].st # "none" \/ dirty'[d][r] > 0 \/ OpsOf(d, r)' # {} \/ DisputesOf(d, r)' # {} => r \in born'
    <2>1. RecordStep(d, r)
      BY NextRecords
    <2>2. CASE r \in born
      BY <2>2, BornGrows
    <2>3. CASE r \notin born
      <3>1. local[d][r].st = "none" /\ dirty[d][r] = 0 /\ OpsOf(d, r) = {} /\ DisputesOf(d, r) = {}
        BY <2>3, BaseType DEF BornInv
      <3>2. \A s : ~News(d, r, s)
        <4>1. ASSUME NEW s, News(d, r, s) PROVE FALSE
          <5>1. Had(r, s) /\ s.ver \in Nat /\ s.ver > 0
            BY <4>1, BaseType DEF News, Had, State
          <5>2. Known(server[r])
            BY <5>1, HadFacts, SMTT(60) DEF Known, TypeInv, TypeOK, State
          <5> QED
            BY <2>3, <5>2 DEF BornInv
        <4> QED
          BY <4>1
      <3>3. Same(d, r) \/ Worked(d, r)
        BY <2>1, <3>1, <3>2, NewOpFacts
           DEF RecordStep, PrepareStep, Queued, Forgot, ToForget, Disputed, ToDispute, Purged, Changed,
               AnswerStep, Applied, Failed, Refused, PageStep, Updated, Converged, Raised, Noted, Adopted,
               Kept, TookRemote, NewOp
      <3>4. CASE Same(d, r)
        BY <3>1, <3>4 DEF Same, SameCopy, SameMark, SameOps, SameDisputes
      <3>5. CASE Worked(d, r)
        BY <3>1, <3>5 DEF Worked
      <3> QED
        BY <3>3, <3>4, <3>5
    <2> QED
      BY <2>2, <2>3
  <1> QED
    BY <1>1, <1>2 DEF BornInv

\* Operations are of copies a device has, but for executions.
LEMMA NoCopyNoWork ==
  ASSUME MarkInv, NEW d \in Devices, NEW r \in Records, r \notin Executions, local[d][r].st = "none"
  PROVE  dirty[d][r] = 0 /\ OpsOf(d, r) = {} /\ DisputesOf(d, r) = {}
  BY RecordedStates DEF MarkInv, Marked

LEMMA AnswerCarries ==
  ASSUME TypeInv, IdsInv, NEW d \in Devices, NEW r \in Records, NEW o \in OpsOf(d, r),
         Recorded(o), answers[o.id].status = "applied"
  PROVE  /\ Known(answers[o.id].current) /\ answers[o.id].current.dead = o.dead
         /\ ~o.dead /\ ~MintsType(o) => answers[o.id].current.val = o.val
         /\ o.kind = "delete" => o.dead
         /\ MintsType(o) => ~o.dead
         /\ answers[o.id].rec = r /\ answers[o.id].kind = o.kind /\ answers[o.id].val = o.val
         /\ answers[o.id].current \in State
  <1>1. o \in Issued /\ o.rec = r
    BY OpTypes
  <1> QED
    BY <1>1 DEF IdsInv, AnswersMatch, Carries, Recorded, TypeInv, TypeOK, Result

\* A device's own accepted changes grow only by the answer to an operation of its.
LEMMA OwnSteps ==
  ASSUME TypeInv, SentInv, [Next]_vars, NEW d \in Devices, NEW r \in Records, OpsOf(d, r) = {}
  PROVE  Own(d, r)' = Own(d, r)
  <1>1. CASE UNCHANGED answers
    BY <1>1 DEF Own
  <1>2. ASSUME NEW p \in requests, NEW status, NEW s, Answered(p, status, s) PROVE Own(d, r)' = Own(d, r)
    <2>1. ~Recorded(p) /\ Record(p, status, s) /\ p \in outbox[p.id[1]]
      BY <1>2 DEF Answered, SentInv
    <2>2. ~(p.id[1] = d /\ p.rec = r)
      BY <2>1 DEF OpsOf
    <2>3. /\ DOMAIN answers' = DOMAIN answers \cup {p.id}
          /\ \A i \in DOMAIN answers : i # p.id => answers'[i] = answers[i]
          /\ answers'[p.id].rec = p.rec
      <3>1. /\ DOMAIN answers' = DOMAIN answers \cup {p.id}
            /\ \A i \in DOMAIN answers : i # p.id => answers'[i] = answers[i]
            /\ answers'[p.id] = [status |-> status, rec |-> p.rec, kind |-> p.kind, val |-> p.val,
                                current |-> s]
        BY <2>1, RecordFacts
      <3> QED
        BY <3>1
    <2>4. \A i \in Own(d, r) : i \in Own(d, r)'
      BY <2>1, <2>3 DEF Own, Recorded
    <2>5. \A i \in Own(d, r)' : i \in Own(d, r)
      BY <2>1, <2>2, <2>3 DEF Own, Recorded
    <2> QED
      BY <2>4, <2>5
  <1> QED
    BY <1>1, <1>2, AnswerSteps

\* No operation waits of a live copy whose record the device knows to be deleted.
LEMMA DeadNoWork ==
  ASSUME TypeInv, IdsInv, ShapeInv, KnownInv, LiveInv, NEW d \in Devices, NEW r \in Records, KnownDead(d, r)
  PROVE  OpsOf(d, r) = {}
  <1> SUFFICES ASSUME NEW o \in OpsOf(d, r) PROVE FALSE
    OBVIOUS
  <1>1. r \notin Executions
    BY RecordsAssumption DEF LiveInv
  <1>2. o.base = shadow[d][r].ver /\ (o.kind # "create" => Live(shadow[d][r]))
    BY <1>1 DEF KnownInv, KnownOf, OpKnows
  <1>3. o.kind # "create"
    BY <1>2, OpTypes, BaseType DEF ShapeInv, KnownDead, Known
  <1> QED
    BY <1>2, <1>3 DEF KnownDead, Live

LEMMA NextLiveInv ==
  ASSUME TypeInv, ChainInv, IdsInv, MarkInv, FeedOrder, ShapeInv, Seen, SentInv, BornInv, KnownInv, ExecInv, LiveInv,
         [Next]_vars
  PROVE  LiveInv'
  <1> SUFFICES ASSUME NEW d \in Devices, NEW r \in Records
               PROVE  /\ KnownDead(d, r)' => r \in TaskTypes /\ Own(d, r)' = {}
                      /\ r \in Derived /\ local'[d][r].st = "none" => ~Known(shadow'[d][r])
                      /\ r \notin Executions /\ local'[d][r].st = "none" => Own(d, r)' = {}
    BY DEF LiveInv
  <1>1. RecordStep(d, r)
    BY NextRecords
  <1>2. /\ KnownDead(d, r) => r \in TaskTypes /\ Own(d, r) = {}
        /\ r \in Derived /\ local[d][r].st = "none" => ~Known(shadow[d][r])
        /\ r \notin Executions /\ local[d][r].st = "none" => Own(d, r) = {}
    BY DEF LiveInv
  <1>3. r \in Derived => r \notin Executions
    BY RecordsAssumption
  <1>a. KnownDead(d, r) => Own(d, r)' = {}
    BY <1>2, DeadNoWork, OwnSteps
  <1>b. r \notin Executions /\ local[d][r].st = "none" => Own(d, r)' = {}
    BY <1>2, NoCopyNoWork, OwnSteps
  <1>4. CASE SameCopy(d, r) /\ SameBase(d, r)
    BY <1>2, <1>4, <1>a, <1>b DEF SameCopy, SameBase, IsLive, KnownDead
  <1>5. CASE Worked(d, r)
    <2>1. Known(shadow[d][r]) => r \in born
      <3>1. Had(r, shadow[d][r]) /\ shadow[d][r].ver \in Nat /\ server[r].ver \in Nat
        BY BaseType DEF Seen, TypeInv, TypeOK, State
      <3>2. shadow[d][r].ver <= server[r].ver
        BY <3>1, HadFacts
      <3> QED
        BY <3>1, <3>2 DEF BornInv, Known
    <2>2. shadow'[d][r] = shadow[d][r]
      BY <1>5 DEF Worked, SameBase
    <2>3. CASE local[d][r].st = "none" /\ local'[d][r].st = "live" /\ Mintable(r)
      <3>1. Known(shadow[d][r]) => r \in TaskTypes
        BY <1>2, <2>1, <2>3 DEF Mintable
      <3> QED
        BY <1>b, <2>2, <2>3, <3>1, RecordsAssumption DEF KnownDead
    <2>4. CASE local[d][r].st = "live" /\ local'[d][r].st \in {"live", "dead"}
      BY <1>2, <1>a, <2>2, <2>4 DEF KnownDead, IsLive
    <2>5. CASE r \in Executions /\ local'[d][r].st = "none"
      BY <1>3, <2>5 DEF KnownDead, IsLive
    <2> QED
      BY <1>5, <2>3, <2>4, <2>5 DEF Worked
  <1>6. CASE Applied(d, r)
    <2>1. PICK o \in OpsOf(d, r) : Recorded(o) /\ answers[o.id].status = "applied" /\ shadow'[d][r] = answers[o.id].current
      BY <1>6 DEF Applied
    <2>2. SameCopy(d, r)
      BY <1>6 DEF Applied
    <2>3. o.base = shadow[d][r].ver
      BY <2>1 DEF KnownInv, KnownOf, OpKnows
    <2>4. IsLive(d, r) => ~o.dead
      BY <2>3 DEF ExecInv, Speaks, IsLive
    <2>5. r \notin Executions => local[d][r].st # "none"
      BY <2>1, NoCopyNoWork
    <2> QED
      BY <1>3, <2>1, <2>2, <2>4, <2>5, AnswerCarries DEF SameCopy, IsLive, KnownDead
  <1>7. CASE Converged(d, r) \/ Adopted(d, r)
    <2>1. PICK s : shadow'[d][r] = s /\ local'[d][r] = CopyOf(s)
      BY <1>7 DEF Converged, Adopted, SameCopy
    <2>2. CopyOf(s).st = (IF s.dead THEN "dead" ELSE "live")
      BY DEF CopyOf
    <2> QED
      BY <2>1, <2>2 DEF IsLive, KnownDead
  <1>8. CASE Noted(d, r)
    BY <1>8, <1>b DEF Noted, SameCopy, IsLive, KnownDead
  <1>9. CASE Kept(d, r)
    <2>1. r \notin Executions => local[d][r].st # "none"
      BY <1>9, NoCopyNoWork DEF Kept
    <2>2. SameBase(d, r) \/ ~shadow'[d][r].dead
      BY <1>9 DEF Kept, SameBase
    <2> QED
      BY <1>2, <1>3, <1>9, <1>a, <2>1, <2>2 DEF Kept, SameCopy, SameBase, IsLive, KnownDead
  <1>10. CASE TookRemote(d, r)
    <2>1. r \notin Executions => local[d][r].st # "none"
      BY <1>10, NoCopyNoWork DEF TookRemote
    <2>2. PICK c \in conflicts[d] : /\ local'[d][r] = Accepted(local[d][r], c.remote, shadow[d][r])
                                    /\ shadow'[d][r] = IF Known(c.remote) THEN c.remote ELSE shadow[d][r]
      BY <1>10 DEF TookRemote
    <2> QED
      BY <1>3, <2>1, <2>2 DEF Accepted, CopyOf, IsLive, KnownDead
  <1> QED
    BY <1>1, <1>4, <1>5, <1>6, <1>7, <1>8, <1>9, <1>10
       DEF RecordStep, Same, PrepareStep, Queued, Forgot, Disputed, AnswerStep, Failed, Refused,
           PageStep, Updated, Raised

LEMMA SpeaksStays ==
  ASSUME TypeInv, ChainInv, IdsInv, MarkInv, BasesInv, BornInv, ExecInv, [Next]_vars, NEW d \in Devices, NEW r \in Records
  PROVE  Speaks(d, r)'
  <1>1. RecordStep(d, r) /\ Speaks(d, r)
    BY NextRecords DEF ExecInv
  <1>2. shadow[d][r].ver \in Nat /\ dirty[d][r] \in Nat
    BY BaseType
  <1>3. \A o \in OpsOf(d, r) : o.rev \in Nat /\ o.base \in Nat /\ o.base <= shadow[d][r].ver
    BY OpTypes DEF BasesInv
  <1>4. CASE SameCopy(d, r) /\ SameMark(d, r) /\ SameBase(d, r) /\ SameOps(d, r)
    BY <1>1, <1>4 DEF SameCopy, SameMark, SameBase, SameOps, Speaks, IsLive
  <1>5. CASE OpsOf(d, r)' = {}
    BY <1>5 DEF Speaks
  <1>6. CASE Worked(d, r)
    <2>1. OpsOf(d, r)' = OpsOf(d, r) /\ shadow'[d][r] = shadow[d][r] /\ dirty'[d][r] = dirty[d][r] + 1
      BY <1>6 DEF Worked, SameOps, SameBase
    <2>2. CASE local[d][r].st = "none" /\ Mintable(r)
      <3>1. r \in Derived \cup TaskTypes => OpsOf(d, r) = {}
        BY <2>2, NoCopyNoWork, RecordsAssumption
      <3>2. r \notin born => OpsOf(d, r) = {}
        BY DEF BornInv
      <3> QED
        BY <1>5, <2>1, <2>2, <3>1, <3>2 DEF Mintable
    <2>3. CASE local[d][r].st = "live"
      <3>1. \A o \in OpsOf(d, r) : o.base = shadow[d][r].ver => o.rev < dirty'[d][r] /\ dirty'[d][r] > 0 /\ ~o.dead
        <4> TAKE o \in OpsOf(d, r)
        <4>1. o.base = shadow[d][r].ver => o.rev <= dirty[d][r] /\ ~o.dead
          BY <1>1, <2>3 DEF Speaks, IsLive
        <4> QED
          BY <1>2, <1>3, <2>1, <4>1
      <3>2. \A o \in OpsOf(d, r) : o.rev < dirty'[d][r] => o.rev <= dirty'[d][r] /\ o.rev # dirty'[d][r]
        BY <1>2, <1>3, <2>1
      <3> QED
        BY <2>1, <3>1, <3>2 DEF Speaks
    <2>4. CASE local'[d][r].st = "none"
      BY <2>4 DEF Speaks
    <2> QED
      BY <1>6, <2>2, <2>3, <2>4 DEF Worked
  <1>7. CASE Queued(d, r)
    <2>1. PICK o \in NewOps(d) : OpsOf(d, r)' = {o} /\ o.rec = r
      BY <1>7 DEF Queued, NewOp
    <2>2. /\ o.rev = dirty[d][r] /\ o.rev > 0 /\ o.dead = ~IsLive(d, r)
          /\ o.val = local[d][r].val
      BY <2>1, NewOpFacts
    <2>3. local'[d][r] = local[d][r] /\ dirty'[d][r] = dirty[d][r]
      BY <1>7 DEF Queued, SameCopy, SameMark
    <2>4. IsLive(d, r)' = IsLive(d, r)
      BY <2>3 DEF IsLive
    <2>5. o.dead => ~IsLive(d, r)
      BY <2>2
    <2>6. \A p \in OpsOf(d, r)' : p = o
      BY <2>1
    <2>7. o.rev <= dirty'[d][r] /\ dirty'[d][r] > 0 /\ (o.dead = ~IsLive(d, r)') /\ o.val = local'[d][r].val
      BY <1>2, <2>2, <2>3, <2>4
    <2> QED
      BY <2>4, <2>5, <2>6, <2>7 DEF Speaks
  <1>8. CASE Forgot(d, r)
    <2>1. local[d][r].st = "none" \/ OpsOf(d, r) = {}
      BY <1>8 DEF Forgot, ToForget, Purged, Changed, Waiting, HasOps, OpsOf
    <2> QED
      BY <1>5, <1>8, <2>1 DEF Forgot, SameCopy, SameOps, Speaks
  <1>9. CASE Noted(d, r) \/ Adopted(d, r)
    <2>1. OpsOf(d, r)' = OpsOf(d, r)
      BY <1>9 DEF Noted, Adopted, SameOps
    <2>2. shadow'[d][r].ver > shadow[d][r].ver /\ shadow'[d][r].ver \in Nat
      BY <1>9 DEF Noted, Adopted, News, State
    <2>3. \A o \in OpsOf(d, r) : o.base # shadow'[d][r].ver
      BY <1>2, <1>3, <2>2
    <2> QED
      BY <2>1, <2>3 DEF Speaks
  <1>10. CASE Disputed(d, r) \/ Updated(d, r)
    BY <1>5, <1>10 DEF Disputed, Updated, SameOps
  <1>11. CASE Same(d, r)
    BY <1>4, <1>11 DEF Same
  <1>12. CASE AnswerStep(d, r) \/ Converged(d, r) \/ Raised(d, r) \/ Kept(d, r) \/ TookRemote(d, r)
    BY <1>5, <1>12 DEF AnswerStep, Applied, Failed, Refused, Converged, Raised, Kept, TookRemote
  <1> QED
    BY <1>1, <1>6, <1>7, <1>8, <1>9, <1>10, <1>11, <1>12 DEF RecordStep, PrepareStep, PageStep

\* A mark forgotten, or a server state taken over, leaves the copy as acknowledged.
LEMMA TakesOver ==
  ASSUME TypeInv, NEW d \in Devices, NEW r \in Records, local'[d][r].st # "none",
         Forgot(d, r) \/ Converged(d, r) \/ Adopted(d, r) \/ TookRemote(d, r)
  PROVE  Matches(local'[d][r], shadow'[d][r])
  <1>1. CASE Forgot(d, r)
    <2>1. local'[d][r] = local[d][r] /\ shadow'[d][r] = shadow[d][r]
      BY <1>1 DEF Forgot, SameCopy, SameBase
    <2> QED
      BY <1>1, <2>1 DEF Forgot, ToForget, Purged, Changed, IsLive, NothingToSend, Matches
  <1>2. CASE Converged(d, r) \/ Adopted(d, r)
    <2>1. \A s : News(d, r, s) => s.ver > 0
      BY BaseType DEF News, State
    <2> QED
      BY <1>2, <2>1, CopyMatches DEF Converged, Adopted, SameCopy
  <1>3. CASE TookRemote(d, r)
    <2>1. PICK c \in conflicts[d] : /\ local'[d][r] = Accepted(local[d][r], c.remote, shadow[d][r])
                                    /\ shadow'[d][r] = IF Known(c.remote) THEN c.remote ELSE shadow[d][r]
      BY <1>3 DEF TookRemote
    <2>2. CASE Known(c.remote)
      <3>1. local'[d][r] = CopyOf(c.remote)
        BY <2>1, <2>2 DEF Accepted
      <3> QED
        BY <2>1, <2>2, <3>1, CopyMatches DEF Known
    <2>3. CASE ~Known(c.remote) /\ Known(shadow[d][r])
      BY <2>1, <2>3, CopyMatches DEF Accepted, Known
    <2>4. CASE ~Known(c.remote) /\ ~Known(shadow[d][r])
      <3>1. local'[d][r].st # "live"
        BY <2>1, <2>4 DEF Accepted
      <3> QED
        BY <2>1, <2>4, <3>1 DEF Matches, Live, Known
    <2> QED
      BY <2>2, <2>3, <2>4
  <1> QED
    BY <1>1, <1>2, <1>3

\* What an operation at the mark's revision was answered with is what the device holds, but
\* for the label of a task type.
LEMMA AnswerMatches ==
  ASSUME TypeInv, IdsInv, ShapeInv, KnownInv, ExecInv, NEW d \in Devices, NEW r \in Records, local[d][r].st # "none",
         NEW o \in OpsOf(d, r), Recorded(o), answers[o.id].status = "applied", o.rev = dirty[d][r]
  PROVE  /\ ~MintsType(o) => Matches(local[d][r], answers[o.id].current)
         /\ MintsType(o) => /\ r \in TaskTypes /\ Live(answers[o.id].current) /\ shadow[d][r].ver = 0
                            /\ local[d][r] = [st |-> "live", val |-> o.val]
  <1> DEFINE s == answers[o.id].current
  <1>1. o.base = shadow[d][r].ver /\ local[d][r] \in Copy
    BY BaseType DEF KnownInv, KnownOf, OpKnows
  <1>2. o.dead = ~IsLive(d, r) /\ (o.kind # "delete" => o.val = local[d][r].val)
    BY <1>1 DEF ExecInv, Speaks
  <1>3. /\ Known(s) /\ s.dead = o.dead /\ (o.kind = "delete" => o.dead)
        /\ ~o.dead /\ ~MintsType(o) => s.val = o.val
        /\ MintsType(o) => ~o.dead
    BY AnswerCarries
  <1>4. ASSUME ~MintsType(o) PROVE Matches(local[d][r], s)
    <2>1. CASE IsLive(d, r)
      <3>1. ~s.dead /\ s.val = local[d][r].val /\ local[d][r].st = "live"
        BY <1>2, <1>3, <1>4, <2>1 DEF IsLive
      <3>2. local[d][r] = CopyOf(s)
        BY <1>1, <3>1 DEF CopyOf, Copy
      <3> QED
        BY <1>3, <3>2, CopyMatches DEF Known
    <2>2. CASE ~IsLive(d, r)
      BY <1>2, <1>3, <2>2 DEF Matches, Live, IsLive
    <2> QED
      BY <2>1, <2>2
  <1>5. ASSUME MintsType(o)
        PROVE  /\ r \in TaskTypes /\ Live(s) /\ shadow[d][r].ver = 0
               /\ local[d][r] = [st |-> "live", val |-> o.val]
    <2>1. o.kind = "create" /\ r \in TaskTypes /\ o.base = 0
      BY <1>5, OpTypes DEF MintsType, ShapeInv
    <2>2. IsLive(d, r) /\ o.val = local[d][r].val /\ Live(s)
      BY <1>2, <1>3, <1>5, <2>1 DEF Live, Known
    <2> QED
      BY <1>1, <2>1, <2>2 DEF IsLive, Copy
  <1> QED
    BY <1>4, <1>5

LEMMA ExecMarked ==
  ASSUME TypeInv, ChainInv, IdsInv, ShapeInv, KnownInv, ExecInv, [Next]_vars, NEW d \in Devices, NEW r \in Records
  PROVE  MarkedOrSynced(d, r)'
  <1>1. RecordStep(d, r) /\ MarkedOrSynced(d, r)
    BY NextRecords DEF ExecInv
  <1>2. dirty[d][r] \in Nat /\ AnswersGrow
    BY BaseType, NextAnswers
  <1>3. CASE DisputesOf(d, r)' # {}
    BY <1>3, RecordedStates DEF MarkedOrSynced
  <1>4. CASE SameCopy(d, r) /\ SameMark(d, r) /\ SameBase(d, r) /\ SameDisputes(d, r)
    <2>1. KeepsLabel(d, r) => KeepsLabel(d, r)'
      BY <1>2, <1>4, LabelStays DEF SameCopy, SameBase
    <2> QED
      BY <1>1, <1>4, <2>1, RecordedStates DEF SameCopy, SameMark, SameBase, SameDisputes, MarkedOrSynced
  <1>5. CASE dirty'[d][r] = dirty[d][r] + 1
    BY <1>2, <1>5 DEF MarkedOrSynced
  <1>6. CASE Forgot(d, r) \/ Converged(d, r) \/ Adopted(d, r) \/ TookRemote(d, r)
    BY <1>6, TakesOver DEF MarkedOrSynced
  <1>7. CASE Applied(d, r)
    <2>1. PICK o \in OpsOf(d, r) : /\ Recorded(o) /\ answers[o.id].status = "applied"
                                   /\ shadow'[d][r] = answers[o.id].current
                                   /\ dirty'[d][r] = MarkAfter(dirty[d][r], o.rev)
      BY <1>7 DEF Applied
    <2>2. local'[d][r] = local[d][r]
      BY <1>7 DEF Applied, SameCopy
    <2>3. CASE local[d][r].st = "none"
      BY <2>2, <2>3 DEF MarkedOrSynced
    <2>4. CASE local[d][r].st # "none" /\ o.rev # dirty[d][r]
      <3>1. o.base = shadow[d][r].ver
        BY <2>1 DEF KnownInv, KnownOf, OpKnows
      <3>2. dirty[d][r] > 0
        BY <2>4, <3>1 DEF ExecInv, Speaks
      <3> QED
        BY <2>1, <2>4, <3>2 DEF MarkAfter, MarkedOrSynced
    <2>5. CASE local[d][r].st # "none" /\ o.rev = dirty[d][r] /\ ~MintsType(o)
      BY <2>1, <2>2, <2>5, AnswerMatches DEF MarkedOrSynced
    <2>6. CASE local[d][r].st # "none" /\ o.rev = dirty[d][r] /\ MintsType(o)
      <3>1. r \in TaskTypes /\ Live(answers[o.id].current) /\ local[d][r] = [st |-> "live", val |-> o.val]
        BY <2>1, <2>6, AnswerMatches
      <3>2. o.id \in DOMAIN answers' /\ answers'[o.id] = answers[o.id] /\ o.id[1] = d
        BY <1>2, <2>1, OpTypes DEF AnswersGrow, Recorded
      <3>3. answers[o.id].rec = r /\ answers[o.id].kind = "create" /\ answers[o.id].val = o.val
        BY <2>1, <2>6, AnswerCarries DEF MintsType
      <3>4. KeepsLabel(d, r)'
        BY <2>1, <2>2, <3>1, <3>2, <3>3 DEF KeepsLabel, Live
      <3> QED
        BY <3>4 DEF MarkedOrSynced
    <2> QED
      BY <2>3, <2>4, <2>5, <2>6
  <1>9. CASE Noted(d, r)
    BY <1>9 DEF Noted, SameCopy, MarkedOrSynced
  <1>11. CASE Disputed(d, r) \/ Failed(d, r) \/ Refused(d, r) \/ Updated(d, r) \/ Raised(d, r)
    BY <1>3, <1>11 DEF Disputed, Failed, Refused, Updated, Raised
  <1>12. CASE Same(d, r) \/ Queued(d, r)
    BY <1>4, <1>12 DEF Same, Queued
  <1>13. CASE Worked(d, r) \/ Kept(d, r)
    BY <1>5, <1>13 DEF Worked, Kept
  <1> QED
    BY <1>1, <1>6, <1>7, <1>9, <1>11, <1>12, <1>13 DEF RecordStep, PrepareStep, AnswerStep, PageStep

-----------------------------------------------------------------------------
(* The invariant, whole.                                                    *)

DeviceInv == TypeInv /\ ChainInv /\ IdsInv /\ MarkInv
FeedInv == FeedOrder /\ ShapeInv /\ Seen /\ SentInv /\ BasesInv /\ KnownInv
CopyInv == BornInv /\ LiveInv /\ ExecInv

LEMMA InitFeedInv == Init => DeviceInv /\ FeedInv /\ CopyInv
  <1> SUFFICES ASSUME Init PROVE DeviceInv /\ FeedInv /\ CopyInv
    OBVIOUS
  <1>1. DeviceInv
    BY InitTypeInv, InitMarkInv DEF DeviceInv
  <1>2. Issued = {} /\ answers = [i \in {} |-> Absent] /\ log = <<>> /\ requests = {}
    BY DEF Init, Issued
  <1>3. \A d \in Devices : /\ outbox[d] = {} /\ conflicts[d] = {} /\ cursor[d] = 0 /\ phase[d] = "idle" /\ rounds[d] = 0
                           /\ \A r \in Records : /\ OpsOf(d, r) = {} /\ DisputesOf(d, r) = {}
                                                 /\ local[d][r] = NoCopy /\ dirty[d][r] = 0 /\ shadow[d][r] = Absent
    BY DEF Init, OpsOf, DisputesOf
  <1>4. FeedOrder /\ ShapeInv /\ Seen
    BY <1>2, <1>3 DEF Init, FeedOrder, ShapeInv, Seen, Had
  <1>5. SentInv
    BY <1>2, <1>3, FS_EmptySet DEF SentInv, SentFirst, NoneSent
  <1>6. BasesInv /\ KnownInv
    BY <1>2, <1>3 DEF BasesInv, KnownInv, KnownOf, OwnKnown, Own
  <1>7. CopyInv
    BY <1>2, <1>3 DEF Init, CopyInv, BornInv, LiveInv, KnownDead, Own, ExecInv, Speaks, MarkedOrSynced, NoCopy, Known,
                      Absent, IsLive
  <1> QED
    BY <1>1, <1>4, <1>5, <1>6, <1>7 DEF FeedInv

LEMMA NextFeedInv == ASSUME DeviceInv, FeedInv, CopyInv, [Next]_vars PROVE (DeviceInv /\ FeedInv /\ CopyInv)'
  <1> USE DEF DeviceInv, FeedInv, CopyInv
  <1>1. DeviceInv'
    BY NextTypeInv, NextChainInv, NextIdsInv, NextMarkInv
  <1>2. FeedOrder' /\ ShapeInv' /\ Seen'
    BY NextFeedOrder, NextShapeInv, NextSeen
  <1>3. SentInv' /\ BasesInv' /\ KnownInv'
    BY NextSentInv, NextBasesInv, NextKnownInv
  <1>4. BornInv' /\ LiveInv'
    BY NextBornInv, NextLiveInv
  <1>5. ExecInv'
    BY SpeaksStays, ExecMarked DEF ExecInv
  <1> QED
    BY <1>1, <1>2, <1>3, <1>4, <1>5

LEMMA FeedCorrect == Spec => [](DeviceInv /\ FeedInv /\ CopyInv)
  BY InitFeedInv, NextFeedInv, PTL DEF Spec

\* An execution that differs here from what was acknowledged carries a mark or an open
\* conflict, whatever history resets do between a request and its answer.
THEOREM ExecutionsAreMarked == Spec => []ExecutionChangeIsMarked
  <1>1. ExecInv => ExecutionChangeIsMarked
    BY RecordsAssumption DEF ExecInv, ExecutionChangeIsMarked
  <1> QED
    BY <1>1, FeedCorrect, PTL DEF CopyInv

\* The feed never shows a device its own accepted change as a conflict: an operation whose
\* answer was lost is answered again before the feed is read.
THEOREM EchoesAreKnown == Spec => []EchoNeverConflicts
  <1>1. ASSUME TypeInv, KnownInv PROVE EchoNeverConflicts
    <2> SUFFICES ASSUME NEW d \in Devices, NEW c \in conflicts[d], NEW i \in DOMAIN answers,
                        i[1] = d, answers[i].rec = c.rec, answers[i].status = "applied", Known(c.remote)
                 PROVE  answers[i].current.ver < c.remote.ver
      BY DEF EchoNeverConflicts
    <2>1. c.rec \in Records
      BY <1>1 DEF TypeInv, TypeOK, Conflict
    <2>2. KnownOf(d, c.rec) /\ c \in DisputesOf(d, c.rec) /\ i \in Own(d, c.rec)
      BY <1>1, <2>1 DEF KnownInv, DisputesOf, Own
    <2> QED
      BY <2>2 DEF KnownOf, ConflictKnows
  <1> QED
    BY <1>1, FeedCorrect, PTL DEF DeviceInv, FeedInv

\* What a device acknowledged of a record never goes back: not by a late answer, a replayed
\* feed, or the decision of an old conflict.
THEOREM BasesNeverRegress == Spec => ShadowNeverRegresses
  <1> DEFINE Grows == \A d \in Devices, r \in Records :
                shadow'[d][r] # shadow[d][r] => shadow'[d][r].ver > shadow[d][r].ver
  <1>1. ASSUME DeviceInv, FeedInv, [Next]_vars PROVE Grows
    <2> TAKE d \in Devices, r \in Records
    <2>1. KnownOf(d, r)
      BY <1>1 DEF FeedInv, KnownInv
    <2> QED
      BY <1>1, <2>1, BaseGrows DEF DeviceInv, FeedInv
  <1>2. DeviceInv /\ FeedInv /\ [Next]_vars => [Grows]_vars
    BY <1>1
  <1> QED
    BY <1>2, FeedCorrect, PTL DEF Spec, ShadowNeverRegresses

\* A push overwrites only a state its device had acknowledged when the server took it.
LEMMA PushSaw ==
  ASSUME DeviceInv, FeedInv, NEW o \in requests, ApplyOp(o)
  PROVE  shadow[o.id[1]][o.rec] = server[o.rec]
  <1> DEFINE d == o.id[1]
             r == o.rec
  <1>1. d \in Devices /\ r \in Records /\ o.base \in Nat /\ o \in Issued
    BY DEF DeviceInv, TypeInv, TypeOK, Op, OpId, Issued
  <1>2. o.base <= shadow[d][r].ver
    BY <1>1 DEF FeedInv, BasesInv
  <1>3. Had(r, shadow[d][r]) /\ Had(r, server[r]) /\ TypeInv /\ FeedOrder
    BY <1>1 DEF FeedInv, Seen, FeedOrder, DeviceInv
  <1> HIDE DEF d, r
  <1>4. shadow[d][r].ver \in Nat /\ server[r].ver \in Nat /\ shadow[d][r].ver <= server[r].ver
    BY <1>1, <1>3, HadFacts
  <1>5. Fits(o, server[r])
    BY DEF ApplyOp, r
  <1>6. shadow[d][r].ver = server[r].ver
    BY <1>1, <1>2, <1>4, <1>5 DEF Fits, Known
  <1>7. shadow[d][r] = server[r]
    BY <1>1, <1>3, <1>6, HadUnique
  <1> QED
    BY <1>7 DEF d, r

LEMMA ServerMoves ==
  ASSUME TypeInv, [Next]_vars, writes' = writes
  PROVE  UNCHANGED <<server, log>> \/ \E o \in requests : ApplyOp(o)
  <1>1. ~UserStep
    <2>1. UserStep => Write
      BY DEF UserStep, Create, Edit, Delete, ResetHistory, WebCreate, WebUpdate, WebDelete, WebWrite
    <2>2. writes \in Nat
      BY LimitAssumption DEF TypeInv, TypeOK
    <2> QED
      BY <2>1, <2>2 DEF Write
  <1>2. ASSUME NEW d \in Devices, SyncStep(d) \/ Resolve(d) PROVE UNCHANGED <<server, log>>
    BY <1>2 DEF SyncStep, Resolve, Begin, PushRound, StopPushing, Acknowledge, StartPull, FetchPage, TimeOut,
                EndRun, ApplyPage, SkipKnown, UpdateConflict, Converge, RaiseConflict, NoteTombstone, Adopt,
                AdvanceCursor, KeepLocal, AcceptRemote, serverVars
  <1>3. CASE ServerStep
    BY <1>3 DEF ServerStep, AnswerAgain, AcceptUnchanged, ConflictOp, RejectOp, serverVars
  <1>4. CASE FaultStep
    BY <1>4 DEF FaultStep, LoseRequest, Interrupt, Refuse, EndRun, serverVars
  <1>5. CASE UNCHANGED vars
    BY <1>5 DEF vars, serverVars
  <1> QED
    BY <1>1, <1>2, <1>3, <1>4, <1>5 DEF Next

\* No change of another device or of the web is lost to a push, even one delayed or sent
\* twice: the state it replaces is the one its device had acknowledged.
THEOREM PushesSawWhatTheyReplace == Spec => OverwritesOnlyWhatItSaw
  <1> DEFINE Saw == \A r \in Records :
                server'[r] # server[r] /\ writes' = writes =>
                    \E o \in requests : /\ o.rec = r /\ o.id \in DOMAIN answers' \ DOMAIN answers
                                        /\ shadow[o.id[1]][r] = server[r]
  <1>1. ASSUME DeviceInv, FeedInv, [Next]_vars PROVE Saw
    <2> SUFFICES ASSUME NEW r \in Records, server'[r] # server[r], writes' = writes
                 PROVE  \E o \in requests : /\ o.rec = r /\ o.id \in DOMAIN answers' \ DOMAIN answers
                                            /\ shadow[o.id[1]][r] = server[r]
      OBVIOUS
    <2>1. PICK o \in requests : ApplyOp(o)
      BY <1>1, ServerMoves DEF DeviceInv
    <2>2. o.rec = r
      BY <1>1, <2>1 DEF ApplyOp, Commit, DeviceInv, TypeInv, TypeOK
    <2>3. o.id \in DOMAIN answers' \ DOMAIN answers
      <3>1. PICK s : Record(o, "applied", s)
        BY <2>1 DEF ApplyOp
      <3>2. DOMAIN answers' = DOMAIN answers \cup {o.id}
        BY <3>1, RecordFacts
      <3> QED
        BY <2>1, <3>2 DEF ApplyOp, KnownId, Recorded
    <2>4. shadow[o.id[1]][r] = server[r]
      BY <1>1, <2>1, <2>2, PushSaw
    <2> QED
      BY <2>2, <2>3, <2>4
  <1>2. DeviceInv /\ FeedInv /\ [Next]_vars => [Saw]_vars
    BY <1>1
  <1> QED
    BY <1>2, FeedCorrect, PTL DEF Spec, OverwritesOnlyWhatItSaw

-----------------------------------------------------------------------------
(* The cursor.                                                              *)

\* An entry has reached the device: acknowledged, or held by the record's open conflict.
Reached(d, e) ==
    \/ e.state.ver <= shadow[d][e.rec].ver
    \/ \E c \in DisputesOf(d, e.rec) : e.state.ver <= c.remote.ver

LEMMA ReachedStays ==
  ASSUME DeviceInv, FeedInv, [Next]_vars, NEW d \in Devices, NEW i \in 1 .. cursor[d], Reached(d, log[i])
  PROVE  Reached(d, log[i])'
  <1> USE DEF DeviceInv, FeedInv
  <1>1. PICK e : e = log[i]
    OBVIOUS
  <1>2. i \in DOMAIN log /\ e \in Entry /\ cursor[d] \in Nat /\ DOMAIN log = 1 .. Len(log) /\ Len(log) \in Nat
    BY <1>1 DEF Seen, TypeInv, TypeOK
  <1>3. log'[i] = e
    <2>1. ASSUME NEW r \in Records, NEW s \in State, Commit(r, s) PROVE log'[i] = log[i]
      BY <1>2, <2>1 DEF Commit, TypeInv, TypeOK, Entry
    <2> QED
      BY <1>1, <2>1, FeedSteps
  <1>4. PICK r : r = e.rec /\ r \in Records
    BY <1>2 DEF Entry
  <1>5. /\ e.state.ver \in Nat /\ 0 < e.state.ver /\ shadow[d][r].ver \in Nat /\ shadow'[d][r].ver \in Nat
        /\ shadow[d][r].ver <= shadow'[d][r].ver
    <2>1. e.state.ver \in Nat /\ 0 < e.state.ver
      BY <1>1, <1>2 DEF Entry, State, FeedOrder
    <2>2. shadow[d][r].ver \in Nat /\ shadow'[d][r].ver \in Nat
      BY <1>4, NextTypeInv, ZenonT(60) DEF TypeInv, TypeOK, State
    <2>3. shadow'[d][r] = shadow[d][r] \/ shadow'[d][r].ver > shadow[d][r].ver
      BY <1>4, BaseGrows DEF KnownInv
    <2> QED
      BY <2>1, <2>2, <2>3
  <1>6. RecordStep(d, r)
    BY <1>4, NextRecords
  <1>7. SUFFICES e.state.ver <= shadow'[d][r].ver \/ \E c \in DisputesOf(d, r)' : e.state.ver <= c.remote.ver
    BY <1>3, <1>4 DEF Reached
  <1>8. CASE e.state.ver <= shadow[d][r].ver
    BY <1>5, <1>8
  <1>9. ASSUME NEW c \in DisputesOf(d, r), e.state.ver <= c.remote.ver
        PROVE  e.state.ver <= shadow'[d][r].ver \/ \E b \in DisputesOf(d, r)' : e.state.ver <= b.remote.ver
    <2>1. c.remote.ver \in Nat
      BY DEF DisputesOf, TypeInv, TypeOK, Conflict, State
    <2>2. DisputesOf(d, r) # {}
      BY <1>9
    <2>3. CASE DisputesOf(d, r)' = DisputesOf(d, r)
      BY <1>9, <2>3
    <2>4. CASE Updated(d, r)
      <3>1. PICK s : News(d, r, s) /\ DisputesOf(d, r)' = {Dispute(r, s)}
        BY <2>4 DEF Updated
      <3>2. log[cursor[d] + 1].rec = r /\ log[cursor[d] + 1].state = s /\ s.ver \in Nat /\ cursor[d] + 1 \in DOMAIN log
        BY <3>1 DEF News, State
      <3>3. log[i].state.ver < s.ver
        BY <1>1, <1>2, <1>4, <3>2 DEF FeedOrder
      <3>4. Dispute(r, s).remote = s
        BY DEF Dispute
      <3> QED
        BY <1>1, <1>5, <3>1, <3>2, <3>3, <3>4
    <2>5. CASE Kept(d, r) \/ TookRemote(d, r)
      <3>1. shadow'[d][r] = IF Known(c.remote) THEN c.remote ELSE shadow[d][r]
        BY <1>9, <2>5 DEF Kept, TookRemote
      <3> QED
        BY <1>5, <1>9, <2>1, <3>1 DEF Known
    <2> QED
      BY <1>6, <2>2, <2>3, <2>4, <2>5
         DEF RecordStep, Same, SameDisputes, Worked, PrepareStep, Queued, Forgot, Disputed, AnswerStep, Applied,
             Failed, Refused, PageStep, Converged, Raised, Noted, Adopted
  <1> QED
    BY <1>1, <1>4, <1>8, <1>9 DEF Reached

\* The change the cursor passes reaches the device in the same transaction.
LEMMA PageReaches ==
  ASSUME TypeInv, NEW d \in Devices, ApplyPage(d)
  PROVE  \E e \in Entry : e = log[cursor[d] + 1] /\ Reached(d, e)'
  <1>1. AdvanceCursor(d)
    BY DEF ApplyPage, SkipKnown, UpdateConflict, Converge, RaiseConflict, NoteTombstone, Adopt
  <1>2. cursor[d] < Len(log) /\ cursor[d] \in Nat /\ log \in Seq(Entry)
    BY <1>1 DEF AdvanceCursor, TypeInv, TypeOK, PageIsThere
  <1>3. log[cursor[d] + 1] \in Entry
    BY <1>2
  <1>4. PICK e \in Entry : e = Change(d) /\ e = log[cursor[d] + 1]
    BY <1>3 DEF Change
  <1>5. e.rec \in Records /\ e.state \in State /\ e.state.ver \in Nat
    BY DEF Entry, State
  <1>6. shadow[d][e.rec].ver \in Nat
    BY <1>5, BaseType
  <1>7. CASE SkipKnown(d)
    BY <1>4, <1>5, <1>6, <1>7 DEF SkipKnown, Newer, Reached
  <1>8. CASE UpdateConflict(d) \/ RaiseConflict(d)
    <2>1. Dispute(e.rec, e.state) \in conflicts'[d]
      BY <1>4, <1>8 DEF UpdateConflict, RaiseConflict, Dispute, TypeInv, TypeOK
    <2>2. Dispute(e.rec, e.state).rec = e.rec /\ Dispute(e.rec, e.state).remote = e.state
      BY DEF Dispute
    <2>3. Dispute(e.rec, e.state) \in DisputesOf(d, e.rec)'
      BY <2>1, <2>2 DEF DisputesOf
    <2> QED
      BY <1>4, <1>5, <2>2, <2>3 DEF Reached
  <1>9. CASE Converge(d) \/ NoteTombstone(d) \/ Adopt(d)
    <2>1. shadow'[d][e.rec] = e.state
      BY <1>4, <1>5, <1>9 DEF Converge, NoteTombstone, Adopt, PutShadow, TypeInv, TypeOK
    <2> QED
      BY <1>4, <1>5, <2>1 DEF Reached
  <1> QED
    BY <1>7, <1>8, <1>9 DEF ApplyPage

NoneSkipped == \A d \in Devices : \A i \in 1 .. cursor[d] : Reached(d, log[i])

\* Nothing behind the cursor is missed, whatever runs are cut short and however often the
\* feed is started over: the change is acknowledged, or an open conflict holds one as new.
THEOREM NothingIsSkipped == Spec => []CursorNeverSkips
  <1>1. Init => NoneSkipped
    BY DEF Init, NoneSkipped
  <1>2. ASSUME DeviceInv, FeedInv, NoneSkipped, [Next]_vars PROVE NoneSkipped'
    <2> SUFFICES ASSUME NEW d \in Devices, NEW i \in 1 .. cursor'[d] PROVE Reached(d, log[i])'
      BY DEF NoneSkipped
    <2>1. cursor[d] \in Nat
      BY <1>2 DEF DeviceInv, TypeInv, TypeOK
    <2>2. CASE i \in 1 .. cursor[d]
      BY <1>2, <2>2, ReachedStays DEF NoneSkipped
    <2>3. CASE i \notin 1 .. cursor[d]
      <3>1. ApplyPage(d) /\ cursor'[d] = cursor[d] + 1 /\ UNCHANGED <<server, log, answers>>
        <4>1. cursor'[d] \notin {cursor[d], 0}
          BY <2>1, <2>3
        <4> QED
          BY <1>2, <4>1, CursorSteps DEF DeviceInv
      <3>2. i = cursor[d] + 1
        BY <2>1, <2>3, <3>1
      <3>3. PICK e \in Entry : e = log[cursor[d] + 1] /\ Reached(d, e)'
        BY <1>2, <3>1, PageReaches DEF DeviceInv
      <3> QED
        BY <3>1, <3>2, <3>3 DEF Reached
    <2> QED
      BY <2>2, <2>3
  <1>3. ASSUME NoneSkipped PROVE CursorNeverSkips
    BY <1>3 DEF NoneSkipped, Reached, DisputesOf, CursorNeverSkips
  <1> QED
    BY <1>1, <1>2, <1>3, FeedCorrect, PTL DEF Spec

-----------------------------------------------------------------------------
(* The promise of SharedRecords.                                            *)

AllInv == DeviceInv /\ FeedInv /\ CopyInv

Statuses == [d \in Devices |-> [r \in Records |-> StatusOf(d, r)]]
Minting(d, r, v) == [by |-> d, rec |-> r, val |-> v]
Minted == {[by |-> i[1], rec |-> answers[i].rec, val |-> answers[i].val] : i \in MintAnswers}

\* Only the accepted create of a task type is a minting.
LEMMA MintedGrows ==
  ASSUME NEW o, NEW status, NEW state, ~Recorded(o), Record(o, status, state)
  PROVE  /\ MintsType(o) /\ status = "applied" => Minted' = Minted \cup {Minting(o.id[1], o.rec, o.val)}
         /\ ~(MintsType(o) /\ status = "applied") => Minted' = Minted
  <1>1. /\ DOMAIN answers' = DOMAIN answers \cup {o.id} /\ o.id \notin DOMAIN answers
        /\ \A i \in DOMAIN answers : answers'[i] = answers[i]
        /\ answers'[o.id] = [status |-> status, rec |-> o.rec, kind |-> o.kind, val |-> o.val, current |-> state]
    BY DEF Record, Recorded
  <1>2. \A i \in DOMAIN answers : i \in MintAnswers' <=> i \in MintAnswers
    BY <1>1 DEF MintAnswers
  <1>3. o.id \in MintAnswers' <=> MintsType(o) /\ status = "applied"
    BY <1>1 DEF MintAnswers, MintsType
  <1>4. MintAnswers \subseteq DOMAIN answers /\ MintAnswers' \subseteq DOMAIN answers \cup {o.id}
    BY <1>1 DEF MintAnswers
  <1>5. CASE MintsType(o) /\ status = "applied"
    <2>1. MintAnswers' = MintAnswers \cup {o.id}
      BY <1>2, <1>3, <1>4, <1>5
    <2> QED
      BY <1>1, <1>4, <1>5, <2>1 DEF Minted, Minting
  <1>6. CASE ~(MintsType(o) /\ status = "applied")
    <2>1. MintAnswers' = MintAnswers
      BY <1>2, <1>3, <1>4, <1>6
    <2> QED
      BY <1>1, <1>4, <1>6, <2>1 DEF Minted
  <1> QED
    BY <1>5, <1>6

LEMMA StatusFacts ==
  ASSUME NEW d \in Devices, NEW r \in Records
  PROVE  /\ DisputesOf(d, r) # {} => StatusOf(d, r) = "disputed"
         /\ DisputesOf(d, r) = {} /\ (dirty[d][r] > 0 \/ OpsOf(d, r) # {}) => StatusOf(d, r) = "pending"
         /\ DisputesOf(d, r) = {} /\ ~(dirty[d][r] > 0) /\ OpsOf(d, r) = {} => StatusOf(d, r) = "clean"
  BY RecordedStates DEF StatusOf, Pending

LEMMA NextStatusFacts ==
  ASSUME NEW d \in Devices, NEW r \in Records
  PROVE  /\ DisputesOf(d, r)' # {} => StatusOf(d, r)' = "disputed"
         /\ DisputesOf(d, r)' = {} /\ (dirty'[d][r] > 0 \/ OpsOf(d, r)' # {}) => StatusOf(d, r)' = "pending"
         /\ DisputesOf(d, r)' = {} /\ ~(dirty'[d][r] > 0) /\ OpsOf(d, r)' = {} => StatusOf(d, r)' = "clean"
  <1>1. HasOps(d, r)' <=> OpsOf(d, r)' # {}
    BY DEF HasOps, OpsOf
  <1>2. HasConflict(d, r)' <=> DisputesOf(d, r)' # {}
    BY DEF HasConflict, DisputesOf
  <1> QED
    BY <1>1, <1>2 DEF StatusOf, Pending

LEMMA ShowsMatch == ASSUME NEW c, NEW s, Matches(c, s) PROVE Promise!Shows(c, s)
  BY DEF Matches, Live, CopyOf, Promise!Shows, Promise!CopyOf

\* What a device acknowledges next is a later state of the record.
LEMMA BaseLater ==
  ASSUME AllInv, [Next]_vars, ServerSame, NEW d \in Devices, NEW r \in Records
  PROVE  Promise!Later(r, shadow[d][r], shadow'[d][r])
  <1>1. shadow'[d][r] = shadow[d][r] \/ shadow'[d][r].ver > shadow[d][r].ver
    BY BaseGrows DEF AllInv, DeviceInv, FeedInv, KnownInv
  <1>2. shadow[d][r].ver \in Nat
    BY BaseType DEF AllInv, DeviceInv
  <1>3. Had(r, shadow[d][r])' /\ log' = log
    BY NextFeedInv DEF AllInv, FeedInv, Seen, ServerSame
  <1>4. shadow'[d][r] = Absent \/ \E i \in DOMAIN log : log[i] = [rec |-> r, state |-> shadow'[d][r]]
    BY <1>3 DEF Had
  <1>5. ASSUME shadow'[d][r] = Absent PROVE shadow'[d][r] = shadow[d][r]
    BY <1>1, <1>2, <1>5, AbsentType
  <1> QED
    BY <1>1, <1>4, <1>5 DEF Promise!Later

LEMMA SamePromise ==
  ASSUME NEW d \in Devices, NEW r \in Records, Same(d, r)
  PROVE  StatusOf(d, r)' = StatusOf(d, r) /\ Promise!Stays(d, r)
  <1>1. StatusOf(d, r)' = StatusOf(d, r)
    BY StatusFacts, NextStatusFacts DEF Same, SameMark, SameOps, SameDisputes
  <1> QED
    BY <1>1 DEF Same, SameCopy, SameBase, Promise!Stays

LEMMA RecordPromise ==
  ASSUME AllInv, [Next]_vars, Executions = {}, ServerSame, NEW d \in Devices, NEW r \in Records
  PROVE  /\ Queued(d, r) \/ Updated(d, r) => Promise!Stays(d, r)
         /\ Worked(d, r) => Promise!Work(d, r)
         /\ PrepareStep(d, r) /\ ~Queued(d, r) => Promise!Settle(d, r)
         /\ AnswerStep(d, r) \/ Converged(d, r) \/ Raised(d, r) => Promise!Settle(d, r)
         /\ Noted(d, r) \/ Adopted(d, r) => Promise!Learn(d, r)
         /\ Kept(d, r) \/ TookRemote(d, r) => Promise!Decide(d, r)
  <1> USE DEF AllInv, DeviceInv, FeedInv, CopyInv
  <1>1. /\ dirty[d][r] \in Nat /\ dirty'[d][r] \in Nat
    BY NextTypeInv DEF TypeInv, TypeOK
  <1>2. Promise!Later(r, shadow[d][r], shadow'[d][r])
    BY BaseLater
  <1>3. Marked(d, r)
    BY DEF MarkInv
  <1>4. local[d][r].st = "none" => dirty[d][r] = 0 /\ OpsOf(d, r) = {} /\ DisputesOf(d, r) = {}
    BY NoCopyNoWork
  <1>5. ASSUME Disputed(d, r) PROVE Promise!Settle(d, r)
    <2>1. local'[d][r] = local[d][r] /\ shadow'[d][r] = shadow[d][r] /\ dirty[d][r] > 0
      BY <1>5 DEF Disputed, ToDispute, Changed, SameCopy, SameBase
    <2>2. StatusOf(d, r) = "pending" /\ StatusOf(d, r)' = "disputed"
      BY <1>5, <2>1, StatusFacts, NextStatusFacts DEF Disputed
    <2> QED
      BY <2>1, <2>2 DEF Promise!Settle
  <1>6. ASSUME Queued(d, r) PROVE Promise!Stays(d, r)
    <2>1. dirty[d][r] > 0
      <3>1. NewOp(d, r).rec = r
        BY DEF NewOp
      <3>2. PICK o \in NewOps(d) : o = NewOp(d, r)
        BY <1>6 DEF Queued
      <3> QED
        BY <3>1, <3>2, NewOpFacts
    <2>2. StatusOf(d, r) = "pending" /\ StatusOf(d, r)' = "pending"
      BY <1>6, <2>1, StatusFacts, NextStatusFacts DEF Queued, SameMark, SameDisputes
    <2> QED
      BY <1>6, <2>2 DEF Queued, SameCopy, SameBase, Promise!Stays
  <1>7. ASSUME Updated(d, r) PROVE Promise!Stays(d, r)
    <2>1. StatusOf(d, r) = "disputed" /\ StatusOf(d, r)' = "disputed"
      BY <1>7, StatusFacts, NextStatusFacts DEF Updated
    <2> QED
      BY <1>7, <2>1 DEF Updated, SameCopy, SameBase, Promise!Stays
  <1>8. ASSUME Worked(d, r) PROVE Promise!Work(d, r)
    <2>1. dirty'[d][r] > 0 /\ shadow'[d][r] = shadow[d][r] /\ DisputesOf(d, r)' = DisputesOf(d, r)
      BY <1>1, <1>8 DEF Worked, SameBase, SameDisputes
    <2>2. StatusOf(d, r)' = IF StatusOf(d, r) = "disputed" THEN "disputed" ELSE "pending"
      BY <2>1, StatusFacts, NextStatusFacts
    <2> QED
      BY <2>1, <2>2 DEF Promise!Work
  <1>9. ASSUME Forgot(d, r) PROVE Promise!Settle(d, r)
    <2>1. /\ local'[d][r] = local[d][r] /\ shadow'[d][r] = shadow[d][r]
          /\ OpsOf(d, r)' = OpsOf(d, r) /\ DisputesOf(d, r)' = DisputesOf(d, r) /\ dirty'[d][r] = 0
      BY <1>9 DEF Forgot, SameCopy, SameBase, SameOps, SameDisputes
    <2>2. dirty[d][r] > 0 /\ local[d][r].st # "none" /\ OpsOf(d, r) = {} /\ DisputesOf(d, r) = {}
      BY <1>4, <1>9, RecordedStates DEF Forgot, ToForget, Purged, Changed, Waiting
    <2>3. StatusOf(d, r) = "pending" /\ StatusOf(d, r)' = "clean"
      BY <2>1, <2>2, StatusFacts, NextStatusFacts
    <2>4. Promise!Shows(local'[d][r], shadow'[d][r])
      BY <1>9, <2>1, <2>2, TakesOver, ShowsMatch
    <2> QED
      BY <1>2, <2>1, <2>3, <2>4 DEF Promise!Settle
  <1>10. ASSUME Applied(d, r) PROVE Promise!Settle(d, r)
    <2>1. /\ local'[d][r] = local[d][r] /\ OpsOf(d, r) # {} /\ OpsOf(d, r)' = {}
          /\ DisputesOf(d, r) = {} /\ DisputesOf(d, r)' = {}
      BY <1>10 DEF Applied, SameCopy
    <2>2. StatusOf(d, r) = "pending"
      BY <2>1, StatusFacts
    <2>3. CASE dirty'[d][r] > 0
      <3>1. StatusOf(d, r)' = "pending"
        BY <2>1, <2>3, NextStatusFacts
      <3> QED
        BY <1>2, <2>1, <2>2, <3>1 DEF Promise!Settle
    <2>4. CASE ~(dirty'[d][r] > 0)
      <3>1. StatusOf(d, r)' = "clean"
        BY <2>1, <2>4, NextStatusFacts
      <3>2. PICK o \in OpsOf(d, r) : /\ Recorded(o) /\ answers[o.id].status = "applied"
                                     /\ shadow'[d][r] = answers[o.id].current
                                     /\ dirty'[d][r] = MarkAfter(dirty[d][r], o.rev)
        BY <1>10 DEF Applied
      <3>3. local[d][r].st # "none"
        BY <1>4, <2>1
      <3>4. o.rev = dirty[d][r]
        <4>1. o.base = shadow[d][r].ver
          BY <3>2 DEF KnownInv, KnownOf, OpKnows
        <4>2. dirty[d][r] > 0
          BY <3>3, <4>1 DEF ExecInv, Speaks
        <4> QED
          BY <2>4, <3>2, <4>2 DEF MarkAfter
      <3>5. CASE ~MintsType(o)
        <4>1. Promise!Shows(local'[d][r], shadow'[d][r])
          BY <2>1, <3>2, <3>3, <3>4, <3>5, AnswerMatches, ShowsMatch
        <4> QED
          BY <1>2, <2>1, <2>2, <3>1, <4>1 DEF Promise!Settle
      <3>6. CASE MintsType(o)
        <4>1. /\ r \in TaskTypes /\ Live(answers[o.id].current) /\ shadow[d][r].ver = 0
              /\ local[d][r] = [st |-> "live", val |-> o.val]
          BY <3>2, <3>3, <3>4, <3>6, AnswerMatches
        <4>2. /\ r \in TaskTypes /\ Live(shadow'[d][r]) /\ shadow[d][r].ver = 0
              /\ local[d][r].st = "live" /\ local[d][r].val = o.val
          BY <3>2, <4>1
        <4>3. answers[o.id].rec = r /\ answers[o.id].kind = "create" /\ answers[o.id].val = o.val
          BY <3>2, <3>6, AnswerCarries DEF MintsType
        <4>4. o.id[1] = d
          BY DEF IdsInv, IdsFresh, OpsOf
        <4>5. Minting(d, r, local[d][r].val) \in Minted
          BY <3>2, <4>2, <4>3, <4>4 DEF Minted, Minting, MintAnswers, Recorded
        <4>6. Promise!KeepsLabel(d, r)
          BY <4>2, <4>5 DEF Promise!KeepsLabel, Live, Minted, Minting
        <4> QED
          BY <1>2, <2>1, <2>2, <3>1, <4>6 DEF Promise!Settle
      <3> QED
        BY <3>5, <3>6
    <2> QED
      BY <2>3, <2>4
  <1>11. ASSUME Failed(d, r) \/ Refused(d, r) \/ Raised(d, r) PROVE Promise!Settle(d, r)
    <2>1. /\ local'[d][r] = local[d][r] /\ shadow'[d][r] = shadow[d][r]
          /\ DisputesOf(d, r) = {} /\ DisputesOf(d, r)' # {}
      BY <1>11 DEF Failed, Refused, Raised, SameCopy, SameBase
    <2>2. dirty[d][r] > 0 \/ OpsOf(d, r) # {}
      BY <1>11, RecordedStates DEF Failed, Refused, Raised, Pending
    <2>3. StatusOf(d, r) = "pending" /\ StatusOf(d, r)' = "disputed"
      BY <2>1, <2>2, StatusFacts, NextStatusFacts
    <2> QED
      BY <2>1, <2>3 DEF Promise!Settle
  <1>12. ASSUME Converged(d, r) PROVE Promise!Settle(d, r)
    <2>1. /\ local'[d][r] = local[d][r] /\ local[d][r].st # "none" /\ dirty'[d][r] = 0 /\ OpsOf(d, r)' = {}
          /\ DisputesOf(d, r) = {} /\ DisputesOf(d, r)' = {}
      BY <1>12 DEF Converged, SameCopy
    <2>2. dirty[d][r] > 0 \/ OpsOf(d, r) # {}
      BY <1>12, RecordedStates DEF Converged, Pending
    <2>3. StatusOf(d, r) = "pending" /\ StatusOf(d, r)' = "clean"
      BY <2>1, <2>2, StatusFacts, NextStatusFacts
    <2>4. Promise!Shows(local'[d][r], shadow'[d][r])
      BY <1>12, <2>1, TakesOver, ShowsMatch
    <2> QED
      BY <1>2, <2>1, <2>3, <2>4 DEF Promise!Settle
  <1>13. ASSUME Noted(d, r) \/ Adopted(d, r) PROVE Promise!Learn(d, r)
    <2>1. /\ dirty[d][r] = 0 /\ OpsOf(d, r) = {} /\ DisputesOf(d, r) = {}
          /\ dirty'[d][r] = 0 /\ OpsOf(d, r)' = {} /\ DisputesOf(d, r)' = {}
      BY <1>1, <1>4, <1>13, RecordedStates DEF Noted, Adopted, SameMark, SameOps, SameDisputes, Pending
    <2>2. StatusOf(d, r) = "clean" /\ StatusOf(d, r)' = "clean"
      BY <2>1, StatusFacts, NextStatusFacts
    <2>3. Promise!Shows(local'[d][r], shadow'[d][r])
      <3>1. CASE Noted(d, r)
        BY <3>1 DEF Noted, SameCopy, Promise!Shows
      <3>2. CASE Adopted(d, r)
        <4>1. PICK s : shadow'[d][r] = s /\ local'[d][r] = CopyOf(s)
          BY <3>2 DEF Adopted
        <4>2. local'[d][r].st # "none"
          BY <4>1 DEF CopyOf
        <4> QED
          BY <3>2, <4>2, TakesOver, ShowsMatch
      <3> QED
        BY <1>13, <3>1, <3>2
    <2> QED
      BY <1>2, <2>2, <2>3 DEF Promise!Learn
  <1>14. ASSUME Kept(d, r) PROVE Promise!Decide(d, r)
    <2>1. /\ local'[d][r] = local[d][r] /\ dirty'[d][r] > 0 /\ DisputesOf(d, r) # {} /\ DisputesOf(d, r)' = {}
      BY <1>1, <1>14 DEF Kept, SameCopy
    <2>2. StatusOf(d, r) = "disputed" /\ StatusOf(d, r)' = "pending"
      BY <2>1, StatusFacts, NextStatusFacts
    <2> QED
      BY <1>2, <2>1, <2>2 DEF Promise!Decide
  <1>15. ASSUME TookRemote(d, r) PROVE Promise!Decide(d, r)
    <2>1. dirty'[d][r] = 0 /\ OpsOf(d, r)' = {} /\ DisputesOf(d, r) # {} /\ DisputesOf(d, r)' = {}
      BY <1>15 DEF TookRemote
    <2>2. StatusOf(d, r) = "disputed" /\ StatusOf(d, r)' = "clean"
      BY <2>1, StatusFacts, NextStatusFacts
    <2>3. local'[d][r].st # "none"
      <3>1. local[d][r].st # "none"
        BY <1>4, <2>1
      <3> QED
        BY <1>15, <3>1 DEF TookRemote, Accepted, CopyOf
    <2>4. Promise!Shows(local'[d][r], shadow'[d][r])
      BY <1>15, <2>3, TakesOver, ShowsMatch
    <2> QED
      BY <1>2, <2>2, <2>4 DEF Promise!Decide
  <1> QED
    BY <1>5, <1>6, <1>7, <1>8, <1>9, <1>10, <1>11, <1>12, <1>13, <1>14, <1>15 DEF AnswerStep, PrepareStep

\* A step of one device is a step of that device.
LEMMA DeviceFrame ==
  ASSUME TypeInv, [Next]_vars, NEW d \in Devices, \A e \in Devices \ {d}, r \in Records : Same(e, r)
  PROVE  /\ local' = [local EXCEPT ![d] = local'[d]]
         /\ shadow' = [shadow EXCEPT ![d] = shadow'[d]]
         /\ Statuses' = [Statuses EXCEPT ![d] = Statuses'[d]]
  <1>1. /\ local \in [Devices -> [Records -> Copy]] /\ local' \in [Devices -> [Records -> Copy]]
        /\ shadow \in [Devices -> [Records -> State]] /\ shadow' \in [Devices -> [Records -> State]]
    BY NextTypeInv DEF TypeInv, TypeOK
  <1>2. ASSUME NEW e \in Devices \ {d}
        PROVE  local'[e] = local[e] /\ shadow'[e] = shadow[e] /\ Statuses'[e] = Statuses[e]
    <2>1. \A r \in Records : local'[e][r] = local[e][r] /\ shadow'[e][r] = shadow[e][r]
      BY DEF Same, SameCopy, SameBase
    <2>2. \A r \in Records : StatusOf(e, r)' = StatusOf(e, r)
      BY SamePromise
    <2>3. local'[e] = local[e] /\ shadow'[e] = shadow[e]
      BY <1>1, <2>1
    <2>4. Statuses'[e] = Statuses[e]
      BY <2>2 DEF Statuses
    <2> QED
      BY <2>3, <2>4
  <1>3. local' = [local EXCEPT ![d] = local'[d]] /\ shadow' = [shadow EXCEPT ![d] = shadow'[d]]
    BY <1>1, <1>2
  <1>4. Statuses' = [Statuses EXCEPT ![d] = Statuses'[d]]
    <2>1. Statuses = [e \in Devices |-> Statuses[e]] /\ Statuses' = [e \in Devices |-> Statuses'[e]]
      BY DEF Statuses
    <2> HIDE DEF Statuses
    <2> QED
      BY <1>2, <2>1
  <1> QED
    BY <1>3, <1>4

LEMMA AllSame ==
  ASSUME TypeInv, [Next]_vars, \A d \in Devices, r \in Records : Same(d, r)
  PROVE  UNCHANGED <<local, shadow, Statuses>>
  <1>1. /\ local \in [Devices -> [Records -> Copy]] /\ local' \in [Devices -> [Records -> Copy]]
        /\ shadow \in [Devices -> [Records -> State]] /\ shadow' \in [Devices -> [Records -> State]]
    BY NextTypeInv DEF TypeInv, TypeOK
  <1>2. \A d \in Devices, r \in Records : local'[d][r] = local[d][r] /\ shadow'[d][r] = shadow[d][r]
    BY DEF Same, SameCopy, SameBase
  <1>3. \A d \in Devices, r \in Records : StatusOf(d, r)' = StatusOf(d, r)
    BY SamePromise
  <1>4. local' = local /\ shadow' = shadow
    BY <1>1, <1>2
  <1>5. Statuses' = Statuses
    BY <1>3 DEF Statuses
  <1> QED
    BY <1>4, <1>5

\* The server's step: the record takes its next version.
LEMMA CommitPromise ==
  ASSUME TypeInv, NEW r \in Records, NEW s \in State, Commit(r, s), s.ver = server[r].ver + 1
  PROVE  Promise!NextState(r)
  <1>1. server' = [server EXCEPT ![r] = s] /\ server'[r] = s /\ log' = Append(log, [rec |-> r, state |-> s])
    BY DEF Commit, TypeInv, TypeOK
  <1>2. [rec |-> r, state |-> s] \in Entry /\ log \in Seq(Entry)
    BY DEF TypeInv, TypeOK, Entry
  <1> DEFINE n == Len(log) + 1
             past == {log[i] : i \in DOMAIN log}
  <1>3. /\ DOMAIN log = 1 .. Len(log) /\ DOMAIN log' = 1 .. n /\ n \in Nat /\ Len(log) \in Nat
        /\ \A i \in DOMAIN log : log'[i] = log[i]
        /\ log'[n] = [rec |-> r, state |-> s]
    <2> HIDE DEF Entry
    <2> QED
      BY <1>1, <1>2
  <1>4. past' = past \cup {[rec |-> r, state |-> s]}
    <2>1. \A i \in DOMAIN log' : i \in DOMAIN log \/ i = n
      BY <1>3
    <2>2. \A i \in DOMAIN log : i \in DOMAIN log'
      BY <1>3
    <2>3. n \in DOMAIN log'
      BY <1>3
    <2>4. \A e \in past' : e \in past \cup {[rec |-> r, state |-> s]}
      BY <1>3, <2>1
    <2>5. \A e \in past \cup {[rec |-> r, state |-> s]} : e \in past'
      BY <1>3, <2>2, <2>3
    <2> QED
      BY <2>4, <2>5
  <1> QED
    BY <1>1, <1>4 DEF Promise!NextState

\* A run of the device prepares, hears answers and reads pages; each is one step of the promise.
LEMMA DevicePromise ==
  ASSUME AllInv, [Next]_vars, Executions = {}, ServerSame, NEW d \in Devices,
         \A e \in Devices \ {d}, r \in Records : Same(e, r),
         \/ \A r \in Records : Same(d, r) \/ Worked(d, r)
         \/ \A r \in Records : Same(d, r) \/ PrepareStep(d, r)
         \/ \A r \in Records : Same(d, r) \/ AnswerStep(d, r)
         \/ \A r \in Records : Same(d, r) \/ PageStep(d, r)
         \/ \A r \in Records : Same(d, r) \/ Kept(d, r) \/ TookRemote(d, r)
  PROVE  Promise!Next
  <1>1. /\ local' = [local EXCEPT ![d] = local'[d]]
        /\ shadow' = [shadow EXCEPT ![d] = shadow'[d]]
        /\ Statuses' = [Statuses EXCEPT ![d] = Statuses'[d]]
        /\ UNCHANGED <<server, log, Minted>>
    BY DeviceFrame DEF AllInv, DeviceInv, ServerSame, Minted, MintAnswers
  <1>2. \A r \in Records : Same(d, r) => Promise!Stays(d, r)
    BY SamePromise
  <1>3. CASE \A r \in Records : Promise!Stays(d, r) \/ Promise!Work(d, r)
    <2>1. Promise!OnDevice(d, Promise!Work)
      BY <1>1, <1>3 DEF Promise!OnDevice, Statuses, Minted
    <2> QED
      BY <2>1 DEF Promise!Next
  <1>4. CASE \A r \in Records : Promise!Stays(d, r) \/ Promise!Settle(d, r)
    <2>1. Promise!OnDevice(d, Promise!Settle)
      BY <1>1, <1>4 DEF Promise!OnDevice, Statuses, Minted
    <2> QED
      BY <2>1 DEF Promise!Next
  <1>5. CASE \A r \in Records : Promise!Stays(d, r) \/ Promise!Learn(d, r)
    <2>1. Promise!OnDevice(d, Promise!Learn)
      BY <1>1, <1>5 DEF Promise!OnDevice, Statuses, Minted
    <2> QED
      BY <2>1 DEF Promise!Next
  <1>6. CASE \A r \in Records : Promise!Stays(d, r) \/ Promise!Decide(d, r)
    <2>1. Promise!OnDevice(d, Promise!Decide)
      BY <1>1, <1>6 DEF Promise!OnDevice, Statuses, Minted
    <2> QED
      BY <2>1 DEF Promise!Next
  <1>7. CASE \A r \in Records : Same(d, r) \/ Worked(d, r)
    BY <1>2, <1>3, <1>7, RecordPromise
  <1>8. CASE \A r \in Records : Same(d, r) \/ PrepareStep(d, r)
    BY <1>2, <1>4, <1>8, RecordPromise
  <1>9. CASE \A r \in Records : Same(d, r) \/ AnswerStep(d, r)
    BY <1>2, <1>4, <1>9, RecordPromise
  <1>10. CASE \A r \in Records : Same(d, r) \/ Kept(d, r) \/ TookRemote(d, r)
    BY <1>2, <1>6, <1>10, RecordPromise
  <1>11. CASE \A r \in Records : Same(d, r) \/ PageStep(d, r)
    \* A page holds one change, so one record takes the step.
    <2>1. ASSUME NEW q \in Records, NEW r \in Records, PageStep(d, q), PageStep(d, r) PROVE q = r
      <3>1. \E s : News(d, q, s)
        BY <2>1 DEF PageStep, Updated, Converged, Raised, Noted, Adopted
      <3>2. \E s : News(d, r, s)
        BY <2>1 DEF PageStep, Updated, Converged, Raised, Noted, Adopted
      <3>3. log[cursor[d] + 1].rec = q /\ log[cursor[d] + 1].rec = r
        BY <3>1, <3>2 DEF News
      <3> QED
        BY <3>3
    <2>2. ASSUME NEW q \in Records, PageStep(d, q) PROVE Promise!Next
      <3>1. \A r \in Records : r # q => Promise!Stays(d, r)
        BY <1>2, <1>11, <2>1, <2>2
      <3>2. Promise!Stays(d, q) \/ Promise!Settle(d, q) \/ Promise!Learn(d, q)
        BY <2>2, RecordPromise DEF PageStep
      <3> QED
        BY <1>3, <1>4, <1>5, <3>1, <3>2
    <2>3. CASE \A q \in Records : ~PageStep(d, q)
      BY <1>2, <1>3, <1>11, <2>3
    <2> QED
      BY <2>2, <2>3
  <1> QED
    BY <1>7, <1>8, <1>9, <1>10, <1>11

LEMMA NextPromise ==
  ASSUME AllInv, [Next]_vars, Executions = {}
  PROVE  Promise!Next \/ UNCHANGED <<server, log, local, shadow, Statuses, Minted>>
  <1> USE DEF AllInv, DeviceInv, FeedInv
  <1> DEFINE Stutter == UNCHANGED <<server, log, local, shadow, Statuses, Minted>>
  <1>1. ASSUME UNCHANGED <<local, dirty, shadow, outbox, conflicts>>
        PROVE  UNCHANGED <<local, shadow, Statuses>> /\ \A d \in Devices, r \in Records : Same(d, r)
    <2>1. \A d \in Devices, r \in Records : Same(d, r)
      BY <1>1, SameRecord
    <2> QED
      BY <2>1, AllSame
  <1>2. ASSUME UNCHANGED <<local, dirty, shadow, outbox, conflicts, server, log, answers>> PROVE Stutter
    BY <1>1, <1>2 DEF Minted, MintAnswers
  <1>3. ASSUME NEW r \in Records, NEW s \in State, Commit(r, s), s.ver = server[r].ver + 1,
               UNCHANGED <<local, dirty, shadow, outbox, conflicts, answers>>
        PROVE  Promise!Outside(r)
    <2>1. Promise!NextState(r) /\ UNCHANGED <<local, shadow, Statuses, Minted>>
      BY <1>1, <1>3, CommitPromise DEF Minted, MintAnswers
    <2> QED
      BY <2>1 DEF Promise!Outside, Statuses, Minted
  \* The user and the web.
  <1>4. ASSUME NEW d \in Devices, NEW r \in Records, NEW copy, WriteLocal(d, r, copy), UserStep PROVE Promise!Next
    <2>1. \A e \in Devices \ {d} : local'[e] = local[e] /\ dirty'[e] = dirty[e]
      BY <1>4 DEF WriteLocal, TypeInv, TypeOK
    <2>2. UNCHANGED <<shadow, outbox, conflicts>> /\ ServerSame
      BY <1>4 DEF WriteLocal, storeVars, serverVars, ServerSame
    <2>3. \A e \in Devices \ {d}, q \in Records : Same(e, q)
      BY <2>1, <2>2, SameRecord
    <2>4. \A q \in Records : Same(d, q) \/ Worked(d, q)
      BY <1>4, UserRecords
    <2> QED
      BY <2>2, <2>3, <2>4, DevicePromise
  <1>5. ASSUME NEW d \in Devices, ResetHistory(d) PROVE FALSE
    BY <1>5 DEF ResetHistory
  <1>6. ASSUME NEW r \in Records, NEW s \in State, WebWrite(r, s), s.ver = server[r].ver + 1 PROVE Promise!Next
    <2>1. Promise!Outside(r)
      BY <1>3, <1>6 DEF WebWrite, recordVars, storeVars
    <2> QED
      BY <2>1 DEF Promise!Next
  <1>7. CASE UserStep
    <2>1. ASSUME NEW r \in Records, NEW v \in Values, WebCreate(r, v) PROVE Promise!Next
      <3>1. [ver |-> 1, dead |-> FALSE, val |-> v] \in State /\ server[r].ver = 0
        BY <2>1 DEF WebCreate, Known, State, Content, TypeInv, TypeOK
      <3>2. [ver |-> 1, dead |-> FALSE, val |-> v].ver = server[r].ver + 1
        BY <3>1
      <3>3. WebWrite(r, [ver |-> 1, dead |-> FALSE, val |-> v])
        BY <2>1 DEF WebCreate
      <3> QED
        BY <1>6, <3>1, <3>2, <3>3
    <2>2. ASSUME NEW r \in Records, NEW v \in Values, WebUpdate(r, v) PROVE Promise!Next
      <3>1. server[r] \in State
        BY DEF TypeInv, TypeOK
      <3>2. [ver |-> server[r].ver + 1, dead |-> FALSE, val |-> v] \in State
        BY <3>1, StateType DEF Content
      <3>3. WebWrite(r, [ver |-> server[r].ver + 1, dead |-> FALSE, val |-> v])
        BY <2>2 DEF WebUpdate
      <3> QED
        BY <1>6, <3>2, <3>3
    <2>3. ASSUME NEW r \in Records, WebDelete(r) PROVE Promise!Next
      <3>1. server[r] \in State
        BY DEF TypeInv, TypeOK
      <3>2. [ver |-> server[r].ver + 1, dead |-> TRUE, val |-> server[r].val] \in State
        BY <3>1 DEF State
      <3>3. WebWrite(r, [ver |-> server[r].ver + 1, dead |-> TRUE, val |-> server[r].val])
        BY <2>3 DEF WebDelete
      <3> QED
        BY <1>6, <3>2, <3>3
    <2>4. ASSUME NEW d \in Devices, NEW r \in Records, NEW v \in Values, Create(d, r, v) \/ Edit(d, r, v) PROVE Promise!Next
      <3>1. WriteLocal(d, r, [st |-> "live", val |-> v])
        BY <2>4 DEF Create, Edit
      <3> QED
        BY <1>4, <1>7, <3>1
    <2>5. ASSUME NEW d \in Devices, NEW r \in Records, Delete(d, r) PROVE Promise!Next
      <3>1. WriteLocal(d, r, [st |-> "dead", val |-> local[d][r].val])
        BY <2>5 DEF Delete
      <3> QED
        BY <1>4, <1>7, <3>1
    <2> QED
      BY <1>5, <1>7, <2>1, <2>2, <2>3, <2>4, <2>5 DEF UserStep
  \* A run of sync_now.
  <1>8. ASSUME NEW d \in Devices, PushRound(d) \/ Acknowledge(d) \/ ApplyPage(d) \/ Resolve(d) PROVE Promise!Next
    <2>1. ServerSame
      <3>1. CASE PushRound(d) \/ Acknowledge(d)
        BY <3>1 DEF PushRound, Acknowledge, serverVars, ServerSame
      <3>2. CASE ApplyPage(d)
        BY <3>2 DEF ApplyPage, SkipKnown, UpdateConflict, Converge, RaiseConflict, NoteTombstone, Adopt, AdvanceCursor,
                    serverVars, ServerSame
      <3>3. CASE Resolve(d)
        BY <3>3 DEF Resolve, KeepLocal, AcceptRemote, serverVars, ServerSame
      <3> QED
        BY <1>8, <3>1, <3>2, <3>3
    <2>2. ASSUME NEW e \in Devices \ {d}
          PROVE  /\ local'[e] = local[e] /\ dirty'[e] = dirty[e] /\ shadow'[e] = shadow[e]
                 /\ outbox'[e] = outbox[e] /\ conflicts'[e] = conflicts[e]
      <3>1. CASE PushRound(d)
        BY <3>1 DEF PushRound, TypeInv, TypeOK
      <3>2. CASE Acknowledge(d)
        BY <3>2 DEF Acknowledge, TypeInv, TypeOK
      <3>3. CASE ApplyPage(d)
        BY <3>3 DEF ApplyPage, SkipKnown, UpdateConflict, Converge, RaiseConflict, NoteTombstone, Adopt,
                    PutShadow, ForgetOps, recordVars, TypeInv, TypeOK
      <3>4. CASE Resolve(d)
        BY <3>4 DEF Resolve, KeepLocal, AcceptRemote, ForgetOps, TypeInv, TypeOK
      <3> QED
        BY <1>8, <3>1, <3>2, <3>3, <3>4
    <2>3. \A e \in Devices \ {d}, r \in Records : Same(e, r)
      BY <2>2, SameRecord
    <2>4. CASE PushRound(d)
      BY <2>1, <2>3, <2>4, PushRecords, DevicePromise
    <2>5. CASE Acknowledge(d)
      <3>1. \A r \in Records : Same(d, r) \/ AnswerStep(d, r)
        BY <2>5, AckRecords DEF AnswerStep
      <3> QED
        BY <2>1, <2>3, <3>1, DevicePromise
    <2>6. CASE ApplyPage(d)
      BY <2>1, <2>3, <2>6, PageRecords, DevicePromise
    <2>7. CASE Resolve(d)
      <3>1. \A r \in Records : Same(d, r) \/ Kept(d, r) \/ TookRemote(d, r)
        BY <2>7, ResolveRecords DEF Resolve
      <3> QED
        BY <2>1, <2>3, <3>1, DevicePromise
    <2> QED
      BY <1>8, <2>4, <2>5, <2>6, <2>7, SMTT(60)
  <1>9. ASSUME NEW d \in Devices, Begin(d) \/ StopPushing(d) \/ StartPull(d) \/ FetchPage(d) \/ TimeOut(d) PROVE Stutter
    BY <1>2, <1>9 DEF Begin, StopPushing, StartPull, FetchPage, TimeOut, EndRun, recordVars, storeVars, serverVars
  \* The server.
  <1>10. ASSUME NEW o \in requests, ApplyOp(o) PROVE Promise!Next
    <2> DEFINE d == o.id[1]
               r == o.rec
    <2>1. d \in Devices /\ r \in Records /\ o \in Op /\ server[r] \in State /\ server[r].ver \in Nat
      BY DEF TypeInv, TypeOK, Op, OpId, State
    <2>2. After(o, server[r]) \in State /\ After(o, server[r]).ver = server[r].ver + 1
      BY <2>1 DEF After, State, Op
    <2>3. o \in OpsOf(d, r)
      BY <1>10 DEF ApplyOp, KnownId, SentInv, OpsOf
    <2>4. shadow[d][r] = server[r]
      BY <1>10, PushSaw
    <2>5. Commit(r, After(o, server[r])) /\ UNCHANGED <<local, dirty, shadow, outbox, conflicts>>
      BY <1>10 DEF ApplyOp, Receive, recordVars, storeVars
    <2> HIDE DEF d, r
    <2>6. DisputesOf(d, r) = {}
      BY <2>1, <2>3 DEF ChainInv, OneChain, OpsOf, DisputesOf
    <2>7. StatusOf(d, r) = "pending"
      BY <2>1, <2>3, <2>6, StatusFacts
    <2>8. Promise!NextState(r)
      BY <2>1, <2>2, <2>5, CommitPromise
    <2>9. UNCHANGED <<local, shadow, Statuses>>
      BY <1>1, <2>5
    <2>10. server'[r] = After(o, server[r])
      BY <2>1, <2>5 DEF Commit, TypeInv, TypeOK
    <2>11. /\ MintsType(o) => Minted' = Minted \cup {Minting(o.id[1], o.rec, o.val)}
           /\ ~MintsType(o) => Minted' = Minted
      BY <1>10, MintedGrows DEF ApplyOp, KnownId
    <2>12. MintsType(o) => /\ r \in TaskTypes /\ server[r].ver = 0 /\ server'[r].val = o.val
                           /\ o.id[1] = d /\ o.rec = r
      BY <1>10, <2>1, <2>10 DEF MintsType, ApplyOp, Fits, Known, After, d, r
    <2>13. \/ UNCHANGED Minted
           \/ r \in TaskTypes /\ shadow[d][r].ver = 0 /\ Minted' = Minted \cup {Minting(d, r, server'[r].val)}
      BY <2>4, <2>11, <2>12
    <2>14. Promise!Publish(d, r)
      BY <2>1, <2>4, <2>7, <2>8, <2>9, <2>13 DEF Promise!Publish, Promise!MintedAs, Statuses, Minted, Minting
    <2> QED
      BY <2>1, <2>14 DEF Promise!Next
  <1>11. ASSUME NEW o \in requests, AnswerAgain(o) \/ ConflictOp(o) \/ RejectOp(o) PROVE Stutter
    <2>1. UNCHANGED <<local, dirty, shadow, outbox, conflicts, server, log>>
      BY <1>11 DEF AnswerAgain, ConflictOp, RejectOp, Receive, recordVars, storeVars, serverVars
    <2>2. UNCHANGED Minted
      <3>1. CASE AnswerAgain(o)
        BY <3>1 DEF AnswerAgain, serverVars, Minted, MintAnswers
      <3>2. CASE ConflictOp(o)
        BY <3>2, MintedGrows DEF ConflictOp, KnownId
      <3>3. CASE RejectOp(o)
        BY <3>3, MintedGrows DEF RejectOp, KnownId
      <3> QED
        BY <1>11, <3>1, <3>2, <3>3
    <2> QED
      BY <1>1, <2>1, <2>2
  <1>12. ASSUME NEW o \in requests, AcceptUnchanged(o) PROVE Promise!Next \/ Stutter
    <2> DEFINE d == o.id[1]
               r == o.rec
    <2>1. d \in Devices /\ r \in Records /\ o.val \in Values \cup {None}
      BY DEF TypeInv, TypeOK, Op, OpId, Content
    <2>2. UNCHANGED <<local, dirty, shadow, outbox, conflicts, server, log>>
      BY <1>12 DEF AcceptUnchanged, Receive, recordVars, storeVars
    <2>3. UNCHANGED <<server, log, local, shadow, Statuses>>
      BY <1>1, <2>2
    <2>4. /\ MintsType(o) => Minted' = Minted \cup {Minting(d, r, o.val)}
          /\ ~MintsType(o) => Minted' = Minted
      BY <1>12, MintedGrows DEF AcceptUnchanged, KnownId
    <2>5. o \in OpsOf(d, r)
      BY <1>12 DEF AcceptUnchanged, KnownId, SentInv, OpsOf
    <2>6. MintsType(o) => r \in TaskTypes /\ Live(server[r])
      <3>1. ChangesNothing(o, server[o.rec])
        BY <1>12 DEF AcceptUnchanged
      <3> QED
        BY <3>1, RecordsAssumption DEF ChangesNothing, MintsType
    <2> HIDE DEF d, r
    <2>7. DisputesOf(d, r) = {}
      BY <2>1, <2>5 DEF ChainInv, OneChain, OpsOf, DisputesOf
    <2>8. StatusOf(d, r) = "pending"
      BY <2>1, <2>5, <2>7, StatusFacts
    <2>9. ASSUME MintsType(o) PROVE Promise!MintAgain(d, r)
      BY <2>1, <2>3, <2>4, <2>6, <2>8, <2>9
         DEF Promise!MintAgain, Promise!MintedAs, Live, Statuses, Minted, Minting
    <2>10. CASE MintsType(o)
      BY <2>1, <2>9, <2>10 DEF Promise!Next
    <2>11. CASE ~MintsType(o)
      BY <2>3, <2>4, <2>11
    <2> QED
      BY <2>10, <2>11
  \* Faults.
  <1>13. ASSUME NEW d \in Devices, NEW o \in inflight[d], Refuse(d, o) PROVE Promise!Next
    <2>1. ServerSame
      BY <1>13 DEF Refuse, serverVars, ServerSame
    <2>2. ASSUME NEW e \in Devices \ {d}
          PROVE  /\ local'[e] = local[e] /\ dirty'[e] = dirty[e] /\ shadow'[e] = shadow[e]
                 /\ outbox'[e] = outbox[e] /\ conflicts'[e] = conflicts[e]
      BY <1>13 DEF Refuse, recordVars, TypeInv, TypeOK
    <2>3. \A e \in Devices \ {d}, r \in Records : Same(e, r)
      BY <2>2, SameRecord
    <2>4. \A r \in Records : Same(d, r) \/ AnswerStep(d, r)
      BY <1>13, RefuseRecords DEF AnswerStep
    <2> QED
      BY <2>1, <2>3, <2>4, DevicePromise
  <1>14. ASSUME NEW o \in requests, LoseRequest(o) PROVE Stutter
    BY <1>2, <1>14 DEF LoseRequest, recordVars, storeVars, serverVars
  <1>15. ASSUME NEW d \in Devices, Interrupt(d) PROVE Stutter
    BY <1>2, <1>15 DEF Interrupt, EndRun, recordVars, storeVars, serverVars
  <1>16. CASE UNCHANGED vars
    BY <1>2, <1>16 DEF vars, recordVars, storeVars, serverVars
  <1> QED
    BY <1>7, <1>8, <1>9, <1>10, <1>11, <1>12, <1>13, <1>14, <1>15, <1>16 DEF Next, SyncStep, ServerStep, FaultStep

\* Where no history is reset, synchronization keeps the promise of SharedRecords: the server
\* changes a record only from the state the writer had seen, and every copy is clean, pending
\* or disputed and moves between these only as promised.  The one clean copy that may differ
\* from what was acknowledged is that of a task type another device had minted first: it has
\* the label with which this device's create was accepted.
THEOREM PromiseKept == ASSUME Executions = {} PROVE Spec => KeepsPromise
  <1>1. Init => Promise!Init
    BY DEF Init, Promise!Init, StatusOf, HasConflict, Pending, HasOps, Promise!Absent, Absent, NoCopy, MintAnswers
  <1>2. ASSUME AllInv, [Next]_vars PROVE [Promise!Next]_(Promise!vars)
    <2>1. Promise!Next \/ UNCHANGED <<server, log, local, shadow, Statuses, Minted>>
      BY <1>2, NextPromise
    <2> QED
      BY <2>1 DEF Promise!vars, Statuses, Minted
  <1> QED
    BY <1>1, <1>2, FeedCorrect, PTL DEF Spec, KeepsPromise, Promise!Spec, AllInv

=============================================================================
