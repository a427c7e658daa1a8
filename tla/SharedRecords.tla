--------------------------- MODULE SharedRecords ---------------------------
(***************************************************************************)
(* What synchronization promises about the records of one account: a       *)
(* record the server changes only from the state the writer had seen, and  *)
(* on every device a copy that is either clean (it is the server state the *)
(* device last acknowledged), pending (it holds local work), or disputed   *)
(* (the user must decide).  Nothing but the user touches pending work.     *)
(* Only of a task type minted twice may a clean copy be another: it keeps  *)
(* the label it was minted with until the type changes again.              *)
(***************************************************************************)
EXTENDS Integers

CONSTANTS
    Devices, Records, Values, None,
    TaskTypes   \* records two devices may mint with different content

VARIABLES
    server,  \* the record rows
    past,    \* every state a record had on the server
    copy,    \* per device: the local copy of each record
    base,    \* per device: the server state last acknowledged
    status,  \* per device: "clean", "pending" or "disputed"
    minted   \* the labels with which the server accepted the mintings of types

vars == <<server, past, copy, base, status, minted>>

Absent == [ver |-> 0, dead |-> FALSE, val |-> None]
CopyOf(s) == [st |-> IF s.dead THEN "dead" ELSE "live", val |-> s.val]

Init ==
    /\ server = [r \in Records |-> Absent]
    /\ past = {}
    /\ copy = [d \in Devices |-> [r \in Records |-> [st |-> "none", val |-> None]]]
    /\ base = [d \in Devices |-> [r \in Records |-> Absent]]
    /\ status = [d \in Devices |-> [r \in Records |-> "clean"]]
    /\ minted = {}

\* A clean copy shows what was acknowledged.
Shows(c, s) == IF s.ver > 0 /\ ~s.dead THEN c = CopyOf(s) ELSE c.st # "live"

\* The base moves, if it moves, to a later state the record really had.
Later(r, s, t) == t = s \/ (t.ver > s.ver /\ [rec |-> r, state |-> t] \in past)

\* The server's record takes its next version, which stays in its past.
NextState(r) ==
    /\ server'[r].ver = server[r].ver + 1
    /\ server' = [server EXCEPT ![r] = server'[r]]
    /\ past' = past \cup {[rec |-> r, state |-> server'[r]]}

MintedAs(d, r, v) == minted' = minted \cup {[by |-> d, rec |-> r, val |-> v]}

\* A change accepted from a device: its work was pending, on the record's current state.
Publish(d, r) ==
    /\ status[d][r] = "pending"
    /\ base[d][r] = server[r]
    /\ NextState(r)
    /\ \/ UNCHANGED minted
       \/ r \in TaskTypes /\ base[d][r].ver = 0 /\ MintedAs(d, r, server'[r].val)
    /\ UNCHANGED <<copy, base, status>>

\* A type minted again is accepted as it stands, whatever the label.
MintAgain(d, r) ==
    /\ r \in TaskTypes /\ status[d][r] = "pending"
    /\ server[r].ver > 0 /\ ~server[r].dead
    /\ \E v \in Values \cup {None} : MintedAs(d, r, v)
    /\ UNCHANGED <<server, past, copy, base, status>>

\* A change made on the web.
Outside(r) == NextState(r) /\ UNCHANGED <<copy, base, status, minted>>

Stays(d, r) == UNCHANGED <<copy[d][r], base[d][r], status[d][r]>>

\* The user changes the copy.
Work(d, r) ==
    /\ base'[d][r] = base[d][r]
    /\ status'[d][r] = IF status[d][r] = "disputed" THEN "disputed" ELSE "pending"

\* A clean copy follows the server.
Learn(d, r) ==
    /\ status[d][r] = "clean" /\ status'[d][r] = "clean"
    /\ Later(r, base[d][r], base'[d][r])
    /\ Shows(copy'[d][r], base'[d][r])

\* A task type minted here was known to the server already: the copy keeps its label.
KeepsLabel(d, r) ==
    /\ copy[d][r].st = "live" /\ [by |-> d, rec |-> r, val |-> copy[d][r].val] \in minted
    /\ base[d][r].ver = 0 /\ base'[d][r].ver > 0 /\ ~base'[d][r].dead

\* Pending work is acknowledged, in full or up to a later change, or meets another change.
Settle(d, r) ==
    /\ status[d][r] = "pending"
    /\ copy'[d][r] = copy[d][r]
    /\ \/ /\ status'[d][r] = "clean"
          /\ Later(r, base[d][r], base'[d][r])
          /\ Shows(copy'[d][r], base'[d][r]) \/ KeepsLabel(d, r)
       \/ status'[d][r] = "pending" /\ Later(r, base[d][r], base'[d][r])
       \/ status'[d][r] = "disputed" /\ base'[d][r] = base[d][r]

\* The user keeps the copy, on the server's state, or gives it up.
Decide(d, r) ==
    /\ status[d][r] = "disputed"
    /\ Later(r, base[d][r], base'[d][r])
    /\ \/ status'[d][r] = "pending" /\ copy'[d][r] = copy[d][r]
       \/ status'[d][r] = "clean" /\ Shows(copy'[d][r], base'[d][r])

\* One transaction of a device may touch several of its records.
OnDevice(d, Step(_, _)) ==
    /\ \A r \in Records : Stays(d, r) \/ Step(d, r)
    /\ copy' = [copy EXCEPT ![d] = copy'[d]]
    /\ base' = [base EXCEPT ![d] = base'[d]]
    /\ status' = [status EXCEPT ![d] = status'[d]]
    /\ UNCHANGED <<server, past, minted>>

Next ==
    \/ \E d \in Devices, r \in Records : Publish(d, r) \/ MintAgain(d, r)
    \/ \E r \in Records : Outside(r)
    \/ \E d \in Devices :
        OnDevice(d, Work) \/ OnDevice(d, Learn) \/ OnDevice(d, Settle) \/ OnDevice(d, Decide)

Spec == Init /\ [][Next]_vars
=============================================================================
