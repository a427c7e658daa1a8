------------------------------- MODULE MCSync -------------------------------
(* Small instances of SyncProtocol for TLC. *)
EXTENDS SyncProtocol, TLC

CONSTANTS d1, d2, r1, r2, r3, v1, v2

\* The ENTITY_ORDER of the records.
RankDef == [r \in Records |-> IF r = r1 THEN 1 ELSE IF r = r2 THEN 2 ELSE 3]

\* Contents are interchangeable: no step compares them with anything but each other.
ValueSymmetry == Permutations(Values)
=============================================================================
