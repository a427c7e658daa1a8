\* One device and the web: an execution (r1), an occurrence (r2) and a task type (r3).
CONSTANTS
  d1 = d1
  d2 = d2
  r1 = r1
  r2 = r2
  r3 = r3
  v1 = v1
  v2 = v2
  None = None
  Devices = {d1}
  Records = {r1, r2, r3}
  Values = {v1, v2}
  Derived = {r2}
  TaskTypes = {r3}
  Executions = {r1}
  Rank <- RankDef
  BatchLimit = 1
  MaxPushRounds = 1
  MaxWrites = 3
  MaxFaults = 1
SPECIFICATION Spec
SYMMETRY ValueSymmetry
INVARIANTS
  TypeOK
  UnsyncedIsMarked
  ExecutionChangeIsMarked
  OneChainPerRecord
  OpMatchesLocal
  CursorNeverSkips
  EchoNeverConflicts
PROPERTIES
  PendingWorkKept
  OutcomeIsFinal
  OverwritesOnlyWhatItSaw
  ShadowNeverRegresses
