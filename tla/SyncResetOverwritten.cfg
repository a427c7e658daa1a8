\* A history reset while a newer change is pulled.
CONSTANTS
  d1 = d1
  d2 = d2
  r1 = r1
  r2 = r2
  r3 = r3
  v1 = v1
  v2 = v2
  None = None
  Devices = {d1}
  Records = {r1}
  Values = {v1, v2}
  Derived = {}
  TaskTypes = {}
  Executions = {r1}
  Rank <- RankDef
  BatchLimit = 1
  MaxPushRounds = 1
  MaxWrites = 3
  MaxFaults = 0
SPECIFICATION Spec
PROPERTY PendingChangeNeverOverwritten
