\* Two devices that may mint the same task type, and the web, under fairness.
CONSTANTS
  d1 = d1
  d2 = d2
  r1 = r1
  r2 = r2
  r3 = r3
  v1 = v1
  v2 = v2
  None = None
  Devices = {d1, d2}
  Records = {r1}
  Values = {v1, v2}
  Derived = {}
  TaskTypes = {r1}
  Executions = {}
  Rank <- RankDef
  BatchLimit = 1
  MaxPushRounds = 1
  MaxWrites = 2
  MaxFaults = 1
SPECIFICATION FairSpec
PROPERTIES KeepsPromise EventuallyInSync
