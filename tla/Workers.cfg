\* Three jobs of every kind and in every order, on two threads.
CONSTANTS
  writes = writes
  load = load
  Nothing = Nothing
  Lanes = {writes}
  Topics = {load}
  Kinds <- KindsDef
  MaxWorkers = 2
  MaxJobs = 3
  QueueSizes = {1, 2}
  MaxDialogs = 1
  MaxOutside = 1
  MaxFaults = 2
SPECIFICATION FairSpec
INVARIANTS
  TypeOK
  CountsAgree
  LaneOrder
  NobodyForgotten
  OlderNeverAfterNewer
  QuietShutdown
PROPERTY EveryJobEnds
CHECK_DEADLOCK FALSE
