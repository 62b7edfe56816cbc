SPECIFICATION FairSpec
CONSTANTS
  LastPage = 1  ShortLast = FALSE  RetainEmpty = TRUE  MaxPages = 3
  Runs = {r1}  Tasks = {t1, t2}  Workers = {w1, w2}
  Pipelines = {p1}  ActivePipelines = {p1}  ConnectionsOf <- NoConnections
  Versions = {v1}
  MaxRetries = 1  InDoubtCommit = FALSE  CliContinues = FALSE
  MaxCrashes = 1  MaxLost = 0  MaxRedeliveries = 0
  NoTask = NoTask  NoRun = NoRun  NoPipeline = NoPipeline  NoVersion = NoVersion
  c1 = c1  c2 = c2
CHECK_DEADLOCK FALSE
INVARIANT RunningHasDriver
PROPERTIES EventuallyFinished OnlyLastPageReloaded
