SPECIFICATION Spec
CONSTANTS
  LastPage = 2  ShortLast = TRUE  RetainEmpty = FALSE  MaxPages = 1
  Runs = {r1, r2, r3}  Tasks = {t1, t2, t3}  Workers = {w1, w2}
  Pipelines = {p1}  ActivePipelines = {p1}  ConnectionsOf <- NoConnections
  Versions = {v1}
  MaxRetries = 1  InDoubtCommit = FALSE  CliContinues = FALSE
  MaxCrashes = 0  MaxLost = 0  MaxRedeliveries = 0
  NoTask = NoTask  NoRun = NoRun  NoPipeline = NoPipeline  NoVersion = NoVersion
  c1 = c1  c2 = c2
CHECK_DEADLOCK FALSE
INVARIANT OneContinuation
