SPECIFICATION Spec
CONSTANTS
  LastPage = 1  ShortLast = TRUE  RetainEmpty = FALSE  MaxPages = 2
  Runs = {r1}  Tasks = {t1}  Workers = {w1, w2}
  Pipelines = {p1}  ActivePipelines = {p1}  ConnectionsOf <- NoConnections
  Versions = {v1}
  MaxRetries = 1  InDoubtCommit = FALSE  CliContinues = FALSE
  MaxCrashes = 0  MaxLost = 0  MaxRedeliveries = 1
  NoTask = NoTask  NoRun = NoRun  NoPipeline = NoPipeline  NoVersion = NoVersion
  c1 = c1  c2 = c2
CHECK_DEADLOCK FALSE
PROPERTY TerminalStable
