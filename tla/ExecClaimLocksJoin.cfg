SPECIFICATION Spec
CONSTANTS
  LastPage = 1  ShortLast = TRUE  RetainEmpty = FALSE  MaxPages = 2
  Runs = {r1, r2}  Tasks = {t1, t2}  Workers = {w1, w2}
  Pipelines = {p1, p2}  ActivePipelines = {p1, p2}  ConnectionsOf <- SharedConnection
  Versions = {v1}
  MaxRetries = 1  InDoubtCommit = FALSE  CliContinues = FALSE
  MaxCrashes = 0  MaxLost = 0  MaxRedeliveries = 0
  NoTask = NoTask  NoRun = NoRun  NoPipeline = NoPipeline  NoVersion = NoVersion
  c1 = c1  c2 = c2
CHECK_DEADLOCK FALSE
PROPERTY RejectionJustified
