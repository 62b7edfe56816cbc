SPECIFICATION Spec
CONSTANTS
  LastPage = 3  ShortLast = TRUE  RetainEmpty = FALSE  MaxPages = 2
  Runs = {r1, r2}  Tasks = {t1, t2, t3}  Workers = {w1, w2}
  Pipelines = {p1}  ActivePipelines = {p1}  ConnectionsOf <- NoConnections
  Versions = {v1}
  MaxRetries = 1  InDoubtCommit = FALSE  CliContinues = TRUE
  MaxCrashes = 0  MaxLost = 1  MaxRedeliveries = 0
  NoTask = NoTask  NoRun = NoRun  NoPipeline = NoPipeline  NoVersion = NoVersion
  c1 = c1  c2 = c2
SYMMETRY Symmetry
CHECK_DEADLOCK FALSE
INVARIANTS TypeOK SucceededComplete Exclusive LoadedOnce RetriesSpent
PROPERTIES TerminalStable ProgressMonotone
