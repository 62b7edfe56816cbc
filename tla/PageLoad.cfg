SPECIFICATION Spec
CONSTANTS
  Atoms = {Null, x, y, z}  Null = Null  Missing = Missing  NoTable = NoTable
  x = x  y = y  z = z
  Documents <- DocumentsOfModel
  Inputs <- InputsOfModel
  Pipelines <- PipelinesOfModel
  ColumnSets <- ColumnSetsOfModel
  MaxRetries = 4  Base = 40  Cap = 200
  MaxCrashes = 2  MaxAlters = 1
CHECK_DEADLOCK FALSE
INVARIANTS TypeOK BadRecordBlocksPage WholePages DuplicatesExplained CountIsHonest BackoffGrows
PROPERTIES ImplementsAtomicLoad
