SPECIFICATION Spec
CONSTANTS
  d1 = d1  d2 = d2  s1 = s1  w1 = w1  w2 = w2  c1 = c1
  j1 = j1  j2 = j2  q1 = q1  q2 = q2  q3 = q3
  Slots = {s1}
  Data = {d1, d2}
  Size <- SizeOfData
  Workers = {w1, w2}
  Writers = {}
  Clients = {w1, w2}
  Jobs = {j1, j2}
  Requests = {q1, q2}
  BatchSize = 2
  MaxCrashes = 0
  MaxLost = 1
  MaxStale = 1
  PutAnswers = {"unsupported"}
  MaxTampering = 0
  Absent = Absent
  NoUri = NoUri
  ForeignUri = ForeignUri
  NoJob = NoJob
  NoRow = NoRow
CHECK_DEADLOCK FALSE
SYMMETRY Symmetry
INVARIANTS SucceededMigrated AuditedBeforeRun
PROPERTIES PayloadKept
