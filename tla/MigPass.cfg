SPECIFICATION Spec
CONSTANTS
  d1 = d1  d2 = d2  s1 = s1  w1 = w1  w2 = w2  c1 = c1
  j1 = j1  j2 = j2  q1 = q1  q2 = q2  q3 = q3
  Slots = {s1}
  Data = {d1, d2}
  Size <- SizeOfData
  Workers = {w1}
  Writers = {c1}
  Clients = {w1, c1}
  Jobs = {j1}
  Requests = {q1, q2}
  BatchSize = 1
  MaxCrashes = 0
  MaxLost = 0
  MaxStale = 0
  PutAnswers = {"conditional"}
  MaxTampering = 0
  Absent = Absent
  NoUri = NoUri
  ForeignUri = ForeignUri
  NoJob = NoJob
  NoRow = NoRow
CHECK_DEADLOCK FALSE
SYMMETRY Symmetry
INVARIANTS TypeOK SucceededMigrated SummaryAddsUp
PROPERTIES PayloadKept
