SPECIFICATION StoreSpec
CONSTANTS
  d1 = d1  d2 = d2  d3 = d3  c1 = c1  c2 = c2  s1 = s1
  Slots = {s1}
  Data = {d1, d2, d3}
  Size <- SizeOfData
  Clients = {c1, c2}
  Writers = {c1, c2}
  PutAnswers = {"conditional", "unsupported"}
  MaxTampering = 1
  Absent = Absent
  NoUri = NoUri
  ForeignUri = ForeignUri
SYMMETRY Symmetry
INVARIANTS StoreTypeOK RecordBacked ReadsOwnPayload NeverOverwritten
