SPECIFICATION Spec
CONSTANTS
  a1 = a1
  a2 = a2
  b1 = b1
  b2 = b2
  f1 = f1
  f2 = f2
  m1 = m1
  m2 = m2
  App = {a1}
  Id = {b1}
  MetadataKey = {m1, m2}
  File = {f1, f2}
  Handler = {w1}
  Request <- Validated
  NoApp = NoApp
  NoRow = NoRow
  Null = Null
  Absent = Absent
  Untouched = Untouched
  NoSnapshot = NoSnapshot
  NoRequest = NoRequest
  NoAnswer = NoAnswer
INVARIANTS CommittedRowsPersistable
PROPERTIES MetadataIsMerged
