SPECIFICATION Spec
CONSTANTS
  a1 = a1
  a2 = a2
  f1 = f1
  f2 = f2
  App = {a1, a2}
  Id = {1, 2, 3}
  MetadataKey = {}
  File = {f1, f2}
  Query <- Queries
  Edit <- Edits
  Catalog <- Catalogs
  DefaultPageSize = 2
  MaxPageSize = 3
  I64Max = 3
  NoApp = NoApp
  NoRow = NoRow
  Null = Null
  Absent = Absent
  Blank = Blank
  NotANumber = NotANumber
  NoQuery = NoQuery
INVARIANTS TypeOK QuietAnswerIsExact WalkMeetsStayingRows ShownTogether
PROPERTIES RowsAreListedOnce EveryWalkEnds
