SPECIFICATION FairSpec
CONSTANTS
  a1 = a1
  a2 = a2
  b1 = b1
  b2 = b2
  f1 = f1
  f2 = f2
  m1 = m1
  m2 = m2
  App = {a1, a2}
  Id = {b1, b2}
  MetadataKey = {m1}
  File = {f1, f2}
  Handler = {w1, w2}
  Request <- TwoTenants
  NoApp = NoApp
  NoRow = NoRow
  Null = Null
  Absent = Absent
  Untouched = Untouched
  NoSnapshot = NoSnapshot
  NoRequest = NoRequest
  NoAnswer = NoAnswer
INVARIANTS IInv PatchEndpointsExist ForeignKeyErrorsAreRaces
PROPERTIES TenantIsolation ImplementsCatalog EveryRequestAnswered
