SPECIFICATION Spec
CONSTANTS
  a1 = a1
  a2 = a2
  b1 = b1
  b2 = b2
  b3 = b3
  App = {a1, a2}
  Id = {b1, b2, b3}
  NoApp = NoApp
  Database <- Databases
  MaxCrashes = 2
  MaxWrites = 3
INVARIANT ServedCatalogIsScoped
PROPERTIES UsablePatchesSurvive RepairCompletes
CHECK_DEADLOCK FALSE
