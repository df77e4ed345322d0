SPECIFICATION Spec
CONSTANTS
  a1 = a1
  a2 = a2
  a3 = a3
  r1 = r1
  r2 = r2
  Request = {r1, r2}
  App = {a1, a2, a3}
  AppStorage <- Buckets
  Stored <- Manifests
  Uri = {"m", "n"}
  Environment <- Environments
  DefaultLimits <- Defaults
  DefaultExpiry = 1
  MinExpiry = 1
  MaxExpiry = 3
  MaxAttempts = 2
  Unset = Unset
INVARIANTS OneSetOfLimits AnswersAreOfOwnBucket ReadsKeepTheirBudget
PROPERTY ShutdownCompletes
CHECK_DEADLOCK FALSE
