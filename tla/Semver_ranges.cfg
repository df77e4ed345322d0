SPECIFICATION Spec
CONSTANTS
  AppVersion <- AppVersions
  Target <- Targets
  NoTarget = NoTarget
  Wild = Wild
  Junk = Junk
  Dot = Dot
  Other = Other
  Invalid = Invalid
  SafeMax = 3
  U64Max = 4
INVARIANT AgreesWithNpm
