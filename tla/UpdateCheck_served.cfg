SPECIFICATION Spec
CONSTANTS
  a = a
  b = b
  img = img
  hbc = hbc
  h1 = h1
  h2 = h2
  App <- MCApp
  LastId = 2
  Bundle <- MCBundle
  Asset <- MCAsset
  HbcAsset <- MCHbcAsset
  Hash <- MCHash
  Version <- MCVersion
  Device <- MCDevice
  NoRow = NoRow
  NoManifest = NoManifest
  NoPatch = NoPatch
  NoArtifacts = NoArtifacts
  NoDecision = NoDecision
  NoRequest = NoRequest
  NoAnswer = NoAnswer
INVARIANTS
  CheckInv
  CountedIfServed
  UpdateIsUsable
  PatchFits
  ErrorsExplainAnswer
