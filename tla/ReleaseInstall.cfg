SPECIFICATION Spec
CONSTANTS
  MaxRelease = 3
  Manifests = {"m1", "m2"}
  Manifest <- MCManifest
INVARIANTS
  TypeOK
  ClaimIsSound
  FailureKeepsTree
