SPECIFICATION Spec
CONSTANTS
  f1 = f1
  f2 = f2
  ghost = ghost
  c1 = c1
  c2 = c2
  stray = stray
  x = x
  y = y
  NoId = NoId
  Absent = Absent
  NoOwner = NoOwner
  FindingId <- MCFindingId
  CheckId <- MCCheckId
  Target <- MCTarget
  Dimension <- MCDimension
  ManifestOf <- MCManifest
  Overrides <- MCOverrides
  Inputs <- MCInputs
INVARIANTS
  TypeOK
  ClashesNamed
  ClashesReal
  FirstClaimOwns
PROPERTY
  GateSpec
