SPECIFICATION Spec
CONSTANTS
  f1 = f1
  f2 = f2
  c1 = c1
  c2 = c2
  x = x
  bulk = bulk
  throughput = throughput
  NoId = NoId
  Absent = Absent
  FindingId <- MCFindingId
  CheckId <- MCCheckId
  Target <- MCTarget
  Dimension <- MCDimension
  ManifestOf <- MCManifest
  Overrides <- MCOverrides
  Pattern <- MCPattern
  Says <- MCSays
  About <- MCAbout
  Cases <- MCCases
  Written <- MCWritten
  InGit = {TRUE, FALSE}
INVARIANTS
  TypeOK
  VerdictOnOwnWork
  PassIsEarned
PROPERTIES
  QuietPassIsClean
  RunEnds
