SPECIFICATION Spec
CONSTANTS
  f1 = f1
  c1 = c1
  c2 = c2
  c3 = c3
  stray = stray
  x = x
  y = y
  NoId = NoId
  Absent = Absent
  FindingId <- MCFindingId
  CheckId <- MCCheckId
  Target <- MCTarget
  Dimension <- MCDimension
  ManifestOf <- MCManifest
  Overrides <- MCOverrides
  Drafts <- MCDrafts
  FindingLists <- MCFindingLists
  Records <- MCRecords
  MaxRecords = 3
  Installed <- MCInstalled
INVARIANTS
  TypeOK
  FullMeansFull
  AccountsAgree
