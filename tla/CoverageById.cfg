SPECIFICATION Spec
CONSTANTS
  f1 = f1
  f2 = f2
  c1 = c1
  c2 = c2
  stray = stray
  x = x
  y = y
  primary = primary
  billing = billing
  NoId = NoId
  Absent = Absent
  Primary = primary
  FindingId <- MCFindingId
  CheckId <- MCCheckId
  ManifestIds <- MCManifest
  Target <- MCTarget
  Label <- MCLabel
  Drafts <- MCDrafts
  Findings <- MCFindings
  Records <- MCRecords
  MaxFindings = 2
  MaxRecords = 3
  KeyLimit = 1
CONSTRAINT CheckedReviewsVaryLittle
INVARIANT
  CoverageById
