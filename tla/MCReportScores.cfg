SPECIFICATION Spec
CONSTANTS
  Absent = Absent
  Kind <- MCKind
  Limit <- MCLimit
  Standing <- MCStanding
  Opening <- MCOpening
INVARIANTS
  TypeOK
  HighConcernShows
  TwoDimensionsDecide
  FaithfulMeansFaithful
PROPERTIES
  FixesNeverHurt
