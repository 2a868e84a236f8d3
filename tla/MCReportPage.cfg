SPECIFICATION Spec
CONSTANTS
  correctness = correctness
  scalability = scalability
  Absent = Absent
  Correctness = correctness
  Dimension <- MCDimension
  Reports <- MCReports
  KeyLimit = 2
  MaxTimers = 2
INVARIANTS
  TypeOK
  FilterReadable
PROPERTIES
  CardsKeepTheirWord
  FlashesTheWorst
  FlashEnds
