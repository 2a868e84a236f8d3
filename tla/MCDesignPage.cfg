SPECIFICATION Spec
CONSTANTS
  fit = fit
  cost = cost
  Absent = Absent
  Fit = fit
  Dimension <- MCDimension
  Reports <- MCReports
  MaxTimers = 3
INVARIANTS
  TypeOK
  FilterReadable
PROPERTY
  AuditPageSteps
