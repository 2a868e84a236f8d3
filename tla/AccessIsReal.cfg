SPECIFICATION Spec
CONSTANTS
  next = next
  nextjs = nextjs
  other = other
  nextStop = nextStop
  nextjsStop = nextjsStop
  otherStop = otherStop
  d1 = d1
  d2 = d2
  d3 = d3
  None = None
  Name <- MCName
  Repo <- MCRepo
  Cut <- MCCut
  Stop <- MCStop
  Reachable <- MCReachable
  Dest <- MCDest
  DestOf <- MCDestOf
  Proposals <- MCProposals
  MaxRuns = 2
INVARIANT
  AccessIsReal
