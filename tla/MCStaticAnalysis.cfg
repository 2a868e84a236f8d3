SPECIFICATION Spec
CONSTANTS
  a1 = a1
  a2 = a2
  a3 = a3
  p1 = p1
  p2 = p2
  p3 = p3
  shop = shop
  cart = cart
  mail = mail
  lib = lib
  A = A
  B = B
  Member = Member
  Gone = Gone
  Author <- MCAuthor
  Path <- MCPath
  Name <- MCName
  Source <- MCSource
  MaxCommits = 3
  MaxMoves = 1
  MinCommits = 2
  ListLimit = 1
  NameLimit = 2
SYMMETRY Symmetric
INVARIANTS
  PeopleAreReal
  NoHotspotMissed
  GraphFollowsImports
