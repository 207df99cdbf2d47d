SPECIFICATION ListingFairSpec
CONSTANTS
  Id = {i1, i2, i3}
  Email = {a1, a2, a3}
  Role <- MCRole
  None = None
  Reader = {r1}
  Input <- MCInput
  MaxPage = 6
  Scale = 2
  Infinity = Infinity
  MinusInfinity = MinusInfinity
INVARIANTS ListingTypeOK CountCoversRows
PROPERTIES WalkStaysInside WalkEnds
