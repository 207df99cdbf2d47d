SPECIFICATION ListingSpec
CONSTANTS
  Id = {i1, i2, i3}
  Email = {a1, a2, a3}
  Role <- MCRole
  None = None
  Reader = {r1}
  Input <- MCWholeInput
  MaxPage = 6
  Scale = 2
  Infinity = Infinity
  MinusInfinity = MinusInfinity
SYMMETRY Symmetry
INVARIANT AtMostPerPage
