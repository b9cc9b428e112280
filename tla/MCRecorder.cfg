SPECIFICATION RecorderSpec
CONSTANTS
  p = p
  q = q
  Point = {p, q}
  NoPoint = NoPoint
  MaxScreen = 2
  MaxInput = 3
  Shows <- MCShows
INVARIANT
  NeverInClear
