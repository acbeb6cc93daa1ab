CONSTANTS
  a = a
  b = b
  p1 = p1
  p2 = p2
  g1 = g1
  g2 = g2
  NoElem = NoElem
  MaxElements = 2
  Elements = {a, b}
  Putters = {p1, p2}
  Getters = {g1, g2}
  Timeout <- MixedTimeout
  MinCount <- MixedMin
  Blocking <- BothSides
  MaxUnBlocks = 1
SPECIFICATION FairSpec
INVARIANTS SleepJustified
PROPERTIES IsBoundedQueue Served
