CONSTANTS
  b1 = b1
  b2 = b2
  i1 = i1
  i2 = i2
  i3 = i3
  s1 = s1
  s2 = s2
  r1 = r1
  r2 = r2
  NoBuf = NoBuf
  NoIdx = NoIdx
  Idx = {i1, i2}
  SysBufs = {s1, s2}
  Bufs = {b1, b2}
  Returners = {r1}
  MaxSessions = 1
SPECIFICATION FairSpec
PROPERTY BufferReturned
CHECK_DEADLOCK FALSE
