CONSTANTS
  Bufs = {b1, b2}
  NumOut = 2
  Pool = 4
  NoBuf = NoBuf
  NoOne = NoOne
  MaxSessions = 2
SPECIFICATION FairSpec
INVARIANTS CountIsRefs ReturnedOnce DescriptorAvailable
PROPERTIES BufferReturned
