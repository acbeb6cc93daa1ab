CONSTANTS
  a = a
  b = b
  w1 = w1
  w2 = w2
  r1 = r1
  r2 = r2
  NoElem = NoElem
  N = 3
  Credits = 2
  Elements <- MCElements
  Writers <- TwoWriters
  Readers <- OneReader
SPECIFICATION Spec
INVARIANTS NoTornElement
PROPERTY IsFifo
