CONSTANTS
  own = own
  high = high
  low = low
  s1 = s1
  s2 = s2
  c1 = c1
  c2 = c2
  c3 = c3
  NoOne = NoOne
  Multi = Multi
  Own = {own}
  Sharing = {high, low}
  Pri <- TwoQueues
  Senders = {}
  Controllers = {c1, c2, c3}
  PoolMax = 3
  TriggerMax = 2
  AckMax = 2
  MaxData = 1
SPECIFICATION Spec
SYMMETRY Symmetry
INVARIANTS TypeOK MessageConserved AckExpected SleepJustified
