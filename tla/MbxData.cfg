CONSTANTS
  own = own
  high = high
  low = low
  s1 = s1
  s2 = s2
  c1 = c1
  c2 = c2
  c3 = c3
  NoOne = NoOne
  Multi = Multi
  Own = {}
  Sharing = {high, low}
  Pri <- OneQueue
  Senders = {s1}
  Controllers = {c1}
  PoolMax = 2
  TriggerMax = 2
  AckMax = 1
  MaxData = 2
SPECIFICATION FairSpec
PROPERTIES LostToStale LowProcessed CallReturns
CHECK_DEADLOCK FALSE
