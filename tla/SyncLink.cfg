CONSTANTS NumCh = 2  B = 2  Comps = 4  SyncDelta = 1  SyncThreshold = 1  NoLimit = 4095
          Word = 1000000  Kilo = 2  Stack = {0, 9}  MaxTime = 6  MaxStarts = 2
SPECIFICATION FairSpec
INVARIANTS InSync BufferConserved CompositeAvailable StampWithin
PROPERTIES MatchKept ProcessReturns StaleReturned
