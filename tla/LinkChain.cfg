CONSTANTS Bufs = {"a", "b"}  InChs = {0, 1}  NotMapped = 255  NoOne = NoOne  MaxCmds = 3  MaxChPerOutQue = 2
          ChOf <- MCChOf  Chosen <- MCChosen  Lists <- MCLists
SPECIFICATION FairSpec
INVARIANTS BufferConserved OriginRestored HaltedByLongList CountIsBeyond PollSafe
PROPERTIES FrameReturned
CHECK_DEADLOCK FALSE
