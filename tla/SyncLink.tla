------------------------------ MODULE SyncLink ------------------------------
(***************************************************************************)
(* The sync link (syncLink_tsk.c): it makes a composite of one frame of each *)
(* active channel when the timestamps are near enough, and returns the       *)
(* frames that are too old or that match no other.                           *)
(*                                                                         *)
(* The clock and the timestamps are in us, the link compares whole ms.  The   *)
(* frames of a channel have growing timestamps, so that a channel and a       *)
(* timestamp are a frame, a local queue is a set whose head is the least, and  *)
(* a buffer without a frame is only counted.  A mailbox tells whether a       *)
(* NEW_DATA waits in it: the handler flushes the others.                     *)
(***************************************************************************)
EXTENDS Integers, FiniteSets, Functions, FiniteSetsExt

CONSTANTS NumCh,          \* channels of the previous link
          B,              \* buffers of the previous link for each
          Comps,          \* SYNC_LINK_MAX_FRAMES_PER_OUT_QUE
          SyncDelta, SyncThreshold,     \* in ms
          NoLimit,        \* SYNC_DROP_THRESHOLD_MAX
          Word,           \* 2^32, the values of a UInt32
          Kilo,           \* us in a ms
          Stack,          \* what an entry of chTimeStamps that is not set may hold
          MaxTime,        \* bound: the last us
          MaxStarts       \* bound: times the link is started

Chans == 1 .. NumCh
Times == 1 .. MaxTime

ASSUME SyncLinkAssumption ==
  /\ NumCh \in Nat \ {0} /\ B \in Nat \ {0} /\ Comps \in Nat
  /\ SyncDelta \in Nat /\ SyncThreshold \in Nat /\ NoLimit \in Nat
  /\ Word \in Nat \ {0} /\ Kilo \in Nat \ {0} /\ Stack \subseteq Nat
  /\ MaxTime \in Nat /\ MaxStarts \in Nat

Ms(t) == t \div Kilo      \* UInt64 us to ms, rounded down

VARIABLES
  syncList,             \* channelSyncList: the active channels
  state, starts,        \* of the link; how often it was started
  now, last,            \* the clock; timestamp of the last frame of a channel
  prevFree, prevFull,   \* the previous link: buffers free, frames in its queue
  newData,              \* a NEW_DATA waits in the mailbox
  pc,                   \* the link's task
  localQue,             \* per channel: timestamps of the frames
  emptyQue, fullQue,    \* outFrameQue: composites free, composites made
  told, held,           \* the next link: its mailbox, composites it has
  returning             \* composites in putEmptyBuffers whose frames have gone back

linkVars == <<syncList, state, starts>>
timeVars == <<now, last>>
nextVars == <<held, returning>>
vars == <<linkVars, timeVars, prevFree, prevFull, newData, pc, localQue, emptyQue, fullQue,
          told, nextVars>>

Init ==
  /\ syncList \in (SUBSET Chans) \ {{}}
  /\ state = "CREATED" /\ starts = 0
  /\ now = 1 /\ last = [c \in Chans |-> 0]
  /\ prevFree = [c \in Chans |-> B] /\ prevFull = {}
  /\ newData = FALSE /\ pc = "wait"
  /\ localQue = [c \in Chans |-> {}]
  /\ emptyQue = Comps /\ fullQue = {} /\ told = FALSE /\ held = {} /\ returning = 0

-----------------------------------------------------------------------------
(* The clock, and the previous link: a frame of channel c captured at t.    *)
Tick ==
  /\ now < MaxTime /\ now' = now + 1
  /\ UNCHANGED <<linkVars, last, prevFree, prevFull, newData, pc, localQue, emptyQue, fullQue,
                 told, nextVars>>

Produce(c, t) ==
  /\ prevFree[c] > 0 /\ last[c] < t /\ t <= now
  /\ prevFree' = [prevFree EXCEPT ![c] = @ - 1] /\ prevFull' = prevFull \cup {<<c, t>>}
  /\ last' = [last EXCEPT ![c] = t]
  /\ newData' = TRUE
  /\ UNCHANGED <<linkVars, now, pc, localQue, emptyQue, fullQue, told, nextVars>>

(* SyncLink_timerCallback, every 33 ms from start to stop.                  *)
Timer ==
  /\ state = "RUNNING" /\ ~newData
  /\ newData' = TRUE
  /\ UNCHANGED <<linkVars, timeVars, prevFree, prevFull, pc, localQue, emptyQue, fullQue, told,
                 nextVars>>

(* Mutant of Recreate: the last composite is not put in the empty queue.      *)
RecreateShort ==
  /\ pc = "wait" /\ state = "CREATED" /\ held = {} /\ returning = 0
  /\ prevFree' = [c \in Chans |-> B] /\ prevFull' = {} /\ newData' = FALSE
  /\ localQue' = [c \in Chans |-> {}]
  /\ emptyQue' = Comps - 1 /\ fullQue' = {} /\ told' = FALSE
  /\ UNCHANGED <<linkVars, timeVars, pc, nextVars>>

(* The commands START, STOP, and DELETE then CREATE: before the link is       *)
(* deleted the next link has returned what it had, and the previous link is  *)
(* made anew with it.                                                       *)
Start ==
  /\ pc = "wait" /\ state = "CREATED" /\ starts < MaxStarts
  /\ state' = "RUNNING" /\ starts' = starts + 1
  /\ UNCHANGED <<syncList, timeVars, prevFree, prevFull, newData, pc, localQue, emptyQue,
                 fullQue, told, nextVars>>

Stop ==
  /\ pc = "wait" /\ state = "RUNNING" /\ starts < MaxStarts
  /\ state' = "CREATED"
  /\ UNCHANGED <<syncList, starts, timeVars, prevFree, prevFull, newData, pc, localQue,
                 emptyQue, fullQue, told, nextVars>>

Recreate ==
  /\ pc = "wait" /\ state = "CREATED" /\ held = {} /\ returning = 0
  /\ prevFree' = [c \in Chans |-> B] /\ prevFull' = {} /\ newData' = FALSE
  /\ localQue' = [c \in Chans |-> {}]
  /\ emptyQue' = Comps /\ fullQue' = {} /\ told' = FALSE
  /\ UNCHANGED <<linkVars, timeVars, pc, nextVars>>

-----------------------------------------------------------------------------
(* The handler of NEW_DATA.                                                 *)

(* Channel c gives up the frames with the timestamps gone[c].               *)
GiveBack(gone) ==
  /\ localQue' = [c \in Chans |-> localQue[c] \ gone[c]]
  /\ prevFree' = [c \in Chans |-> prevFree[c] + Cardinality(gone[c])]

(* SyncLink_addBuffersToDropListLesserThanThreshold.                        *)
Stale(c) ==
  {t \in localQue[c] : SyncThreshold < NoLimit /\ Ms(now - t) > SyncThreshold}

(* Mutant of DropStale: the handler returns at once if nothing new has come.  *)
DropStaleOnData ==
  /\ pc = "wait" /\ newData
  /\ newData' = FALSE
  /\ IF state = "RUNNING" /\ prevFull # {}
     THEN pc' = "fill" /\ GiveBack([c \in Chans |-> Stale(c)])
     ELSE UNCHANGED <<pc, localQue, prevFree>>
  /\ UNCHANGED <<linkVars, timeVars, prevFull, emptyQue, fullQue, told, nextVars>>

DropStale ==
  /\ pc = "wait" /\ newData
  /\ newData' = FALSE
  /\ IF state = "RUNNING"
     THEN pc' = "fill" /\ GiveBack([c \in Chans |-> Stale(c)])
     ELSE UNCHANGED <<pc, localQue, prevFree>>
  /\ UNCHANGED <<linkVars, timeVars, prevFull, emptyQue, fullQue, told, nextVars>>

(* Mutant of Fill: every frame goes back.                                   *)
FillReturn ==
  /\ pc = "fill"
  /\ LET new == [c \in Chans |-> {t \in Times : <<c, t>> \in prevFull}] IN
       /\ localQue' = [c \in Chans |-> IF c \in syncList THEN localQue[c] \cup new[c]
                                                         ELSE localQue[c]]
       /\ prevFree' = [c \in Chans |-> prevFree[c] + Cardinality(new[c])]
  /\ prevFull' = {} /\ pc' = "decide"
  /\ UNCHANGED <<linkVars, timeVars, newData, emptyQue, fullQue, told, nextVars>>

(* SyncLink_fillLocalQueues; a frame of an inactive channel goes back.       *)
Fill ==
  /\ pc = "fill"
  /\ LET new == [c \in Chans |-> {t \in Times : <<c, t>> \in prevFull}] IN
       /\ localQue' = [c \in Chans |-> IF c \in syncList THEN localQue[c] \cup new[c]
                                                         ELSE localQue[c]]
       /\ prevFree' = [c \in Chans |-> IF c \in syncList THEN prevFree[c]
                                       ELSE prevFree[c] + Cardinality(new[c])]
  /\ prevFull' = {} /\ pc' = "decide"
  /\ UNCHANGED <<linkVars, timeVars, newData, emptyQue, fullQue, told, nextVars>>

Ready == \A c \in syncList : localQue[c] # {}
Head(c) == Min(localQue[c])

(* SyncLink_computeMasterTimeStamp, a UInt32: the average over all channels of *)
(* an array where the entries of the inactive ones are not set.  The          *)
(* correction for a wraparound never applies: the == in its tests binds        *)
(* tighter than the &, and firstQuadrantFlag stays 0.                         *)
Masters ==
  {FoldFunction(+, 0, [c \in Chans |-> IF c \in syncList THEN Ms(Head(c)) % Word ELSE g[c]])
     \div NumCh : g \in [Chans \ syncList -> Stack]} \cap 0 .. Word - 1

(* SyncLink_computeDecisionParams: the channels with flag -1 and flag 1 ...  *)
Checked   == SyncDelta < NoLimit
Lower(m)  == IF m < SyncDelta THEN 0 ELSE m - SyncDelta
Capped(t) == IF t > Word - 2 THEN Word - 2 ELSE t
HigherBare(m) == Capped(m)  \* mutant: without the delta
Higher(m) == Capped((m + SyncDelta) % Word)
Low(m)    == {c \in syncList : Checked /\ Ms(Head(c)) < Lower(m)}
High(m)   == {c \in syncList : Checked /\ Ms(Head(c)) > Higher(m)}

(* Mutants of Synced and Dropped: a frame that is too new does not break the *)
(* set; the frames in range are kept when another is too new.                *)
SyncedLow(m)  == Low(m) = {}
DroppedLow(m) == Low(m)

(* ... whether the heads are in sync, and those that are not kept.           *)
Synced(m)  == Low(m) = {} /\ High(m) = {}
Dropped(m) == IF High(m) # {} THEN syncList \ High(m) ELSE Low(m)

(* A round of the loop of SyncLink_drvProcessData: an active channel has no   *)
(* frame, and the handler returns ...                                       *)
NoSet ==
  /\ pc = "decide" /\ ~Ready
  /\ pc' = "wait"
  /\ UNCHANGED <<linkVars, timeVars, prevFree, prevFull, newData, localQue, emptyQue, fullQue,
                 told, nextVars>>

(* ... or the heads are not in sync ...                                     *)
DropUnsynced(m) ==
  /\ pc = "decide" /\ ~Synced(m)
  /\ GiveBack([c \in Chans |-> IF c \in Dropped(m) THEN {Head(c)} ELSE {}])
  /\ UNCHANGED <<linkVars, timeVars, prevFull, newData, pc, emptyQue, fullQue, told, nextVars>>

(* ... or SyncLink_makeCompositeBuffer: srcTimestamp is a product of UInt32.  *)
(* Without a free composite the frames go back.                             *)
StampAbove(m) == ((m + SyncDelta) * Kilo) % Word  \* mutant: the upper bound
Stamp(m) == (m * Kilo) % Word

Compose(m) ==
  /\ pc = "decide" /\ Synced(m)
  /\ IF emptyQue > 0
     THEN /\ emptyQue' = emptyQue - 1
          /\ fullQue' = fullQue \cup
               {[orig |-> [c \in Chans |-> IF c \in syncList THEN Head(c) ELSE 0],
                 stamp |-> Stamp(m)]}
          /\ localQue' = [c \in Chans |-> IF c \in syncList THEN localQue[c] \ {Head(c)}
                                                            ELSE localQue[c]]
          /\ told' = TRUE
          /\ UNCHANGED prevFree
     ELSE /\ GiveBack([c \in Chans |-> IF c \in syncList THEN {Head(c)} ELSE {}])
          /\ UNCHANGED <<emptyQue, fullQue, told>>
  /\ UNCHANGED <<linkVars, timeVars, prevFull, newData, pc, nextVars>>

-----------------------------------------------------------------------------
(* The next link: SyncLink_getFullBuffers when it is told ...               *)
Take ==
  /\ told /\ told' = FALSE
  /\ held' = held \cup fullQue /\ fullQue' = {}
  /\ UNCHANGED <<linkVars, timeVars, prevFree, prevFull, newData, pc, localQue, emptyQue,
                 returning>>

(* ... and SyncLink_putEmptyBuffers for some of what it has: the frames to    *)
(* the previous link ...                                                    *)
ReturnFrames(ks) ==
  /\ returning = 0 /\ ks # {} /\ ks \subseteq held
  /\ prevFree' = [c \in Chans |-> prevFree[c] + Cardinality({k \in ks : k.orig[c] # 0})]
  /\ held' = held \ ks /\ returning' = Cardinality(ks)
  /\ UNCHANGED <<linkVars, timeVars, prevFull, newData, pc, localQue, emptyQue, fullQue, told>>

(* ... and then the composites to the empty queue.                          *)
ReturnComposites ==
  /\ returning > 0 /\ returning' = 0
  /\ emptyQue' = emptyQue + returning
  /\ UNCHANGED <<linkVars, timeVars, prevFree, prevFull, newData, pc, localQue, fullQue, told,
                 held>>

-----------------------------------------------------------------------------
Process ==
  \/ DropStale \/ Fill \/ NoSet
  \/ Ready /\ \E m \in Masters : DropUnsynced(m) \/ Compose(m)
Returns == (\E ks \in SUBSET held : ReturnFrames(ks)) \/ ReturnComposites

Next ==
  \/ Tick \/ (\E c \in Chans, t \in Times : Produce(c, t)) \/ Timer
  \/ Start \/ Stop \/ Recreate
  \/ Process \/ Take \/ Returns

Spec == Init /\ [][Next]_vars

(* The clock runs, the timer fires, the task is scheduled, and the next link  *)
(* takes what it is told of.                                                *)
FairSpec ==
  Spec /\ WF_vars(Tick) /\ WF_vars(Timer) /\ WF_vars(Process) /\ WF_vars(Take) /\ WF_vars(Returns)

-----------------------------------------------------------------------------
Composites == [orig : [Chans -> 0 .. MaxTime], stamp : 0 .. Word - 1]

TypeOK ==
  /\ syncList \in (SUBSET Chans) \ {{}}
  /\ state \in {"CREATED", "RUNNING"} /\ starts \in 0 .. MaxStarts
  /\ now \in Nat /\ last \in [Chans -> 0 .. MaxTime]
  /\ prevFree \in [Chans -> 0 .. B] /\ prevFull \subseteq Chans \X Times
  /\ newData \in BOOLEAN /\ pc \in {"wait", "fill", "decide"}
  /\ localQue \in [Chans -> SUBSET Times]
  /\ emptyQue \in 0 .. Comps /\ fullQue \subseteq Composites
  /\ told \in BOOLEAN /\ held \subseteq Composites /\ returning \in 0 .. Comps

(* A composite has a frame of every active channel and of no other, and no    *)
(* two of them are further apart than twice syncDelta, in whole ms - whatever  *)
(* the average was taken of.                                                *)
InSync ==
  \A k \in fullQue \cup held :
    /\ {c \in Chans : k.orig[c] # 0} = syncList
    /\ Checked => \A c, d \in syncList : Ms(k.orig[c]) - Ms(k.orig[d]) <= 2 * SyncDelta

(* The buffers of a channel: each is free or has one frame, which is in one   *)
(* place - none is dropped and sent on, none is returned twice.              *)
BufferConserved ==
  \A c \in Chans :
    prevFree[c] + Cardinality({f \in prevFull : f[1] = c}) + Cardinality(localQue[c])
      + Cardinality({k \in fullQue : k.orig[c] # 0})
      + Cardinality({k \in held : k.orig[c] # 0}) = B

(* The comment of syncLink_tsk.c:879-881, that the link has more composites   *)
(* than the previous link has buffers: those whose frames have gone back but  *)
(* that have not gone back themselves count too.                            *)
CompositeAvailable ==
  pc = "decide" /\ Ready /\ (\E m \in Masters : Synced(m)) => emptyQue > 0

AllActive == syncList = Chans

(* The timestamp of a composite, in us from ms that were rounded down twice, is *)
(* less than a ms before the first of its frames, and not after the last.    *)
StampWithin ==
  AllActive => \A k \in fullQue \cup held :
                 /\ \E c \in Chans : k.orig[c] < k.stamp + Kilo
                 /\ \E c \in Chans : k.stamp <= k.orig[c]

(* Heads no further apart than syncDelta, in whole ms and so in us too, are    *)
(* never returned for being out of sync.                                    *)
MatchKept ==
  [][ AllActive /\ pc = "decide" /\ Ready /\ emptyQue > 0
      /\ (\A c, d \in Chans : Ms(Head(c)) - Ms(Head(d)) <= SyncDelta)
      => \A c \in Chans : Head(c) \in localQue'[c] \/ \E k \in fullQue' : k.orig[c] = Head(c) ]_vars

(* The handler comes to an end.                                             *)
ProcessReturns == AllActive /\ pc # "wait" ~> pc = "wait"

(* A frame that nothing matches goes back to the previous link, although no   *)
(* frame comes after it.                                                    *)
StaleReturned ==
  \A c \in Chans, t \in 1 .. MaxTime - (SyncThreshold + 1) * Kilo :
    AllActive /\ t \in localQue[c] ~> t \notin localQue[c] \/ state # "RUNNING"
=============================================================================
