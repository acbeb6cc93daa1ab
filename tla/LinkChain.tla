----------------------------- MODULE LinkChain -----------------------------
(***************************************************************************)
(* The connector links in a chain: a source, the select link               *)
(* (selectLink_tsk.c), the merge link (mergeLink_tsk.c) with queue 0 of the  *)
(* select link as input 0 and, through the gate link (gateLink_tsk.c), queue *)
(* 1 as input 1, and a next link that returns what it gets.                  *)
(*                                                                         *)
(* These links hand the same buffers on.  getFullBuffers and putEmptyBuffers *)
(* are calls up the chain, in the task of the link that makes them: the      *)
(* merge link's task takes from the gate link what is in the select link's   *)
(* queue, and the next link's task returns through all three.  The fields     *)
(* chNum and selectOrgChNum of a buffer are written on the way.  A mailbox    *)
(* tells whether a NEW_DATA waits in it, for a second finds nothing more.     *)
(***************************************************************************)
EXTENDS Integers, FiniteSets, Sequences

CONSTANTS Bufs,         \* the source's buffers
          InChs,        \* its channels
          ChOf,         \* the channel of each buffer
          Chosen,       \* outQueChInfo of the create parameters: input channels per queue
          NotMapped,    \* SELECT_LINK_CH_NOT_MAPPED
          NoOne,
          MaxChPerOutQue, \* SYSTEM_MAX_CH_PER_OUT_QUE
          Lists,        \* the lists of input channels that commands give a queue
          MaxCmds       \* bound: commands of the application that change something

Ques == {0, 1}                                 \* numOutQue of select, numInQue of merge

ASSUME LinkChainAssumption ==
  /\ IsFiniteSet(Bufs) /\ IsFiniteSet(InChs) /\ InChs \subseteq Nat
  /\ ChOf \in [Bufs -> InChs] /\ Chosen \in [Ques -> Seq(InChs)]
  /\ NotMapped \in Nat /\ NotMapped > 2 /\ NoOne \notin Ques /\ MaxCmds \in Nat
  /\ MaxChPerOutQue \in Nat /\ Lists \subseteq Seq(InChs)

VARIABLES
  srcFree, srcFull,     \* the source's queues
  chNum, orgChNum,      \* per buffer: chNum, selectOrgChNum
  selMsg, inChInfo,     \* the select link: mailbox, per input channel its queue and channel
  prevOutQueChInfo,     \*   per queue the input channels last set
  outFrameQue,          \*   its output queues
  gateMsg, opOn,        \* the gate link: mailbox, whether opStatus is ON
  bufCount, lock,       \*   its count, and who has its lock
  mergeMsg, mergePc,    \* the merge link: mailbox, where its task is
  inBufList, fresh,     \*   what an input gave, newDataAvailable
  outBufQue,            \*   its output queue
  nextMsg, held,        \* the next link: mailbox, buffers it has
  putPc, putList,       \*   its putEmptyBuffers: where it is, buffers for the gate
  numBuf,               \*   how many the gate returned
  cmds,                 \* how many commands the application has sent
  safe,                 \* the application was told that all is back from a closed gate
  longQues              \* the queues it gave more channels than they were created with

bufVars    == <<srcFree, srcFull, chNum, orgChNum>>
selectVars == <<selMsg, inChInfo, prevOutQueChInfo, outFrameQue>>
gateVars   == <<gateMsg, opOn, bufCount, lock>>
mergeVars  == <<mergeMsg, mergePc, inBufList, fresh, outBufQue>>
nextVars   == <<nextMsg, held, putPc, putList, numBuf>>
appVars    == <<cmds, safe, longQues>>
vars == <<bufVars, selectVars, gateVars, mergeVars, nextVars, appVars>>

-----------------------------------------------------------------------------
(* The maps of the links.                                                   *)

(* The output channel that the list chs gives to input channel c.           *)
OutChNum(chs, c) ==
  (CHOOSE i \in DOMAIN chs : chs[i] = c /\ \A j \in DOMAIN chs : chs[j] = c => j <= i) - 1
In(c, chs) == \E i \in DOMAIN chs : chs[i] = c
None == [queId |-> NotMapped, outChNum |-> 0]

(* Mutant of SetMap: a channel that moves to another queue keeps its number.  *)
SetMapKeep(m, old, q, chs) ==
  [c \in InChs |->
     IF In(c, chs)
     THEN [queId |-> q,
           outChNum |-> IF m[c].queId \in Ques THEN m[c].outChNum ELSE OutChNum(chs, c)]
     ELSE IF In(c, old) THEN None ELSE m[c]]

(* SelectLink_drvSetOutQueChInfo: the channels that the queue had are not     *)
(* mapped any more, wherever they are mapped by now, and the new ones are.   *)
SetMap(m, old, q, chs) ==
  [c \in InChs |->
     IF In(c, chs) THEN [queId |-> q, outChNum |-> OutChNum(chs, c)]
     ELSE IF In(c, old) THEN None ELSE m[c]]

(* SelectLink_drvCreate.                                                    *)
Created == SetMap(SetMap([c \in InChs |-> None], <<>>, 0, Chosen[0]), <<>>, 1, Chosen[1])

(* MergeLink_drvCreate: inQueMaxCh, inQueChNumMap, outQueChToInQueMap and     *)
(* outQueChMap; the channels of input 1 come after those of input 0.         *)
MaxCh(q)      == Len(Chosen[q])
OutCh(q, c)   == IF q = 0 THEN c ELSE MaxCh(0) + c
InQueOf(out)  == IF out < MaxCh(0) THEN 0 ELSE 1
InChOf(out)   == IF out < MaxCh(0) THEN out ELSE out - MaxCh(0)

Init ==
  /\ srcFree = Bufs /\ srcFull = {} /\ chNum = ChOf /\ orgChNum = [b \in Bufs |-> 0]
  /\ selMsg = FALSE /\ inChInfo = Created
  /\ prevOutQueChInfo = [q \in {0, 1, 2} |-> IF q \in Ques THEN Chosen[q] ELSE <<>>]
  /\ outFrameQue = [q \in Ques |-> {}]
  /\ gateMsg = FALSE /\ opOn = FALSE /\ bufCount = 0 /\ lock = NoOne
  /\ mergeMsg = FALSE /\ mergePc = "wait" /\ inBufList = {} /\ fresh = FALSE /\ outBufQue = {}
  /\ nextMsg = FALSE /\ held = {} /\ putPc = "idle" /\ putList = {} /\ numBuf = 0
  /\ cmds = 0 /\ safe = FALSE /\ longQues = {}

-----------------------------------------------------------------------------
(* The source puts a frame in its queue and tells the select link.          *)
Produce(b) ==
  /\ b \in srcFree
  /\ srcFree' = srcFree \ {b} /\ srcFull' = srcFull \cup {b}
  /\ selMsg' = TRUE
  /\ UNCHANGED <<chNum, orgChNum, inChInfo, prevOutQueChInfo, outFrameQue, gateVars, mergeVars,
                 nextVars, appVars>>

(* SelectLink_drvProcessData: a frame of a channel that is not mapped to a    *)
(* queue goes back, another gets the channel of the queue.                  *)
Routed(q) == {b \in srcFull : inChInfo[chNum[b]].queId = q}

Select ==
  /\ selMsg /\ selMsg' = FALSE
  /\ LET mapped == Routed(0) \cup Routed(1) IN
       /\ srcFree' = srcFree \cup (srcFull \ mapped) /\ srcFull' = {}
       /\ orgChNum' = [b \in Bufs |-> IF b \in mapped THEN chNum[b] ELSE orgChNum[b]]
       /\ chNum' = [b \in Bufs |-> IF b \in mapped THEN inChInfo[chNum[b]].outChNum ELSE chNum[b]]
  /\ outFrameQue' = [q \in Ques |-> outFrameQue[q] \cup Routed(q)]
  /\ mergeMsg' = (mergeMsg \/ Routed(0) # {})
  /\ gateMsg' = (gateMsg \/ Routed(1) # {})
  /\ UNCHANGED <<inChInfo, prevOutQueChInfo, opOn, bufCount, lock, mergePc, inBufList, fresh,
                 outBufQue, nextVars, appVars>>

(* SELECT_LINK_CMD_SET_OUT_QUE_CH_INFO; queue 2, one too many, passes the test, *)
(* and so does a list longer than the one the queue was created with.       *)
SetOutQueChInfo(q, chs) ==
  /\ cmds < MaxCmds /\ cmds' = cmds + 1
  /\ Len(chs) <= MaxChPerOutQue
  /\ inChInfo' = SetMap(inChInfo, prevOutQueChInfo[q], q, chs)
  /\ prevOutQueChInfo' = [prevOutQueChInfo EXCEPT ![q] = chs]
  /\ longQues' = longQues \cup {p \in Ques : p = q /\ Len(chs) > MaxCh(p)}
  /\ UNCHANGED <<bufVars, selMsg, outFrameQue, gateVars, mergeVars, nextVars, safe>>

(* Mutant of SelectReturn: the channel of the output queue is left.         *)
SelectReturnAsIs(bs) ==
  /\ srcFree' = srcFree \cup bs
  /\ chNum' = [b \in Bufs |-> IF b \in bs THEN InChOf(chNum[b]) ELSE chNum[b]]

(* SelectLink_putEmptyBuffers, whoever calls it.                            *)
SelectReturn(bs) ==
  /\ srcFree' = srcFree \cup bs
  /\ chNum' = [b \in Bufs |-> IF b \in bs THEN orgChNum[b] ELSE chNum[b]]

-----------------------------------------------------------------------------
(* Mutant of GateData: the frames do not go back.                           *)
GateDataDrop ==
  /\ gateMsg /\ gateMsg' = FALSE
  /\ IF opOn
     THEN mergeMsg' = TRUE /\ UNCHANGED <<srcFree, chNum, outFrameQue>>
     ELSE /\ UNCHANGED <<srcFree, chNum>>
          /\ outFrameQue' = [outFrameQue EXCEPT ![1] = {}]
          /\ UNCHANGED mergeMsg
  /\ UNCHANGED <<srcFull, orgChNum, selMsg, inChInfo, prevOutQueChInfo, opOn, bufCount, lock,
                 mergePc, inBufList, fresh, outBufQue, nextVars, appVars>>

(* GateLink_drvProcessData: NEW_DATA goes on, or the frames go back.         *)
GateData ==
  /\ gateMsg /\ gateMsg' = FALSE
  /\ IF opOn
     THEN mergeMsg' = TRUE /\ UNCHANGED <<srcFree, chNum, outFrameQue>>
     ELSE /\ SelectReturn(outFrameQue[1])
          /\ outFrameQue' = [outFrameQue EXCEPT ![1] = {}]
          /\ UNCHANGED mergeMsg
  /\ UNCHANGED <<srcFull, orgChNum, selMsg, inChInfo, prevOutQueChInfo, opOn, bufCount, lock,
                 mergePc, inBufList, fresh, outBufQue, nextVars, appVars>>

(* Mutant of SetOn: the count starts again.                                 *)
SetOnReset ==
  /\ cmds < MaxCmds /\ cmds' = cmds + 1
  /\ lock = NoOne /\ opOn' = TRUE /\ safe' = FALSE /\ bufCount' = 0
  /\ UNCHANGED <<bufVars, selectVars, gateMsg, lock, mergeVars, nextVars, longQues>>

(* The commands ON and OFF take the lock, GET_BUFFER_FORWARD_COUNT does not.  *)
SetOn ==
  /\ cmds < MaxCmds /\ cmds' = cmds + 1
  /\ lock = NoOne /\ opOn' = TRUE /\ safe' = FALSE
  /\ UNCHANGED <<bufVars, selectVars, gateMsg, bufCount, lock, mergeVars, nextVars, longQues>>

(* Mutant of SetOff: it does not take the lock.                             *)
SetOffNoLock ==
  /\ cmds < MaxCmds /\ cmds' = cmds + 1
  /\ opOn' = FALSE
  /\ UNCHANGED <<bufVars, selectVars, gateMsg, bufCount, lock, mergeVars, nextVars, safe,
                 longQues>>

SetOff ==
  /\ cmds < MaxCmds /\ cmds' = cmds + 1
  /\ lock = NoOne /\ opOn' = FALSE
  /\ UNCHANGED <<bufVars, selectVars, gateMsg, bufCount, lock, mergeVars, nextVars, safe,
                 longQues>>

Poll ==
  /\ ~opOn /\ bufCount = 0 /\ safe' = TRUE
  /\ UNCHANGED <<bufVars, selectVars, gateVars, mergeVars, nextVars, cmds, longQues>>

-----------------------------------------------------------------------------
(* MergeLink_drvProcessData: input 0, directly from the select link ...      *)
Fits(q, bs) == \A b \in bs : chNum[b] < MaxCh(q)

Merged(q, bs) ==
  /\ chNum' = [b \in Bufs |-> IF b \in bs THEN OutCh(q, chNum[b]) ELSE chNum[b]]
  /\ outBufQue' = outBufQue \cup bs

MergeDirect ==
  /\ mergePc = "wait" /\ mergeMsg
  /\ mergeMsg' = FALSE
  /\ Fits(0, outFrameQue[0])
  /\ Merged(0, outFrameQue[0]) /\ fresh' = (outFrameQue[0] # {})
  /\ outFrameQue' = [outFrameQue EXCEPT ![0] = {}]
  /\ mergePc' = "gate"
  /\ UNCHANGED <<srcFree, srcFull, orgChNum, selMsg, inChInfo, prevOutQueChInfo, gateVars,
                 inBufList, nextVars, appVars>>

(* ... where UTILS_assert of a channel that the input does not have loops for  *)
(* ever, with the frames of the list; their channels are not read again ...  *)
HaltDirect ==
  /\ mergePc = "wait" /\ mergeMsg
  /\ mergeMsg' = FALSE
  /\ ~Fits(0, outFrameQue[0])
  /\ inBufList' = outFrameQue[0] /\ outFrameQue' = [outFrameQue EXCEPT ![0] = {}]
  /\ mergePc' = "halted0"
  /\ UNCHANGED <<bufVars, selMsg, inChInfo, prevOutQueChInfo, gateVars, fresh, outBufQue,
                 nextVars, appVars>>

(* ... input 1, through GateLink_getFullBuffers, under the gate's lock ...   *)
MergeGate ==
  /\ mergePc = "gate" /\ lock = NoOne
  /\ IF opOn
     THEN /\ inBufList' = outFrameQue[1] /\ outFrameQue' = [outFrameQue EXCEPT ![1] = {}]
          /\ lock' = 0 /\ mergePc' = "count"
     ELSE mergePc' = "tell" /\ UNCHANGED <<inBufList, outFrameQue, lock>>
  /\ UNCHANGED <<bufVars, selMsg, inChInfo, prevOutQueChInfo, gateMsg, opOn, bufCount, mergeMsg,
                 fresh, outBufQue, nextVars, appVars>>

(* ... and counts, before the merge link's own loop over the frames ...     *)
Counts ==
  /\ mergePc = "count"
  /\ bufCount' = bufCount + Cardinality(inBufList) /\ lock' = NoOne

(* Mutant of MergeCount: newDataAvailable is that of the last input.         *)
MergeCountLast ==
  /\ Counts /\ Fits(1, inBufList)
  /\ Merged(1, inBufList) /\ fresh' = (inBufList # {})
  /\ inBufList' = {} /\ mergePc' = "tell"
  /\ UNCHANGED <<srcFree, srcFull, orgChNum, selectVars, gateMsg, opOn, mergeMsg, nextVars,
                 appVars>>

MergeCount ==
  /\ Counts /\ Fits(1, inBufList)
  /\ Merged(1, inBufList) /\ fresh' = (fresh \/ inBufList # {})
  /\ inBufList' = {} /\ mergePc' = "tell"
  /\ UNCHANGED <<srcFree, srcFull, orgChNum, selectVars, gateMsg, opOn, mergeMsg, nextVars,
                 appVars>>

HaltCount ==
  /\ Counts /\ ~Fits(1, inBufList)
  /\ mergePc' = "halted1"
  /\ UNCHANGED <<bufVars, selectVars, gateMsg, opOn, mergeMsg, inBufList, fresh, outBufQue,
                 nextVars, appVars>>

(* ... and the next link is told.                                           *)
MergeTell ==
  /\ mergePc = "tell"
  /\ nextMsg' = (nextMsg \/ fresh) /\ fresh' = FALSE
  /\ mergePc' = "wait"
  /\ UNCHANGED <<bufVars, selectVars, gateVars, mergeMsg, inBufList, outBufQue, held, putPc,
                 putList, numBuf, appVars>>

-----------------------------------------------------------------------------
(* The next link: MergeLink_getFullBuffers ...                              *)
Take ==
  /\ nextMsg /\ nextMsg' = FALSE
  /\ held' = held \cup outBufQue /\ outBufQue' = {}
  /\ UNCHANGED <<bufVars, selectVars, gateVars, mergeMsg, mergePc, inBufList, fresh, putPc,
                 putList, numBuf, appVars>>

(* ... and MergeLink_putEmptyBuffers, which sorts the buffers by input: those *)
(* of input 0 go to the select link ...                                     *)
Put(bs) ==
  /\ putPc = "idle" /\ bs # {} /\ bs \subseteq held
  /\ held' = held \ bs
  /\ LET direct == {b \in bs : InQueOf(chNum[b]) = 0} IN
       /\ SelectReturn(direct)
       /\ putList' = bs \ direct
       /\ putPc' = IF bs = direct THEN "idle" ELSE "gate"
  /\ UNCHANGED <<srcFull, orgChNum, selectVars, gateVars, mergeVars, nextMsg, numBuf, appVars>>

(* ... and those of input 1 through GateLink_putEmptyBuffers, under its lock, *)
(* which counts them when they are back.                                    *)
PutGate ==
  /\ putPc = "gate" /\ lock = NoOne
  /\ lock' = 1 /\ SelectReturn(putList)
  /\ numBuf' = Cardinality(putList) /\ putList' = {}
  /\ putPc' = "count"
  /\ UNCHANGED <<srcFull, orgChNum, selectVars, gateMsg, opOn, bufCount, mergeVars, nextMsg,
                 held, appVars>>

PutCount ==
  /\ putPc = "count"
  /\ bufCount' = bufCount - numBuf /\ numBuf' = 0 /\ lock' = NoOne
  /\ putPc' = "idle"
  /\ UNCHANGED <<bufVars, selectVars, gateMsg, opOn, mergeVars, nextMsg, held, putList, appVars>>

-----------------------------------------------------------------------------
(* All links are deleted, when the next link has returned what it had, and    *)
(* created; NEW_DATA that waits is read by a link that does not exist.       *)
Recreate ==
  /\ held = {} /\ putPc = "idle" /\ mergePc = "wait"
  /\ srcFree' = Bufs /\ srcFull' = {} /\ chNum' = ChOf
  /\ selMsg' = FALSE
  /\ inChInfo' = Created
  /\ prevOutQueChInfo' = [q \in {0, 1, 2} |-> IF q \in Ques THEN Chosen[q]
                                              ELSE prevOutQueChInfo[q]]
  /\ outFrameQue' = [q \in Ques |-> {}]
  /\ gateMsg' = FALSE /\ opOn' = FALSE /\ bufCount' = 0
  /\ mergeMsg' = FALSE /\ outBufQue' = {} /\ nextMsg' = FALSE /\ safe' = FALSE
  /\ longQues' = {}
  /\ UNCHANGED <<orgChNum, lock, mergePc, inBufList, fresh, held, putPc, putList, numBuf, cmds>>

Merge == MergeDirect \/ HaltDirect \/ MergeGate \/ MergeCount \/ HaltCount \/ MergeTell

Next ==
  \/ \E b \in Bufs : Produce(b)
  \/ Select \/ \E q \in {0, 1, 2}, chs \in Lists : SetOutQueChInfo(q, chs)
  \/ GateData \/ SetOn \/ SetOff \/ Poll
  \/ Merge
  \/ Take \/ (\E bs \in SUBSET Bufs : Put(bs)) \/ PutGate \/ PutCount
  \/ Recreate

Spec == Init /\ [][Next]_vars

(* The tasks are scheduled, the next link takes what it is told of and        *)
(* returns all that it has, and the lock serves its waiters in turn.         *)
FairSpec ==
  /\ Spec /\ WF_vars(Select) /\ WF_vars(GateData)
  /\ WF_vars(Merge) /\ SF_vars(MergeGate)
  /\ WF_vars(Take) /\ SF_vars(Put(held)) /\ SF_vars(PutGate) /\ WF_vars(PutCount)

-----------------------------------------------------------------------------
TypeOK ==
  /\ srcFree \subseteq Bufs /\ srcFull \subseteq Bufs
  /\ chNum \in [Bufs -> Nat] /\ orgChNum \in [Bufs -> Nat]
  /\ selMsg \in BOOLEAN
  /\ inChInfo \in [InChs -> [queId : {0, 1, 2, NotMapped}, outChNum : Nat]]
  /\ prevOutQueChInfo \in [{0, 1, 2} -> Seq(InChs)]
  /\ outFrameQue \in [Ques -> SUBSET Bufs]
  /\ gateMsg \in BOOLEAN /\ opOn \in BOOLEAN /\ bufCount \in Nat /\ lock \in {0, 1, NoOne}
  /\ mergeMsg \in BOOLEAN /\ mergePc \in {"wait", "gate", "count", "tell", "halted0", "halted1"}
  /\ inBufList \subseteq Bufs /\ fresh \in BOOLEAN /\ outBufQue \subseteq Bufs
  /\ nextMsg \in BOOLEAN /\ held \subseteq Bufs /\ putPc \in {"idle", "gate", "count"}
  /\ putList \subseteq Bufs /\ numBuf \in Nat /\ cmds \in Nat /\ safe \in BOOLEAN
  /\ longQues \subseteq Ques

Places == <<srcFree, srcFull, outFrameQue[0], outFrameQue[1], inBufList, outBufQue, held, putList>>

(* A buffer is in one place: none is lost, returned twice or in two links.   *)
BufferConserved ==
  \A b \in Bufs : \E i \in DOMAIN Places :
    \A j \in DOMAIN Places : (b \in Places[j]) <=> (j = i)

(* A buffer comes back to the source with the channel it had there, although  *)
(* two links rewrite it and the mapping may have changed since.              *)
OriginRestored == \A b \in srcFree \cup srcFull : chNum[b] = ChOf[b]

(* mergeLink_tsk.c:225 asserts that a channel is one of the input.  It fails   *)
(* only on an input whose queue was given a longer list than it was created   *)
(* with: other maps are safe for the frames that wait while they change.     *)
HaltedByLongList ==
  /\ mergePc = "halted0" => 0 \in longQues
  /\ mergePc = "halted1" => 1 \in longQues

Halted == mergePc \in {"halted0", "halted1"}

(* The buffers that went through the gate and did not come back.            *)
Beyond ==
  {b \in inBufList : mergePc # "halted0"}
    \cup putList \cup {b \in outBufQue \cup held : InQueOf(chNum[b]) = 1}

(* gateLink_priv.h:124, "number of buffers to be released by gate link": bufCount, *)
(* but for the call that is about to count.                                 *)
CountIsBeyond ==
  bufCount + (IF mergePc = "count" THEN Cardinality(inBufList) ELSE 0)
    = Cardinality(Beyond) + (IF putPc = "count" THEN numBuf ELSE 0)

(* gateLink.h, "When bufCount is zero it is safe to delete the prev / next link *)
(* instance": after OFF, and until ON, no buffer is beyond the gate or gets   *)
(* there.                                                                   *)
PollSafe == safe => Beyond = {}

(* b waits behind the gate, no NEW_DATA of it waits in the gate's mailbox, and *)
(* the gate is closed or the merge link is not about to look.               *)
Stranded(b) ==
  b \in outFrameQue[1] /\ ~gateMsg /\ (~opOn \/ (~mergeMsg /\ mergePc # "gate" /\ ~Halted))

(* b waits for the merge link's task, which an assertion has halted.         *)
LeftBehind(b) ==
  /\ Halted
  /\ \/ b \in inBufList \cup outFrameQue[0] \/ (b \in outBufQue /\ ~nextMsg)
     \/ b \in outFrameQue[1] /\ opOn

(* A frame comes back to the source, unless the gate was switched off after   *)
(* NEW_DATA went through it and before the frame did, or it waits for a task   *)
(* that is halted: what the others have comes back all the same.             *)
FrameReturned ==
  \A b \in Bufs : b \notin srcFree ~> b \in srcFree \/ Stranded(b) \/ LeftBehind(b)
=============================================================================
