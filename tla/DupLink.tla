------------------------------- MODULE DupLink -------------------------------
(***************************************************************************)
(* The dup link (dupLink_tsk.c): each buffer of the previous link goes to    *)
(* NumOut next links as a descriptor that points to it, dupCount counts the  *)
(* descriptors still out, and the last one returned returns the buffer.      *)
(*                                                                         *)
(* The task duplicates; the next links call putEmptyBuffers from their own    *)
(* tasks, where a lock covers the counting but not dupCount = numOutQue in   *)
(* the task, nor the return of the descriptors, which comes after that of    *)
(* the buffers.  A queue is the set of buffers in it or, for the empty queue *)
(* of an output, the number of descriptors; a mailbox tells whether a        *)
(* NEW_DATA waits in it, for a second one finds nothing.                     *)
(***************************************************************************)
EXTENDS Integers, FiniteSets

CONSTANTS Bufs,        \* the previous link's buffers
          NumOut,      \* numOutQue
          Pool,        \* DUP_LINK_MAX_FRAMES_PER_OUT_QUE
          NoBuf, NoOne,
          MaxSessions  \* bound: times the link is created; the last one is not deleted

Outs == 1 .. NumOut

ASSUME DupLinkAssumption ==
  /\ IsFiniteSet(Bufs) /\ NoBuf \notin Bufs /\ NoOne \notin Outs
  /\ NumOut \in Nat \ {0} /\ Pool \in Nat /\ MaxSessions \in Nat \ {0}

VARIABLES
  prevFree, prevFull,   \* the previous link's queues
  newData,              \* a NEW_DATA waits in the dup link's mailbox
  pc, inBufList, outId, \* its task: where it is, buffers to duplicate, output served
  outBufList,           \*   per output: descriptors to put
  dupCount,             \* per buffer
  emptyQue, fullQue,    \* per output: outFrameQue
  told, held,           \* per next link: its mailbox, descriptors it has
  lock,                 \* the next link that has it, or NoOne
  putPc, todo, numBuf,  \* per next link in putEmptyBuffers: where, to count, in the list
  pBuf, reg,            \*   the one being counted, and the count as loaded
  freeList,             \*   freeBufferList
  running, session      \* the next links are started; how often all was created

prevVars == <<prevFree, prevFull>>
dupVars  == <<newData, pc, inBufList, outId, outBufList>>
putVars  == <<putPc, todo, numBuf, pBuf, reg, freeList>>
vars == <<prevVars, dupVars, dupCount, emptyQue, fullQue, told, held, lock, putVars,
          running, session>>

Init ==
  /\ prevFree = Bufs /\ prevFull = {} /\ newData = FALSE
  /\ pc = "wait" /\ inBufList = {} /\ outId = 1
  /\ outBufList = [q \in Outs |-> {}] /\ dupCount = [b \in Bufs |-> 0]
  /\ emptyQue = [q \in Outs |-> Pool] /\ fullQue = [q \in Outs |-> {}]
  /\ told = [q \in Outs |-> FALSE] /\ held = [q \in Outs |-> {}]
  /\ lock = NoOne /\ putPc = [q \in Outs |-> "idle"] /\ todo = [q \in Outs |-> {}]
  /\ numBuf = [q \in Outs |-> 0]
  /\ pBuf = [q \in Outs |-> NoBuf] /\ reg = [q \in Outs |-> 0]
  /\ freeList = [q \in Outs |-> {}] /\ running = TRUE /\ session = 1

-----------------------------------------------------------------------------
(* The previous link fills a buffer and tells the dup link.                 *)
Produce(b) ==
  /\ b \in prevFree
  /\ prevFree' = prevFree \ {b} /\ prevFull' = prevFull \cup {b}
  /\ newData' = TRUE
  /\ UNCHANGED <<pc, inBufList, outId, outBufList, dupCount, emptyQue, fullQue, told, held,
                 lock, putVars, running, session>>

(* DupLink_drvProcessData takes the full buffers ...                        *)
GetFull ==
  /\ pc = "wait" /\ newData
  /\ newData' = FALSE
  /\ inBufList' = prevFull /\ prevFull' = {}
  /\ pc' = IF prevFull = {} THEN "wait" ELSE "dup"
  /\ UNCHANGED <<prevFree, outId, outBufList, dupCount, emptyQue, fullQue, told, held, lock,
                 putVars, running, session>>

(* ... takes a descriptor of each output for each, which must be there ...   *)
Duplicate(b) ==
  /\ pc = "dup" /\ b \in inBufList
  /\ dupCount' = [dupCount EXCEPT ![b] = NumOut]
  /\ \A q \in Outs : emptyQue[q] > 0
  /\ emptyQue' = [q \in Outs |-> emptyQue[q] - 1]
  /\ outBufList' = [q \in Outs |-> outBufList[q] \cup {b}]
  /\ inBufList' = inBufList \ {b}
  /\ pc' = IF inBufList' = {} THEN "put" ELSE "dup"
  /\ UNCHANGED <<prevVars, newData, outId, fullQue, told, held, lock, putVars, running, session>>

(* ... and for each output in turn puts the descriptors ...                 *)
PutFull ==
  /\ pc = "put"
  /\ fullQue' = [fullQue EXCEPT ![outId] = @ \cup outBufList[outId]]
  /\ outBufList' = [outBufList EXCEPT ![outId] = {}]
  /\ pc' = "tell"
  /\ UNCHANGED <<prevVars, newData, inBufList, outId, dupCount, emptyQue, told, held, lock,
                 putVars, running, session>>

(* Mutant of Tell: only the first output is served.                         *)
TellFirst ==
  /\ pc = "tell"
  /\ told' = [told EXCEPT ![1] = TRUE]
  /\ IF outId = NumOut THEN outId' = 1 /\ pc' = "wait" ELSE outId' = outId + 1 /\ pc' = "put"
  /\ UNCHANGED <<prevVars, newData, inBufList, outBufList, dupCount, emptyQue, fullQue, held,
                 lock, putVars, running, session>>

(* ... and tells the next link.                                             *)
Tell ==
  /\ pc = "tell"
  /\ told' = [told EXCEPT ![outId] = TRUE]
  /\ IF outId = NumOut THEN outId' = 1 /\ pc' = "wait" ELSE outId' = outId + 1 /\ pc' = "put"
  /\ UNCHANGED <<prevVars, newData, inBufList, outBufList, dupCount, emptyQue, fullQue, held,
                 lock, putVars, running, session>>

-----------------------------------------------------------------------------
(* DupLink_getFullBuffers, in the task of the next link of output q, which    *)
(* does not call it once it is stopped.                                     *)
Take(q) ==
  /\ told[q] /\ told' = [told EXCEPT ![q] = FALSE]
  /\ IF running
     THEN /\ held' = [held EXCEPT ![q] = @ \cup fullQue[q]]
          /\ fullQue' = [fullQue EXCEPT ![q] = {}]
     ELSE UNCHANGED <<held, fullQue>>
  /\ UNCHANGED <<prevVars, dupVars, dupCount, emptyQue, lock, putVars, running, session>>

(* DupLink_putEmptyBuffers for a list of the descriptors it has.            *)
PutCall(q, bufs) ==
  /\ putPc[q] = "idle" /\ bufs # {} /\ bufs \subseteq held[q]
  /\ putPc' = [putPc EXCEPT ![q] = "lock"]
  /\ todo' = [todo EXCEPT ![q] = bufs] /\ numBuf' = [numBuf EXCEPT ![q] = Cardinality(bufs)]
  /\ held' = [held EXCEPT ![q] = @ \ bufs]
  /\ UNCHANGED <<prevVars, dupVars, dupCount, emptyQue, fullQue, told, lock, pBuf, reg,
                 freeList, running, session>>

(* Mutant of PutLock: the counting is not locked.                           *)
PutNoLock(q) ==
  /\ putPc[q] = "lock"
  /\ lock' = q
  /\ putPc' = [putPc EXCEPT ![q] = "load"]
  /\ UNCHANGED <<prevVars, dupVars, dupCount, emptyQue, fullQue, told, held, todo, numBuf,
                 pBuf, reg, freeList, running, session>>

PutLock(q) ==
  /\ putPc[q] = "lock" /\ lock = NoOne
  /\ lock' = q
  /\ putPc' = [putPc EXCEPT ![q] = "load"]
  /\ UNCHANGED <<prevVars, dupVars, dupCount, emptyQue, fullQue, told, held, todo, numBuf,
                 pBuf, reg, freeList, running, session>>

(* dupCount--, a load ...                                                   *)
Load(q, b) ==
  /\ putPc[q] = "load" /\ b \in todo[q]
  /\ pBuf' = [pBuf EXCEPT ![q] = b] /\ reg' = [reg EXCEPT ![q] = dupCount[b]]
  /\ putPc' = [putPc EXCEPT ![q] = "store"]
  /\ UNCHANGED <<prevVars, dupVars, dupCount, emptyQue, fullQue, told, held, lock, todo,
                 numBuf, freeList, running, session>>

(* Mutant of Store: the buffer is returned with one descriptor still out.    *)
StoreEarly(q) ==
  /\ putPc[q] = "store"
  /\ LET b == pBuf[q] IN
       /\ dupCount' = [dupCount EXCEPT ![b] = reg[q] - 1]
       /\ freeList' = [freeList EXCEPT ![q] = IF reg[q] - 1 <= 1 THEN @ \cup {b} ELSE @]
       /\ todo' = [todo EXCEPT ![q] = @ \ {b}]
  /\ pBuf' = [pBuf EXCEPT ![q] = NoBuf] /\ reg' = [reg EXCEPT ![q] = 0]
  /\ putPc' = [putPc EXCEPT ![q] = IF todo'[q] = {} THEN "forward" ELSE "load"]
  /\ UNCHANGED <<prevVars, dupVars, emptyQue, fullQue, told, held, lock, numBuf, running, session>>

(* ... and a store; at 0 the buffer is to be returned.                      *)
Store(q) ==
  /\ putPc[q] = "store"
  /\ LET b == pBuf[q] IN
       /\ dupCount' = [dupCount EXCEPT ![b] = reg[q] - 1]
       /\ freeList' = [freeList EXCEPT ![q] = IF reg[q] - 1 = 0 THEN @ \cup {b} ELSE @]
       /\ todo' = [todo EXCEPT ![q] = @ \ {b}]
  /\ pBuf' = [pBuf EXCEPT ![q] = NoBuf] /\ reg' = [reg EXCEPT ![q] = 0]
  /\ putPc' = [putPc EXCEPT ![q] = IF todo'[q] = {} THEN "forward" ELSE "load"]
  /\ UNCHANGED <<prevVars, dupVars, emptyQue, fullQue, told, held, lock, numBuf, running, session>>

(* The buffers go back to the previous link, then the lock is released ...   *)
Forward(q) ==
  /\ putPc[q] = "forward"
  /\ prevFree' = prevFree \cup freeList[q]
  /\ freeList' = [freeList EXCEPT ![q] = {}]
  /\ lock' = NoOne
  /\ putPc' = [putPc EXCEPT ![q] = "empty"]
  /\ UNCHANGED <<prevFull, dupVars, dupCount, emptyQue, fullQue, told, held, todo, numBuf, pBuf,
                 reg, running, session>>

(* Mutant of PutEmpty: only the first descriptor of the list goes back.      *)
PutEmptyOne(q) ==
  /\ putPc[q] = "empty"
  /\ emptyQue' = [emptyQue EXCEPT ![q] = @ + 1]
  /\ numBuf' = [numBuf EXCEPT ![q] = 0]
  /\ putPc' = [putPc EXCEPT ![q] = "idle"]
  /\ UNCHANGED <<prevVars, dupVars, dupCount, fullQue, told, held, lock, todo, pBuf, reg,
                 freeList, running, session>>

(* ... and only then the descriptors go back to the empty queue.            *)
PutEmpty(q) ==
  /\ putPc[q] = "empty"
  /\ emptyQue' = [emptyQue EXCEPT ![q] = @ + numBuf[q]]
  /\ numBuf' = [numBuf EXCEPT ![q] = 0]
  /\ putPc' = [putPc EXCEPT ![q] = "idle"]
  /\ UNCHANGED <<prevVars, dupVars, dupCount, fullQue, told, held, lock, todo, pBuf, reg,
                 freeList, running, session>>

-----------------------------------------------------------------------------
(* The next links are stopped first, and every link before any is deleted.  *)
Stop ==
  /\ running /\ session < MaxSessions
  /\ running' = FALSE
  /\ UNCHANGED <<prevVars, dupVars, dupCount, emptyQue, fullQue, told, held, lock, putVars,
                 session>>

(* Delete, when the next links have returned what they held, then create:    *)
(* the queues of the dup link and those of the previous link are made anew,  *)
(* with descriptors in full queues lost.                                    *)
Recreate ==
  /\ ~running /\ pc = "wait" /\ ~newData
  /\ \A q \in Outs : ~told[q] /\ held[q] = {} /\ putPc[q] = "idle"
  /\ prevFree' = Bufs /\ prevFull' = {}
  /\ emptyQue' = [q \in Outs |-> Pool] /\ fullQue' = [q \in Outs |-> {}]
  /\ running' = TRUE /\ session' = session + 1
  /\ UNCHANGED <<dupVars, dupCount, told, held, lock, putVars>>

-----------------------------------------------------------------------------
Process == GetFull \/ (\E b \in Bufs : Duplicate(b)) \/ PutFull \/ Tell
Returns(q) ==
  \/ \E bufs \in SUBSET Bufs : PutCall(q, bufs)
  \/ PutLock(q) \/ (\E b \in Bufs : Load(q, b)) \/ Store(q) \/ Forward(q) \/ PutEmpty(q)

Next ==
  \/ \E b \in Bufs : Produce(b)
  \/ Process
  \/ \E q \in Outs : Take(q) \/ Returns(q)
  \/ Stop \/ Recreate

Spec == Init /\ [][Next]_vars

(* The tasks run, every next link takes what it is told of and returns it,    *)
(* the lock serves its waiters in turn, and a use case that was stopped is    *)
(* created again.                                                           *)
FairSpec ==
  /\ Spec /\ WF_vars(Process) /\ WF_vars(Recreate)
  /\ \A q \in 1 .. NumOut : WF_vars(Take(q)) /\ SF_vars(PutLock(q)) /\ WF_vars(Returns(q))
                             /\ SF_vars(PutCall(q, held[q]))

-----------------------------------------------------------------------------
TypeOK ==
  /\ prevFree \subseteq Bufs /\ prevFull \subseteq Bufs /\ newData \in BOOLEAN
  /\ pc \in {"wait", "dup", "put", "tell"} /\ inBufList \subseteq Bufs /\ outId \in Outs
  /\ outBufList \in [Outs -> SUBSET Bufs] /\ dupCount \in [Bufs -> 0 .. NumOut]
  /\ emptyQue \in [Outs -> 0 .. Pool] /\ fullQue \in [Outs -> SUBSET Bufs]
  /\ told \in [Outs -> BOOLEAN] /\ held \in [Outs -> SUBSET Bufs]
  /\ lock \in Outs \cup {NoOne}
  /\ putPc \in [Outs -> {"idle", "lock", "load", "store", "forward", "empty"}]
  /\ todo \in [Outs -> SUBSET Bufs] /\ numBuf \in [Outs -> Nat]
  /\ pBuf \in [Outs -> Bufs \cup {NoBuf}] /\ reg \in [Outs -> 0 .. NumOut]
  /\ freeList \in [Outs -> SUBSET Bufs] /\ running \in BOOLEAN /\ session \in Nat

(* The outputs on which b is still out.                                     *)
Refs(b) ==
  {q \in Outs : b \in outBufList[q] \cup fullQue[q] \cup held[q] \cup todo[q]}

(* b is with the previous link, or on its way from or to it.                *)
Home(b) ==
  b \in prevFree \cup prevFull \cup inBufList \cup UNION {freeList[q] : q \in Outs}

(* dupLink.h:18-20: "Release buffers to its previous link only when all 'N'  *)
(* links connected to this link release the duplicated buffers" - and then:  *)
(* dupCount is the number of outputs a buffer is still out on, whichever     *)
(* next links return it at the same time.                                   *)
CountIsRefs ==
  \A b \in Bufs : IF Home(b) THEN Refs(b) = {}
                             ELSE Refs(b) # {} /\ dupCount[b] = Cardinality(Refs(b))

(* No buffer is in two of the places where it is the previous link's: none   *)
(* is returned twice.                                                       *)
ReturnedOnce ==
  /\ prevFree \cap (prevFull \cup inBufList) = {} /\ prevFull \cap inBufList = {}
  /\ \A q \in Outs : /\ freeList[q] \cap (prevFree \cup prevFull \cup inBufList) = {}
                     /\ \A r \in Outs \ {q} : freeList[q] \cap freeList[r] = {}

(* The assertion of dupLink_tsk.c:165: an output has a descriptor for each    *)
(* buffer that comes in.                                                    *)
DescriptorAvailable == pc = "dup" => \A q \in Outs : emptyQue[q] > 0

(* A buffer comes back to the previous link.                                *)
BufferReturned == \A b \in Bufs : b \notin prevFree ~> b \in prevFree
=============================================================================
