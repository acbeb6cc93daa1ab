------------------------------- MODULE IpcLink -------------------------------
(***************************************************************************)
(* The pair of links that carries frames from one CPU to another: IPC OUT   *)
(* (ipcOutLink_drv.c, ipcOutLink_tsk.c) on the CPU of the previous link,    *)
(* IPC IN (ipcInLink_drv.c, ipcInLink_tsk.c) on the CPU of the next link.   *)
(*                                                                         *)
(* A frame travels as an index into a pool of shared IPC buffers:           *)
(*   localQue -> IPC OUT -> out2In ring -> IPC IN -> system buffer held by   *)
(*   the next link -> in2Out ring -> IPC OUT -> localQue,                   *)
(* while the previous link's own buffer waits to be given back to it.  Each *)
(* ring operation is one step here: module IpcQue shows that it acts as one. *)
(*                                                                         *)
(* Tasks: the IPC OUT task, the IPC IN task, the next link's task (getFull), *)
(* any thread of its CPU that returns frames (Returners), an interrupt on    *)
(* each CPU (NotifyCb), and the thread that runs the use case's control      *)
(* sequence.  A mailbox is the set of commands waiting in it: a NEW_DATA     *)
(* handler flushes the duplicates (Utils_tskFlushMsg), and a second          *)
(* RELEASE_FRAMES finds the ring the first one drained.                     *)
(***************************************************************************)
EXTENDS IpcRing, FiniteSets, SequencesExt

CONSTANTS Idx,        \* indices of the IPC buffers; as many as the rings have
                      \* slots: SYSTEM_IPC_OUT_LINK_IPC_QUE_MAX_ELEMENTS
          SysBufs,    \* IPC IN's system buffers: IPC_IN_LINK_IPC_QUE_MAX_ELEMENTS
          Bufs,       \* the previous link's buffers
          Returners,  \* threads that call IpcInLink_putEmptyBuffers
          NoIdx,      \* no index
          NoBuf,      \* no buffer
          MaxSessions \* bound: times the use case is created; the last one never stops

ASSUME IpcLinkAssumption ==
  /\ IsFiniteSet(Idx) /\ Idx # {} /\ NoIdx \notin Idx
  /\ IsFiniteSet(Bufs) /\ NoBuf \notin Bufs /\ IsFiniteSet(SysBufs)
  /\ MaxSessions \in Nat \ {0}

VARIABLES
  prevFree, prevFull,                   \* the previous link's queues
  outState, outPc, outCmd,              \* IPC OUT: link state, where its task is, its mailbox
  localQue, todo, freeList, outIdx,     \*   pool of indices, bufList, freeBufList, index
  sent,                                 \*   sendNotify
  o2i, i2o, shm,                        \* the rings; orgSystemBufferPtr of the IPC buffers
  inState, inPc, inCmd, inIdx,          \* IPC IN: state, task, mailbox, index
  bounced, delivered,                   \*   sendNotifyToPrevLink, numBufs > 0
  emptyQue, fullQue, sys,               \*   outBufQue, and what each system buffer holds
  nextCmd, held,                        \* next link: mailbox, system buffers it has
  putPc, putList, putDone,                \* each returner in putEmptyBuffers: to do, done
  evOut, evIn,                          \* notify events on their way to IPC OUT, IPC IN
  ctl, session                          \* the control thread

prevVars == <<prevFree, prevFull>>
outVars  == <<outState, outPc, outCmd, localQue, todo, freeList, outIdx, sent>>
shmVars  == <<o2i, i2o, shm>>
inVars   == <<inState, inPc, inCmd, inIdx, bounced, delivered, emptyQue, fullQue, sys>>
nextVars == <<nextCmd, held, putPc, putList, putDone>>
evVars   == <<evOut, evIn>>
ctlVars  == <<ctl, session>>
vars == <<prevVars, outVars, shmVars, inVars, nextVars, evVars, ctlVars>>

N       == Cardinality(Idx)
NoFrame == [idx |-> NoIdx, buf |-> NoBuf]

(* A read clears the slot it gives back: it is written before it is read.   *)
Taken(r) == [Consumed(r, N) EXCEPT !.slot[r.curRd] = NoIdx]

-----------------------------------------------------------------------------
(* What a buffer, a system buffer or a C variable holds once nothing reads  *)
(* it any more is left out: it is reset here.  The queues of free indices    *)
(* and of empty system buffers are sets: any element may be the next one.   *)
Init ==
  /\ prevFree = {} /\ prevFull = << >>
  /\ outState = "IDLE" /\ outPc = "wait" /\ outCmd = {}
  /\ localQue = {} /\ todo = << >> /\ freeList = << >> /\ outIdx = NoIdx /\ sent = FALSE
  /\ o2i = DeletedRing(CreatedRing(N, NoIdx)) /\ i2o = o2i
  /\ shm = [i \in Idx |-> NoBuf]
  /\ inState = "IDLE" /\ inPc = "wait" /\ inCmd = FALSE /\ inIdx = NoIdx
  /\ bounced = FALSE /\ delivered = FALSE
  /\ emptyQue = {} /\ fullQue = << >>
  /\ sys = [s \in SysBufs |-> NoFrame]
  /\ nextCmd = FALSE /\ held = {}
  /\ putPc = [c \in Returners |-> "out"]
  /\ putList = [c \in Returners |-> {}] /\ putDone = [c \in Returners |-> {}]
  /\ evOut = FALSE /\ evIn = FALSE
  /\ ctl = "deleted" /\ session = 0

-----------------------------------------------------------------------------
(* The control thread: the calls of a use case in their order, each waiting *)
(* for the acknowledgement of the link's task.  Creation goes downstream,   *)
(* stop and delete go upstream (chains_*_priv.c).                           *)

Step(from, to) == ctl = from /\ ctl' = to

(* Mutant of CreateOut: the rings keep the indices of the last session.     *)
CreateOutStale ==
  /\ Step("deleted", "outCreated")
  /\ session' = session + 1
  /\ outPc = "wait" /\ outState = "IDLE"
  /\ prevFree' = Bufs /\ prevFull' = << >>
  /\ o2i' = [o2i EXCEPT !.max = N] /\ i2o' = [i2o EXCEPT !.max = N]
  /\ localQue' = Idx /\ shm' = [i \in Idx |-> NoBuf]
  /\ outState' = "RUNNING"
  /\ UNCHANGED <<outPc, outCmd, todo, freeList, outIdx, sent,
                 inVars, nextVars, evVars>>

(* IPC OUT is created after the previous link: IpcOutLink_drvCreate.        *)
CreateOut ==
  /\ Step("deleted", "outCreated")
  /\ session' = session + 1
  /\ outPc = "wait" /\ outState = "IDLE"
  /\ prevFree' = Bufs /\ prevFull' = << >>
  /\ o2i' = CreatedRing(N, NoIdx) /\ i2o' = CreatedRing(N, NoIdx)
  /\ localQue' = Idx /\ shm' = [i \in Idx |-> NoBuf]
  /\ outState' = "RUNNING"
  /\ UNCHANGED <<outPc, outCmd, todo, freeList, outIdx, sent,
                 inVars, nextVars, evVars>>

(* IPC IN attaches to the rings and resets its own index of each:           *)
(* IpcInLink_drvCreate.  The next link is created after it.                 *)
CreateIn ==
  /\ Step("outCreated", "running")
  /\ inPc = "wait" /\ inState = "IDLE"
  /\ Attached(o2i, N) /\ Attached(i2o, N)
  /\ o2i' = ResetRd(o2i) /\ i2o' = ResetWr(i2o)
  /\ emptyQue' = SysBufs /\ fullQue' = << >>
  /\ sys' = [s \in SysBufs |-> NoFrame]
  /\ inState' = "RUNNING"
  /\ held' = {}
  /\ UNCHANGED <<prevVars, outVars, shm, inPc, inCmd, inIdx, bounced, delivered,
                 nextCmd, putPc, putList, putDone, evVars, session>>

(* The next link stops first: none of its threads is inside IPC IN then.    *)
StopNext ==
  /\ Step("running", "nextStopped") /\ session < MaxSessions
  /\ \A c \in Returners : putPc[c] = "out"
  /\ UNCHANGED <<prevVars, outVars, shmVars, inVars, nextVars, evVars, session>>

StopIn ==
  /\ Step("nextStopped", "inStopped")
  /\ inPc = "wait" /\ inState' = "STOPPED"
  /\ UNCHANGED <<prevVars, outVars, shmVars, inPc, inCmd, inIdx, bounced, delivered,
                 emptyQue, fullQue, sys, nextVars, evVars, session>>

StopOut ==
  /\ Step("inStopped", "outStopped")
  /\ outPc = "wait" /\ outState' = "STOPPED"
  /\ UNCHANGED <<prevVars, outPc, outCmd, localQue, todo, freeList, outIdx, sent,
                 shmVars, inVars, nextVars, evVars, session>>

(* The previous link stops, the next link is deleted, then IPC IN.          *)
DeleteIn ==
  /\ Step("outStopped", "inDeleted")
  /\ inPc = "wait" /\ inState' = "IDLE"
  /\ emptyQue' = {} /\ fullQue' = << >> /\ held' = {}
  /\ UNCHANGED <<prevVars, outVars, shmVars, inPc, inCmd, inIdx, bounced, delivered,
                 sys, nextCmd, putPc, putList, putDone, evVars, session>>

DeleteOut ==
  /\ Step("inDeleted", "deleted")
  /\ outPc = "wait" /\ outState' = "IDLE"
  /\ localQue' = {}
  /\ i2o' = DeletedRing(i2o) /\ o2i' = DeletedRing(o2i)
  /\ prevFree' = {} /\ prevFull' = << >>
  /\ UNCHANGED <<outPc, outCmd, todo, freeList, outIdx, sent, shm,
                 inVars, nextVars, evVars, session>>

Control == CreateOut \/ CreateIn \/ StopNext \/ StopIn \/ StopOut \/ DeleteIn \/ DeleteOut

-----------------------------------------------------------------------------
(* The previous link: fills a buffer it owns and sends NEW_DATA.            *)
PrevProduce(b) ==
  /\ ctl \in {"running", "nextStopped", "inStopped", "outStopped"}
  /\ b \in prevFree
  /\ prevFree' = prevFree \ {b}
  /\ prevFull' = Append(prevFull, b)
  /\ outCmd' = outCmd \cup {"NEW_DATA"}
  /\ UNCHANGED <<outState, outPc, localQue, todo, freeList, outIdx, sent,
                 shmVars, inVars, nextVars, evVars, ctlVars>>

-----------------------------------------------------------------------------
(* The IPC OUT task.                                                        *)

(* SYSTEM_CMD_NEW_DATA: all full buffers of the previous link, if running.  *)
OutNewData ==
  /\ outPc = "wait" /\ "NEW_DATA" \in outCmd
  /\ outCmd' = outCmd \ {"NEW_DATA"}
  /\ IF outState = "RUNNING" /\ prevFull # << >>
     THEN todo' = prevFull /\ prevFull' = << >> /\ outPc' = "send"
     ELSE UNCHANGED <<todo, prevFull, outPc>>
  /\ UNCHANGED <<prevFree, outState, localQue, freeList, outIdx, sent,
                 shmVars, inVars, nextVars, evVars, ctlVars>>

After(rest) == IF rest = << >> THEN "free" ELSE "send"

(* The frame-rate control, or an empty localQue, drops the buffer.          *)
OutDrop ==
  /\ outPc = "send"
  /\ freeList' = Append(freeList, Head(todo))
  /\ todo' = Tail(todo)
  /\ outPc' = After(Tail(todo))
  /\ UNCHANGED <<prevVars, outState, outCmd, localQue, outIdx, sent,
                 shmVars, inVars, nextVars, evVars, ctlVars>>

(* Mutant of OutCopy: the index is not taken out of the pool.               *)
OutCopyShared ==
  /\ outPc = "send"
  /\ \E i \in localQue : outIdx' = i /\ shm' = [shm EXCEPT ![i] = Head(todo)]
  /\ todo' = Tail(todo)
  /\ outPc' = "write"
  /\ UNCHANGED <<prevVars, outState, outCmd, localQue, freeList, sent,
                 o2i, i2o, inVars, nextVars, evVars, ctlVars>>

(* Otherwise an index of the pool is taken and its IPC buffer filled ...    *)
OutCopy ==
  /\ outPc = "send"
  /\ \E i \in localQue : /\ outIdx' = i /\ localQue' = localQue \ {i}
                         /\ shm' = [shm EXCEPT ![i] = Head(todo)]
  /\ todo' = Tail(todo)
  /\ outPc' = "write"
  /\ UNCHANGED <<prevVars, outState, outCmd, freeList, sent,
                 o2i, i2o, inVars, nextVars, evVars, ctlVars>>

(* ... and the index is written to the out2In ring.  A full ring frees the   *)
(* buffer (the index is not put back); IsFull never holds.                  *)
OutWrite ==
  /\ outPc = "write"
  /\ IF IsFull(o2i, N)
     THEN freeList' = Append(freeList, shm[outIdx]) /\ UNCHANGED <<o2i, sent>>
     ELSE /\ o2i' = Published(Stored(o2i, outIdx), N)
          /\ sent' = TRUE
          /\ UNCHANGED freeList
  /\ outIdx' = NoIdx
  /\ outPc' = After(todo)
  /\ UNCHANGED <<prevVars, outState, outCmd, localQue, todo,
                 i2o, shm, inVars, nextVars, evVars, ctlVars>>

(* After the loop the dropped buffers go back to the previous link ...      *)
OutFree ==
  /\ outPc = "free"
  /\ prevFree' = prevFree \cup ToSet(freeList)
  /\ freeList' = << >>
  /\ outPc' = IF sent THEN "notify" ELSE "wait"
  /\ sent' = FALSE
  /\ UNCHANGED <<prevFull, outState, outCmd, localQue, todo, outIdx,
                 shmVars, inVars, nextVars, evVars, ctlVars>>

(* Mutant of OutNotify: the notify is not sent.                             *)
OutNoNotify ==
  /\ outPc = "notify"
  /\ outPc' = "wait"
  /\ UNCHANGED <<prevVars, outState, outCmd, localQue, todo, freeList, outIdx, sent,
                 shmVars, inVars, nextVars, evVars, ctlVars>>

(* ... and IPC IN is notified, once.  Notify_sendEvent is called with       *)
(* waitClear: it waits until the other CPU took the previous event.         *)
OutNotify ==
  /\ outPc = "notify"
  /\ ~evIn /\ evIn' = TRUE
  /\ outPc' = "wait"
  /\ UNCHANGED <<prevVars, outState, outCmd, localQue, todo, freeList, outIdx, sent,
                 shmVars, inVars, nextVars, evOut, ctlVars>>

(* IPC_OUT_LINK_CMD_RELEASE_FRAMES.                                         *)
OutRelease ==
  /\ outPc = "wait" /\ "RELEASE" \in outCmd
  /\ outCmd' = outCmd \ {"RELEASE"}
  /\ outPc' = IF outState = "RUNNING" THEN "release" ELSE "wait"
  /\ UNCHANGED <<prevVars, outState, localQue, todo, freeList, outIdx, sent,
                 shmVars, inVars, nextVars, evVars, ctlVars>>

(* Mutant of OutReleaseOne: the index is kept back from the pool.           *)
OutReleaseLosing ==
  /\ outPc = "release" /\ ~IsEmpty(i2o, N)
  /\ i2o' = Taken(i2o)
  /\ freeList' = Append(freeList, shm[Loaded(i2o)])
  /\ shm' = [shm EXCEPT ![Loaded(i2o)] = NoBuf]
  /\ UNCHANGED <<prevVars, outState, outPc, outCmd, localQue, todo, outIdx, sent, o2i,
                 inVars, nextVars, evVars, ctlVars>>

(* Each index read from in2Out goes back to the pool, and the buffer its    *)
(* IPC buffer names to the list for the previous link ...                   *)
OutReleaseOne ==
  /\ outPc = "release" /\ ~IsEmpty(i2o, N)
  /\ i2o' = Taken(i2o)
  /\ localQue' = localQue \cup {Loaded(i2o)}
  /\ freeList' = Append(freeList, shm[Loaded(i2o)])
  /\ shm' = [shm EXCEPT ![Loaded(i2o)] = NoBuf]
  /\ UNCHANGED <<prevVars, outState, outPc, outCmd, todo, outIdx, sent, o2i,
                 inVars, nextVars, evVars, ctlVars>>

(* ... which is handed over when the ring is empty.                         *)
OutReleaseEnd ==
  /\ outPc = "release" /\ IsEmpty(i2o, N)
  /\ prevFree' = prevFree \cup ToSet(freeList)
  /\ freeList' = << >>
  /\ outPc' = "wait"
  /\ UNCHANGED <<prevFull, outState, outCmd, localQue, todo, outIdx, sent,
                 shmVars, inVars, nextVars, evVars, ctlVars>>

(* IpcOutLink_drvNotifyCb, in the interrupt.                                *)
OutNotifyCb ==
  /\ evOut /\ evOut' = FALSE
  /\ outCmd' = IF IsEmpty(i2o, N) THEN outCmd ELSE outCmd \cup {"RELEASE"}
  /\ UNCHANGED <<prevVars, outState, outPc, localQue, todo, freeList, outIdx, sent,
                 shmVars, inVars, nextVars, evIn, ctlVars>>

Out == \/ OutNewData \/ OutDrop \/ OutCopy \/ OutWrite \/ OutFree \/ OutNotify
       \/ OutRelease \/ OutReleaseOne \/ OutReleaseEnd

-----------------------------------------------------------------------------
(* The IPC IN task.                                                         *)

(* IpcInLink_drvNotifyCb, in the interrupt.                                 *)
InNotifyCb ==
  /\ evIn /\ evIn' = FALSE
  /\ inCmd' = (inCmd \/ ~IsEmpty(o2i, N))
  /\ UNCHANGED <<prevVars, outVars, shmVars, inState, inPc, inIdx, bounced, delivered,
                 emptyQue, fullQue, sys, nextVars, evOut, ctlVars>>

InNewData ==
  /\ inPc = "wait" /\ inCmd
  /\ inCmd' = FALSE
  /\ inPc' = IF inState = "RUNNING" THEN "read" ELSE "wait"
  /\ UNCHANGED <<prevVars, outVars, shmVars, inState, inIdx, bounced, delivered,
                 emptyQue, fullQue, sys, nextVars, evVars, ctlVars>>

InRead ==
  /\ inPc = "read"
  /\ IF IsEmpty(o2i, N)
     THEN inPc' = "notifyPrev" /\ UNCHANGED <<o2i, inIdx>>
     ELSE /\ inIdx' = Loaded(o2i)
          /\ o2i' = Taken(o2i)
          /\ inPc' = "place"
  /\ UNCHANGED <<prevVars, outVars, i2o, shm, inState, inCmd, bounced, delivered,
                 emptyQue, fullQue, sys, nextVars, evVars, ctlVars>>

(* A system buffer takes what the IPC buffer says ...                       *)
InPlace ==
  /\ inPc = "place"
  /\ \E s \in emptyQue :
       /\ sys' = [sys EXCEPT ![s] = [idx |-> inIdx, buf |-> shm[inIdx]]]
       /\ fullQue' = Append(fullQue, s)
       /\ emptyQue' = emptyQue \ {s}
  /\ delivered' = TRUE
  /\ inIdx' = NoIdx
  /\ inPc' = "read"
  /\ UNCHANGED <<prevVars, outVars, shmVars, inState, inCmd, bounced,
                 nextVars, evVars, ctlVars>>

(* Mutant of InBounce: the index is dropped instead of sent back.           *)
InBounceLosing ==
  /\ inPc = "place" /\ emptyQue = {}
  /\ bounced' = TRUE
  /\ inIdx' = NoIdx
  /\ inPc' = "read"
  /\ UNCHANGED <<prevVars, outVars, shmVars, inState, inCmd, delivered,
                 emptyQue, fullQue, sys, nextVars, evVars, ctlVars>>

(* ... or, when there is none, the index goes straight back to IPC OUT.     *)
InBounce ==
  /\ inPc = "place" /\ emptyQue = {}
  /\ i2o' = Published(Stored(i2o, inIdx), N)
  /\ bounced' = TRUE
  /\ inIdx' = NoIdx
  /\ inPc' = "read"
  /\ UNCHANGED <<prevVars, outVars, o2i, shm, inState, inCmd, delivered,
                 emptyQue, fullQue, sys, nextVars, evVars, ctlVars>>

InNotifyPrev ==
  /\ inPc = "notifyPrev"
  /\ IF bounced THEN ~evOut /\ evOut' = TRUE ELSE UNCHANGED evOut
  /\ bounced' = FALSE
  /\ inPc' = "notifyNext"
  /\ UNCHANGED <<prevVars, outVars, shmVars, inState, inCmd, inIdx, delivered,
                 emptyQue, fullQue, sys, nextVars, evIn, ctlVars>>

InNotifyNext ==
  /\ inPc = "notifyNext"
  /\ nextCmd' = (nextCmd \/ delivered)
  /\ delivered' = FALSE
  /\ inPc' = "wait"
  /\ UNCHANGED <<prevVars, outVars, shmVars, inState, inCmd, inIdx, bounced,
                 emptyQue, fullQue, sys, held, putPc, putList, putDone, evVars, ctlVars>>

In == InNewData \/ InRead \/ InPlace \/ InBounce \/ InNotifyPrev \/ InNotifyNext

-----------------------------------------------------------------------------
(* The next link.                                                           *)

(* NEW_DATA: all full system buffers (Utils_bufGetFull, NO_WAIT).           *)
NextGet ==
  /\ ctl = "running" /\ nextCmd
  /\ nextCmd' = FALSE
  /\ held' = held \cup ToSet(fullQue)
  /\ fullQue' = << >>
  /\ UNCHANGED <<prevVars, outVars, shmVars, inState, inPc, inCmd, inIdx, bounced,
                 delivered, emptyQue, sys, putPc, putList, putDone, evVars, ctlVars>>

Locked == \E c \in Returners : putPc[c] # "out"

(* IpcInLink_putEmptyBuffers: under the link's lock, for frames S ...       *)
PutStart(c, S) ==
  /\ ctl = "running"
  /\ ~Locked
  /\ S # {} /\ S \subseteq held
  /\ held' = held \ S
  /\ putList' = [putList EXCEPT ![c] = S]
  /\ putPc' = [putPc EXCEPT ![c] = "index"]
  /\ UNCHANGED <<prevVars, outVars, shmVars, inVars, nextCmd, putDone, evVars, ctlVars>>

(* ... each frame's index is written to in2Out ...                          *)
PutIndex(c) ==
  /\ putPc[c] = "index"
  /\ \E s \in putList[c] :
       /\ i2o' = Published(Stored(i2o, sys[s].idx), N)
       /\ putList' = [putList EXCEPT ![c] = @ \ {s}]
       /\ putDone' = [putDone EXCEPT ![c] = @ \cup {s}]
       /\ putPc' = [putPc EXCEPT ![c] = IF putList[c] = {s} THEN "notify" ELSE "index"]
  /\ UNCHANGED <<prevVars, outVars, o2i, shm, inVars, nextCmd, held, evVars, ctlVars>>

(* ... IPC OUT is notified ...                                              *)
PutNotify(c) ==
  /\ putPc[c] = "notify"
  /\ ~evOut /\ evOut' = TRUE
  /\ putPc' = [putPc EXCEPT ![c] = "empty"]
  /\ UNCHANGED <<prevVars, outVars, shmVars, inVars, nextCmd, held, putList, putDone,
                 evIn, ctlVars>>

(* ... and only now the system buffers are free: until then IPC OUT may have *)
(* sent new frames under the returned indices (InBounce).                   *)
PutEmpty(c) ==
  /\ putPc[c] = "empty"
  /\ emptyQue' = emptyQue \cup putDone[c]
  /\ sys' = [s \in SysBufs |-> IF s \in putDone[c] THEN NoFrame ELSE sys[s]]
  /\ putDone' = [putDone EXCEPT ![c] = {}]
  /\ putPc' = [putPc EXCEPT ![c] = "out"]
  /\ UNCHANGED <<prevVars, outVars, shmVars, inState, inPc, inCmd, inIdx, bounced,
                 delivered, fullQue, nextCmd, held, putList, evVars, ctlVars>>

Returns(s) == \E c \in Returners, S \in SUBSET held : s \in S /\ PutStart(c, S)
PutSteps   == \E c \in Returners : PutIndex(c) \/ PutNotify(c) \/ PutEmpty(c)

-----------------------------------------------------------------------------
Next ==
  \/ Control
  \/ \E b \in Bufs : PrevProduce(b)
  \/ Out \/ OutNotifyCb
  \/ In \/ InNotifyCb
  \/ NextGet
  \/ \E c \in Returners, S \in SUBSET held : PutStart(c, S)
  \/ PutSteps

(* The tasks of the two links and the interrupts run, and the next link     *)
(* takes and gives back every frame (IPC IN's lock is a FIFO semaphore).  A   *)
(* mailbox is first in first out, so each command in it gets its turn.      *)
(* Nothing makes the previous link produce or the use case stop.            *)
Fairness ==
  /\ WF_vars(Out) /\ SF_vars(OutNewData) /\ SF_vars(OutRelease) /\ WF_vars(OutNotifyCb)
  /\ WF_vars(In) /\ WF_vars(InNotifyCb)
  /\ WF_vars(NextGet) /\ WF_vars(PutSteps)
  /\ \A s \in SysBufs : SF_vars(Returns(s))

Spec == Init /\ [][Next]_vars
FairSpec == Spec /\ Fairness

-----------------------------------------------------------------------------
TypeOK ==
  /\ prevFree \subseteq Bufs /\ prevFull \in Seq(Bufs)
  /\ outState \in {"IDLE", "RUNNING", "STOPPED"}
  /\ outPc \in {"wait", "send", "write", "free", "notify", "release"}
  /\ outCmd \subseteq {"NEW_DATA", "RELEASE"}
  /\ localQue \subseteq Idx
  /\ todo \in Seq(Bufs) /\ freeList \in Seq(Bufs)
  /\ outIdx \in Idx \cup {NoIdx} /\ sent \in BOOLEAN
  /\ o2i \in RingOf(N, Idx \cup {NoIdx}) /\ i2o \in RingOf(N, Idx \cup {NoIdx})
  /\ shm \in [Idx -> Bufs \cup {NoBuf}]
  /\ inState \in {"IDLE", "RUNNING", "STOPPED"}
  /\ inPc \in {"wait", "read", "place", "notifyPrev", "notifyNext"}
  /\ inCmd \in BOOLEAN /\ inIdx \in Idx \cup {NoIdx}
  /\ bounced \in BOOLEAN /\ delivered \in BOOLEAN
  /\ emptyQue \subseteq SysBufs /\ fullQue \in Seq(SysBufs)
  /\ sys \in [SysBufs -> [idx : Idx \cup {NoIdx}, buf : Bufs \cup {NoBuf}]]
  /\ nextCmd \in BOOLEAN /\ held \subseteq SysBufs
  /\ putPc \in [Returners -> {"out", "index", "notify", "empty"}]
  /\ putList \in [Returners -> SUBSET SysBufs] /\ putDone \in [Returners -> SUBSET SysBufs]
  /\ evOut \in BOOLEAN /\ evIn \in BOOLEAN
  /\ ctl \in {"deleted", "outCreated", "running", "nextStopped", "inStopped",
              "outStopped", "inDeleted"}
  /\ session \in 0 .. MaxSessions

Exists == ctl \notin {"deleted", "inDeleted"}
Once(seq, S) == Len(seq) = Cardinality(S) /\ ToSet(seq) = S
When(cond, x) == IF cond THEN <<x>> ELSE << >>

(* System buffers whose frame is not yet on its way back.                   *)
Carrying ==
  ToSet(fullQue) \cup held \cup UNION {putList[c] : c \in Returners}

CarriedIdx == LET q == SetToSeq(Carrying) IN [k \in DOMAIN q |-> sys[q[k]].idx]

(* Indices outside the pool, on whichever CPU.                              *)
Away == When(outPc = "write", outIdx) \o Contents(o2i, N) \o When(inPc = "place", inIdx)
          \o CarriedIdx \o Contents(i2o, N)

(* Every index of the pool is in exactly one place, through any sequence of *)
(* sends, bounces, returns and releases and across deletion and creation:   *)
(* none is lost (the pair would carry fewer and fewer frames) and none is   *)
(* in use twice (two frames would share an IPC buffer).                     *)
IndexConserved == Exists => Once(SetToSeq(localQue) \o Away, Idx)

(* Every buffer of the previous link is in exactly one place: it is never   *)
(* given back while a frame on the other CPU still uses it, never twice,    *)
(* and never forgotten.                                                     *)
BufferConserved ==
  Exists => Once(SetToSeq(prevFree) \o prevFull \o todo \o freeList
                   \o [k \in DOMAIN Away |-> shm[Away[k]]], Bufs)

(* What the next link holds still is what IPC OUT wrote: the IPC buffer of  *)
(* a frame is not overwritten before the frame is returned.                 *)
FrameIntact == Exists => \A s \in Carrying : sys[s].buf = shm[sys[s].idx]

(* A buffer given to IPC OUT comes back to the previous link, dropped or    *)
(* used, as long as the use case runs: ipcOutLink_drv.c:385-386, "release   *)
(* incoming buffer immediately to previous link and continue. [...] let     *)
(* processing continue even in this case".                                  *)
BufferReturned ==
  \A b \in Bufs : (ctl = "running" /\ b \in ToSet(prevFull))
                    ~> (ctl # "running" \/ b \in prevFree)
=============================================================================
