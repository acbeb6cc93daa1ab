------------------------------- MODULE IpcQue -------------------------------
(***************************************************************************)
(* One inter-processor queue of utils_ipc_que.c in use: tasks of a writer   *)
(* CPU call Utils_ipcQueWrite, tasks of a reader CPU call Utils_ipcQueRead. *)
(* There is no inter-processor lock.  Hwi_disable excludes the tasks of the *)
(* same CPU from a critical section and nothing else, so every step below   *)
(* interleaves with the other CPU, and a task can be preempted between the  *)
(* empty (full) test and the critical section that follows it.              *)
(*                                                                         *)
(* The users bound what is in flight: an index of a pool of Credits is      *)
(* taken before a write and given back after the read (IpcOut's localQue).  *)
(***************************************************************************)
EXTENDS IpcRing, FiniteSets

CONSTANTS N,          \* maxElements given to Utils_ipcQueCreate
          Credits,    \* size of the users' pool of elements
          Elements,   \* the elements
          Writers,    \* tasks of the writer CPU that call Utils_ipcQueWrite
          Readers,    \* tasks of the reader CPU that call Utils_ipcQueRead
          NoElem      \* content of a slot nothing was written to

ASSUME IpcQueAssumption ==
  /\ N \in Nat \ {0}
  /\ Credits \in Nat
  /\ IsFiniteSet(Writers)
  /\ Writers \cap Readers = {}
  /\ NoElem \notin Elements

VARIABLES ring,       \* the shared memory
          credits,    \* elements of the pool nobody uses
          pc,         \* where each task is in its call
          elem,       \* each task's data argument
          result      \* what its last call returned

vars == <<ring, credits, pc, elem, result>>

Tasks == Writers \cup Readers
Slots == Elements \cup {NoElem}

Pending == [status |-> "pending"]
Refused == [status |-> "EAGAIN"]
Done    == [status |-> "SOK"]
Got(e)  == [status |-> "SOK", elem |-> e]

(* Hwi_disable on a CPU: none of its other tasks runs in the section.       *)
HwiFree(cpu) == \A t \in cpu : pc[t] \notin {"publish", "consume"}

Goto(t, label) == pc' = [pc EXCEPT ![t] = label]
Return(t, res) == result' = [result EXCEPT ![t] = res]

Init ==
  /\ ring    = CreatedRing(N, NoElem)
  /\ credits = Credits
  /\ pc      = [t \in Tasks |-> "idle"]
  /\ elem    = [t \in Tasks |-> NoElem]
  /\ result  = [t \in Tasks |-> Done]

-----------------------------------------------------------------------------
(* A user takes an element of its pool and calls Utils_ipcQueWrite.         *)
WriteCall(t, e) ==
  /\ pc[t] = "idle"
  /\ credits > 0
  /\ credits' = credits - 1
  /\ elem'    = [elem EXCEPT ![t] = e]
  /\ Goto(t, "testFull")
  /\ Return(t, Pending)
  /\ UNCHANGED ring

(* The full test; a refused write gives the element back to its user.       *)
(* IsFull is false on every ring whose indices are below N (theorem         *)
(* NeverFull of IpcQue_proofs), so the first branch is never taken.         *)
WriteTest(t) ==
  /\ pc[t] = "testFull"
  /\ HwiFree(Writers)
  /\ IF IsFull(ring, N)
     THEN /\ Goto(t, "idle")
          /\ Return(t, Refused)
          /\ credits' = credits + 1
     ELSE /\ Goto(t, "store")
          /\ UNCHANGED <<credits, result>>
  /\ UNCHANGED <<ring, elem>>

WriteStore(t) ==
  /\ pc[t] = "store"
  /\ HwiFree(Writers)
  /\ ring' = Stored(ring, elem[t])
  /\ Goto(t, "publish")
  /\ UNCHANGED <<credits, elem, result>>

WritePublish(t) ==
  /\ pc[t] = "publish"
  /\ ring' = Published(ring, N)
  /\ Goto(t, "idle")
  /\ Return(t, Done)
  /\ UNCHANGED <<credits, elem>>

-----------------------------------------------------------------------------
ReadCall(t) ==
  /\ pc[t] = "idle"
  /\ Goto(t, "testEmpty")
  /\ Return(t, Pending)
  /\ UNCHANGED <<ring, credits, elem>>

(* Mutant of ReadTest: the empty test is left to the caller.                *)
ReadUntested(t) ==
  /\ pc[t] = "testEmpty"
  /\ HwiFree(Readers)
  /\ Goto(t, "load")
  /\ UNCHANGED <<ring, credits, elem, result>>

ReadTest(t) ==
  /\ pc[t] = "testEmpty"
  /\ HwiFree(Readers)
  /\ \/ /\ IsEmpty(ring, N)
        /\ Goto(t, "idle")
        /\ Return(t, Refused)
     \/ /\ ~IsEmpty(ring, N)
        /\ Goto(t, "load")
        /\ UNCHANGED result
  /\ UNCHANGED <<ring, credits, elem>>

ReadLoad(t) ==
  /\ pc[t] = "load"
  /\ HwiFree(Readers)
  /\ elem' = [elem EXCEPT ![t] = Loaded(ring)]
  /\ Goto(t, "consume")
  /\ UNCHANGED <<ring, credits, result>>

(* The index update ends the call; the user puts the element in its pool.   *)
ReadConsume(t) ==
  /\ pc[t] = "consume"
  /\ ring' = Consumed(ring, N)
  /\ credits' = credits + 1
  /\ Goto(t, "idle")
  /\ Return(t, Got(elem[t]))
  /\ UNCHANGED elem

Write(t) ==
  \/ \E e \in Elements : WriteCall(t, e)
  \/ WriteTest(t) \/ WriteStore(t) \/ WritePublish(t)

Read(t) == ReadCall(t) \/ ReadTest(t) \/ ReadLoad(t) \/ ReadConsume(t)

Next == (\E t \in Writers : Write(t)) \/ (\E t \in Readers : Read(t))

Spec == Init /\ [][Next]_vars

-----------------------------------------------------------------------------
TypeOK ==
  /\ ring \in RingOf(N, Slots) /\ Attached(ring, N)
  /\ credits \in 0 .. Credits
  /\ pc \in [Tasks -> {"idle", "testFull", "store", "publish",
                       "testEmpty", "load", "consume"}]
  /\ elem \in [Tasks -> Slots]
  /\ result \in [Tasks -> {Pending, Refused, Done} \cup {Got(e) : e \in Slots}]

(* The ring is the channel of Fifo: Utils_ipcQueWrite and Utils_ipcQueRead  *)
(* of different CPUs, and of different tasks of the writer CPU, act as if    *)
(* each took effect at one instant, and the elements come out complete, in   *)
(* the order they went in, each once.                                       *)
Channel == INSTANCE Fifo WITH q <- Contents(ring, N), Capacity <- N - 1,
                              Senders <- Writers, Receivers <- Readers
IsFifo == Channel!Spec

(* The two CPUs never copy into and out of the same slot at the same time:  *)
(* with no inter-processor lock this is all that keeps the memcpy of        *)
(* Utils_ipcQueWrite from tearing the element Utils_ipcQueRead copies.       *)
NoTornElement ==
  \A w \in Writers, r \in Readers :
     ~(pc[w] \in {"store", "publish"} /\ pc[r] \in {"load", "consume"}
       /\ ring.curWr = ring.curRd)
=============================================================================
