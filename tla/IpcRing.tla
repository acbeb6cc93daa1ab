------------------------------- MODULE IpcRing -------------------------------
(***************************************************************************)
(* The shared-memory ring of utils_ipc_que.c as a value: the header fields  *)
(* System_IpcQueHeader keeps in non-cached memory, and the operations every *)
(* CPU performs on them.  The modules that use a ring (IpcQue, IpcLink)     *)
(* hold one in a variable and decide how its steps interleave.              *)
(*                                                                         *)
(* A ring is a record                                                      *)
(*    curRd, curWr   the indices, in 0 .. max-1                            *)
(*    max            pShm->maxElements; 0 once the queue is deleted         *)
(*    slot           the element area, one entry per index                  *)
(* elementSize is constant for every user of a queue and is left out.       *)
(***************************************************************************)
EXTENDS Integers, Sequences

(* Every ring whose handle was created with n elements taken from E.        *)
RingOf(n, E) ==
  [curRd : 0 .. n-1, curWr : 0 .. n-1, max : {0, n}, slot : [0 .. n-1 -> E]]

(* Utils_ipcQueCreate: both indices at 0, the header describes the queue.   *)
(* The element area is not cleared; nil stands for whatever is there.       *)
CreatedRing(n, nil) ==
  [curRd |-> 0, curWr |-> 0, max |-> n, slot |-> [i \in 0 .. n-1 |-> nil]]

(* Utils_ipcQueReset by the CPU that owns the read (write) index.           *)
ResetRd(r) == [r EXCEPT !.curRd = 0]
ResetWr(r) == [r EXCEPT !.curWr = 0]

(* Utils_ipcQueDelete: the header stops describing a queue.                 *)
DeletedRing(r) == [r EXCEPT !.max = 0]

(* The comparison of the header with the handle that opens Write and Read.  *)
Attached(r, n) == r.max = n

-----------------------------------------------------------------------------
(* Mutant of IsEmpty: a ring with one element left counts as empty.         *)
IsEmptyOffByOne(r, n) ==
  (IF r.curWr < r.curRd THEN r.curRd - r.curWr ELSE (n - r.curWr) + r.curRd) >= n - 1

(* Utils_ipcQueIsEmpty, on the handle's element count n.                    *)
IsEmpty(r, n) ==
  (IF r.curWr < r.curRd THEN r.curRd - r.curWr ELSE (n - r.curWr) + r.curRd) = n

(* Utils_ipcQueIsFull, on the handle's element count n.                     *)
IsFull(r, n) ==
  (IF r.curRd <= r.curWr THEN r.curWr - r.curRd ELSE (n - r.curRd) + r.curWr) = n

(* The halves of Utils_ipcQueWrite's critical section: the memcpy into the  *)
(* slot at curWr, then the index update that publishes it.                  *)
Stored(r, e)     == [r EXCEPT !.slot[r.curWr] = e]

(* Mutant of Published: the index moves without wrapping at n - 1.          *)
PublishedLate(r, n) == [r EXCEPT !.curWr = (@ + 1) % (n + 1)]

Published(r, n)  == [r EXCEPT !.curWr = (@ + 1) % n]

(* The halves of Utils_ipcQueRead's: the memcpy from the slot at curRd, the *)
(* index update that gives the slot back.                                   *)
Loaded(r)        == r.slot[r.curRd]
Consumed(r, n)   == [r EXCEPT !.curRd = (@ + 1) % n]

-----------------------------------------------------------------------------
(* What the indices say the ring holds, oldest first.                       *)
Held(r, n)     == (r.curWr - r.curRd) % n
Contents(r, n) == [i \in 1 .. Held(r, n) |-> r.slot[(r.curRd + i - 1) % n]]
=============================================================================
