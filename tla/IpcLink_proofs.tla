--------------------------- MODULE IpcLink_proofs ---------------------------
(***************************************************************************)
(* Proofs about the pair IPC OUT and IPC IN, for any number of indices,      *)
(* system buffers, buffers of the previous link, returning threads and       *)
(* sessions, as long as the previous link has fewer buffers than a ring has  *)
(* slots (Roomy).                                                            *)
(***************************************************************************)
EXTENDS IpcLink, FiniteSetTheorems, SequenceTheorems, TLAPS

(* The rings' capacity: an index in a ring is that of a buffer of the        *)
(* previous link, so a ring never has all its slots in use, which its two     *)
(* indices could not tell from none.                                         *)
Roomy == Cardinality(Bufs) < Cardinality(Idx)

-----------------------------------------------------------------------------
(* The inductive invariant.                                                 *)

Slots == 0 .. N-1
Ring  == RingOf(N, Idx \cup {NoIdx})

(* The slots that the indices of a ring say are in use are those written and *)
(* not read since.                                                          *)
InUse(r, k) ==
  IF r.curRd <= r.curWr THEN r.curRd <= k /\ k < r.curWr ELSE r.curRd <= k \/ k < r.curWr
Filled(r) == \A k \in Slots : (r.slot[k] # NoIdx) <=> InUse(r, k)

(* What each task knows, and what is quiet in which phase of the use case.   *)
Tasks ==
  /\ outPc # "send" /\ outPc # "write" => todo = << >>
  /\ outPc = "send" => todo # << >>
  /\ outPc \in {"wait", "notify"} => freeList = << >>
  /\ outPc = "write" <=> outIdx # NoIdx
  /\ inPc = "place" <=> inIdx # NoIdx

Stopped == {"deleted", "nextStopped", "inStopped", "outStopped", "inDeleted"}

Phases ==
  /\ ctl \in Stopped => session < MaxSessions
  /\ ctl # "running" => \A c \in Returners : putPc[c] = "out"
  /\ ctl \notin {"running", "nextStopped"} => inState # "RUNNING" /\ inPc = "wait"
  /\ ctl \in {"deleted", "outStopped", "inDeleted"} => outState # "RUNNING" /\ outPc = "wait"
  /\ ctl = "deleted" => prevFull = << >>
  /\ ctl = "outCreated" =>
       /\ o2i = CreatedRing(N, NoIdx) /\ i2o = CreatedRing(N, NoIdx)
       /\ prevFull = << >> /\ outPc \in {"wait", "release"}
  /\ ctl \in {"deleted", "outCreated", "inDeleted"} => fullQue = << >> /\ held = {}

(* A system buffer is in one place, and one thread is in putEmptyBuffers.    *)
Returning ==
  /\ \A c, d \in Returners : putPc[c] # "out" /\ putPc[d] # "out" => c = d
  /\ \A c \in Returners : /\ putPc[c] # "index" => putList[c] = {}
                          /\ putPc[c] = "out" => putDone[c] = {}
Apart ==
  /\ held \cap ToSet(fullQue) = {} /\ emptyQue \cap Carrying = {}
  /\ \A c \in Returners : /\ putList[c] \cap (held \cup ToSet(fullQue)) = {}
                          /\ putDone[c] \cap (emptyQue \cup Carrying) = {}

(* An index is in the pool (1), with the IPC OUT task (2), in a slot of the   *)
(* out2In ring (3), with the IPC IN task (4), carried by a system buffer (5)  *)
(* or in a slot of the in2Out ring (6), and nowhere else.                    *)
Carries(s, i) == s \in Carrying /\ sys[s].idx = i
At(i, n, k, s) ==
  /\ i \in localQue <=> n = 1
  /\ outIdx = i <=> n = 2
  /\ \A m \in Slots : (o2i.slot[m] = i) <=> (n = 3 /\ m = k)
  /\ inIdx = i <=> n = 4
  /\ \A t \in SysBufs : Carries(t, i) <=> (n = 5 /\ t = s)
  /\ \A m \in Slots : (i2o.slot[m] = i) <=> (n = 6 /\ m = k)
  /\ n \in {3, 6} => k \in Slots
  /\ n = 5 => s \in SysBufs
Somewhere(i) == \E n \in 1 .. 6 : \E k, s : At(i, n, k, s)
IndexPlaced  == \A i \in Idx : Somewhere(i)

(* A buffer of the previous link is free (1), full (2), in bufList (3), in    *)
(* freeBufList (4), or with the frame of an index outside the pool (5).       *)
InSeq(q, m, b) == m \in DOMAIN q /\ q[m] = b
BufAt(b, n, k, i) ==
  /\ b \in prevFree <=> n = 1
  /\ \A m \in Nat : InSeq(prevFull, m, b) <=> (n = 2 /\ m = k)
  /\ \A m \in Nat : InSeq(todo, m, b) <=> (n = 3 /\ m = k)
  /\ \A m \in Nat : InSeq(freeList, m, b) <=> (n = 4 /\ m = k)
  /\ \A j \in Idx : (shm[j] = b) <=> (n = 5 /\ j = i)
  /\ n \in {2, 3, 4} => k \in Nat
  /\ n = 5 => i \in Idx
BufSomewhere(b) == \E n \in 1 .. 5 : \E k, i : BufAt(b, n, k, i)
BufPlaced ==
  /\ \A b \in Bufs : BufSomewhere(b)
  /\ \A i \in Idx : (shm[i] = NoBuf) <=> (i \in localQue)

Named == \A s \in Carrying : sys[s].idx \in Idx

(* The types, the Boolean ones apart: each prover does one kind.             *)
Flags ==
  /\ sent \in BOOLEAN /\ inCmd \in BOOLEAN /\ bounced \in BOOLEAN /\ delivered \in BOOLEAN
  /\ nextCmd \in BOOLEAN /\ evOut \in BOOLEAN /\ evIn \in BOOLEAN
Sorts ==
  /\ prevFree \subseteq Bufs /\ prevFull \in Seq(Bufs)
  /\ outState \in {"IDLE", "RUNNING", "STOPPED"}
  /\ outPc \in {"wait", "send", "write", "free", "notify", "release"}
  /\ outCmd \subseteq {"NEW_DATA", "RELEASE"}
  /\ localQue \subseteq Idx
  /\ todo \in Seq(Bufs) /\ freeList \in Seq(Bufs)
  /\ outIdx \in Idx \cup {NoIdx}
  /\ o2i \in Ring /\ i2o \in Ring
  /\ shm \in [Idx -> Bufs \cup {NoBuf}]
  /\ inState \in {"IDLE", "RUNNING", "STOPPED"}
  /\ inPc \in {"wait", "read", "place", "notifyPrev", "notifyNext"}
  /\ inIdx \in Idx \cup {NoIdx}
  /\ emptyQue \subseteq SysBufs /\ fullQue \in Seq(SysBufs)
  /\ sys \in [SysBufs -> [idx : Idx \cup {NoIdx}, buf : Bufs \cup {NoBuf}]]
  /\ held \subseteq SysBufs
  /\ putPc \in [Returners -> {"out", "index", "notify", "empty"}]
  /\ putList \in [Returners -> SUBSET SysBufs] /\ putDone \in [Returners -> SUBSET SysBufs]
  /\ ctl \in {"running", "outCreated"} \cup Stopped
  /\ session \in 0 .. MaxSessions

Books == IndexPlaced /\ BufPlaced /\ Filled(o2i) /\ Filled(i2o) /\ Named /\ FrameIntact

Shape == Flags /\ Sorts /\ Tasks /\ Phases /\ Returning /\ Apart
IInv  == Shape /\ (Exists => Books)

-----------------------------------------------------------------------------
(* Facts about the rings.                                                   *)

LEMMA Sizes ==
  /\ N \in Nat \ {0}
  /\ \A x \in 0 .. N-1 : (x + 1) % N = IF x + 1 = N THEN 0 ELSE x + 1
  <1>1. N \in Nat /\ N # 0
    BY IpcLinkAssumption, FS_CardinalityType, FS_EmptySet DEF N
  <1>2. ASSUME NEW n \in Nat \ {0}, NEW x \in 0 .. n-1
        PROVE  (x + 1) % n = IF x + 1 = n THEN 0 ELSE x + 1
    OBVIOUS
  <1> QED
    BY <1>1, <1>2

LEMMA RingIs ==
  ASSUME NEW r \in Ring
  PROVE  /\ r.curRd \in Slots /\ r.curWr \in Slots /\ r.slot \in [Slots -> Idx \cup {NoIdx}]
         /\ r.max \in {0, N}
         /\ r = [curRd |-> r.curRd, curWr |-> r.curWr, max |-> r.max, slot |-> r.slot]
  BY DEF Ring, RingOf, Slots

LEMMA NNat == N \in Nat \ {0}
  BY Sizes

(* A write to a ring with room uses a slot that was free.                     *)
LEMMA RingWrite ==
  ASSUME NEW r \in Ring, Filled(r), NEW e \in Idx, (r.curWr + 1) % N # r.curRd,
         NEW w, w = Published(Stored(r, e), N)
  PROVE  /\ w \in Ring /\ Filled(w)
         /\ r.slot[r.curWr] = NoIdx /\ r.curWr \in Slots
         /\ w.slot = [r.slot EXCEPT ![r.curWr] = e]
  <1>0. e # NoIdx
    BY IpcLinkAssumption
  <1>1. PICK x : x = (r.curWr + 1) % N
    OBVIOUS
  <1>2. /\ r.curRd \in Slots /\ r.curWr \in Slots /\ r.slot \in [Slots -> Idx \cup {NoIdx}]
        /\ r.max \in {0, N} /\ x = IF r.curWr + 1 = N THEN 0 ELSE r.curWr + 1
    BY <1>1, RingIs, Sizes DEF Slots
  <1>3. /\ x \in Slots /\ x # r.curRd /\ ~InUse(r, r.curWr)
        /\ \A k \in Slots : InUse([curRd |-> r.curRd, curWr |-> x], k) <=> (k = r.curWr \/ InUse(r, k))
    BY <1>1, <1>2, Sizes DEF InUse, Slots
  <1>w. w = [curRd |-> r.curRd, curWr |-> x, max |-> r.max,
             slot |-> [r.slot EXCEPT ![r.curWr] = e]]
    <2> DEFINE v == Stored(r, e)
    <2>1. v = [curRd |-> r.curRd, curWr |-> r.curWr, max |-> r.max,
               slot |-> [r.slot EXCEPT ![r.curWr] = e]]
      BY RingIs DEF Stored
    <2>2. w = [v EXCEPT !.curWr = x]
      BY <1>1, <2>1 DEF Published
    <2> QED
      BY <2>1, <2>2
  <1>4. ASSUME NEW k \in Slots
        PROVE  (w.slot[k] # NoIdx) <=> InUse(w, k)
    <2>1. (r.slot[k] # NoIdx) <=> InUse(r, k)
      BY DEF Filled
    <2>2. InUse(w, k) <=> (k = r.curWr \/ InUse(r, k))
      BY <1>3, <1>w DEF InUse
    <2>3. w.slot[k] = IF k = r.curWr THEN e ELSE r.slot[k]
      BY <1>2, <1>w
    <2> QED
      BY <1>0, <2>1, <2>2, <2>3
  <1>5. w \in Ring
    BY <1>2, <1>3, <1>w DEF Ring, RingOf, Slots
  <1>6. r.slot[r.curWr] = NoIdx
    BY <1>2, <1>3 DEF Filled
  <1> QED
    BY <1>2, <1>w, <1>4, <1>5, <1>6 DEF Filled

(* A read takes an index that was written and leaves the slot free.           *)
LEMMA RingTake ==
  ASSUME NEW r \in Ring, Filled(r), ~IsEmpty(r, N), NEW w, w = Taken(r)
  PROVE  /\ w \in Ring /\ Filled(w)
         /\ Loaded(r) \in Idx /\ r.curRd \in Slots /\ r.slot[r.curRd] = Loaded(r)
         /\ w.slot = [r.slot EXCEPT ![r.curRd] = NoIdx]
  <1>1. PICK x : x = (r.curRd + 1) % N
    OBVIOUS
  <1>2. /\ r.curRd \in Slots /\ r.curWr \in Slots /\ r.slot \in [Slots -> Idx \cup {NoIdx}]
        /\ r.max \in {0, N} /\ x = IF r.curRd + 1 = N THEN 0 ELSE r.curRd + 1
    BY <1>1, RingIs, Sizes DEF Slots
  <1>3. /\ x \in Slots /\ InUse(r, r.curRd)
        /\ \A k \in Slots : InUse([curRd |-> x, curWr |-> r.curWr], k) <=> (k # r.curRd /\ InUse(r, k))
    <2>1. r.curRd # r.curWr
      BY <1>2, Sizes DEF IsEmpty, Slots
    <2> QED
      BY <1>2, <2>1, Sizes DEF InUse, Slots
  <1>w. w = [curRd |-> x, curWr |-> r.curWr, max |-> r.max,
             slot |-> [r.slot EXCEPT ![r.curRd] = NoIdx]]
    <2> DEFINE v == Consumed(r, N)
    <2>1. v = [curRd |-> x, curWr |-> r.curWr, max |-> r.max, slot |-> r.slot]
      BY <1>1, RingIs DEF Consumed
    <2>2. w = [v EXCEPT !.slot[r.curRd] = NoIdx]
      BY DEF Taken
    <2> QED
      BY <2>1, <2>2
  <1>4. r.slot[r.curRd] # NoIdx
    BY <1>2, <1>3 DEF Filled
  <1>5. ASSUME NEW k \in Slots
        PROVE  (w.slot[k] # NoIdx) <=> InUse(w, k)
    <2>1. (r.slot[k] # NoIdx) <=> InUse(r, k)
      BY DEF Filled
    <2>2. InUse(w, k) <=> (k # r.curRd /\ InUse(r, k))
      BY <1>3, <1>w DEF InUse
    <2>3. w.slot[k] = IF k = r.curRd THEN NoIdx ELSE r.slot[k]
      BY <1>2, <1>w
    <2> QED
      BY <2>1, <2>2, <2>3
  <1>6. w \in Ring
    BY <1>2, <1>3, <1>w DEF Ring, RingOf, Slots
  <1> QED
    BY <1>2, <1>w, <1>4, <1>5, <1>6 DEF Filled, Loaded

(* Every ring but a written one is unchanged in what it holds.                *)
LEMMA CreatedIs ==
  /\ CreatedRing(N, NoIdx) \in Ring /\ Filled(CreatedRing(N, NoIdx))
  /\ CreatedRing(N, NoIdx).curRd = 0 /\ CreatedRing(N, NoIdx).curWr = 0
  /\ \A k \in Slots : CreatedRing(N, NoIdx).slot[k] = NoIdx
  /\ ResetRd(CreatedRing(N, NoIdx)) = CreatedRing(N, NoIdx)
  /\ ResetWr(CreatedRing(N, NoIdx)) = CreatedRing(N, NoIdx)
  BY Sizes DEF CreatedRing, Ring, RingOf, Slots, Filled, InUse, ResetRd, ResetWr

LEMMA DeletedIs == \A r \in Ring : DeletedRing(r) \in Ring
  BY Sizes DEF Ring, RingOf, DeletedRing

LEMMA NotFull == \A r \in Ring : ~IsFull(r, N)
  BY Sizes DEF Ring, RingOf, IsFull

(* An index is away from the ring and is not the one to be written: there is *)
(* room.  Otherwise every slot but one would have an index of its own, and    *)
(* with the one to be written there would be as many as there are slots.     *)
LEMMA RoomForOne ==
  ASSUME NEW r \in Ring, Filled(r), NEW e \in Idx, NEW spare \in Idx, e # spare,
         \A m \in Slots : r.slot[m] # e /\ r.slot[m] # spare,
         \A m, l \in Slots : r.slot[m] = r.slot[l] /\ r.slot[m] # NoIdx => m = l
  PROVE  (r.curWr + 1) % N # r.curRd
  <1> SUFFICES ASSUME (r.curWr + 1) % N = r.curRd PROVE FALSE
    OBVIOUS
  <1>1. /\ r.curRd \in Slots /\ r.curWr \in Slots /\ r.slot \in [Slots -> Idx \cup {NoIdx}]
        /\ r.curRd = IF r.curWr + 1 = N THEN 0 ELSE r.curWr + 1
    BY RingIs, Sizes DEF Slots
  <1>2. \A k \in Slots : k # r.curWr => r.slot[k] # NoIdx
    BY <1>1, Sizes DEF Filled, InUse, Slots
  <1> DEFINE g == [k \in Slots |-> IF k = r.curWr THEN e ELSE r.slot[k]]
  <1>3. g \in [Slots -> Idx \ {spare}]
    BY <1>1, <1>2
  <1>4. IsFiniteSet(Slots) /\ Cardinality(Slots) = N
    BY Sizes, FS_Interval DEF Slots
  <1>5. IsFiniteSet(Idx \ {spare}) /\ Cardinality(Idx \ {spare}) = N - 1
    BY IpcLinkAssumption, FS_RemoveElement DEF N
  <1>6. PICK x, y \in Slots : x # y /\ g[x] = g[y]
    <2> HIDE DEF g
    <2> QED
      BY <1>3, <1>4, <1>5, Sizes, FS_PigeonHole
  <1> QED
    BY <1>1, <1>2, <1>6

-----------------------------------------------------------------------------
(* Facts about the places.                                                  *)

LEMMA TypeParts == Flags /\ Sorts => TypeOK
  <1>1. Stopped \cup {"running", "outCreated"} =
          {"deleted", "outCreated", "running", "nextStopped", "inStopped", "outStopped", "inDeleted"}
    BY DEF Stopped
  <1> QED
    BY <1>1, Zenon DEF Flags, Sorts, TypeOK, Ring

LEMMA TypeIs ==
  ASSUME Sorts
  PROVE  /\ o2i \in Ring /\ i2o \in Ring /\ o2i.slot \in [Slots -> Idx \cup {NoIdx}]
         /\ i2o.slot \in [Slots -> Idx \cup {NoIdx}]
         /\ shm \in [Idx -> Bufs \cup {NoBuf}]
         /\ Carrying \subseteq SysBufs /\ NoIdx \notin Idx /\ NoBuf \notin Bufs
  <1>1. o2i \in Ring /\ i2o \in Ring
    BY DEF Sorts
  <1>2. Carrying \subseteq SysBufs
    BY DEF Sorts, Carrying, ToSet
  <1> QED
    BY <1>1, <1>2, RingIs, IpcLinkAssumption DEF Sorts

(* A ring never has an index twice.                                         *)
LEMMA OneSlot ==
  ASSUME Sorts, IndexPlaced
  PROVE  /\ \A m, l \in Slots : o2i.slot[m] = o2i.slot[l] /\ o2i.slot[m] # NoIdx => m = l
         /\ \A m, l \in Slots : i2o.slot[m] = i2o.slot[l] /\ i2o.slot[m] # NoIdx => m = l
  <1>1. ASSUME NEW m \in Slots, NEW l \in Slots, o2i.slot[m] = o2i.slot[l], o2i.slot[m] # NoIdx
        PROVE  m = l
    <2>1. o2i.slot[m] \in Idx
      BY <1>1, TypeIs
    <2>2. PICK n \in 1 .. 6 : \E k, s : At(o2i.slot[m], n, k, s)
      BY <2>1 DEF IndexPlaced, Somewhere
    <2> QED
      BY <1>1, <2>2 DEF At
  <1>2. ASSUME NEW m \in Slots, NEW l \in Slots, i2o.slot[m] = i2o.slot[l], i2o.slot[m] # NoIdx
        PROVE  m = l
    <2>1. i2o.slot[m] \in Idx
      BY <1>2, TypeIs
    <2>2. PICK n \in 1 .. 6 : \E k, s : At(i2o.slot[m], n, k, s)
      BY <2>1 DEF IndexPlaced, Somewhere
    <2> QED
      BY <1>2, <2>2 DEF At
  <1> QED
    BY <1>1, <1>2

(* Frames of different indices are of different buffers.                     *)
LEMMA OneFrame ==
  ASSUME Sorts, BufPlaced, NEW i \in Idx, NEW j \in Idx, shm[i] = shm[j], shm[i] # NoBuf
  PROVE  i = j
  <1>1. shm[i] \in Bufs
    BY TypeIs
  <1>2. PICK n \in 1 .. 5 : \E k, x : BufAt(shm[i], n, k, x)
    BY <1>1 DEF BufPlaced, BufSomewhere
  <1> QED
    BY <1>2 DEF BufAt

(* The pool is never empty: every index outside it has a buffer of its own.  *)
LEMMA Spare ==
  ASSUME Roomy, Sorts, BufPlaced
  PROVE  \E i \in Idx : i \in localQue
  <1> SUFFICES ASSUME \A i \in Idx : i \notin localQue PROVE FALSE
    OBVIOUS
  <1>1. \A i \in Idx : shm[i] \in Bufs /\ shm[i] # NoBuf
    BY TypeIs DEF BufPlaced
  <1>2. shm \in [Idx -> Bufs]
    BY <1>1, TypeIs
  <1>3. PICK i, j \in Idx : i # j /\ shm[i] = shm[j]
    BY <1>2, IpcLinkAssumption, FS_PigeonHole DEF Roomy
  <1> QED
    BY <1>1, <1>3, OneFrame

(* There is room in a ring for an index that is not in it.                   *)
LEMMA Room ==
  ASSUME Roomy, Sorts, Books, NEW e \in Idx, e \notin localQue
  PROVE  /\ (\A m \in Slots : o2i.slot[m] # e) => (o2i.curWr + 1) % N # o2i.curRd
         /\ (\A m \in Slots : i2o.slot[m] # e) => (i2o.curWr + 1) % N # i2o.curRd
  <1>1. PICK spare \in Idx : spare \in localQue
    BY Spare DEF Books
  <1>2. \A m \in Slots : o2i.slot[m] # spare /\ i2o.slot[m] # spare
    <2>1. PICK n \in 1 .. 6 : \E k, s : At(spare, n, k, s)
      BY DEF Books, IndexPlaced, Somewhere
    <2>2. n = 1
      BY <1>1, <2>1 DEF At
    <2> QED
      BY <2>1, <2>2 DEF At
  <1>3. e # spare /\ Filled(o2i) /\ Filled(i2o) /\ o2i \in Ring /\ i2o \in Ring
    BY <1>1, TypeIs DEF Books
  <1>4. /\ \A m, l \in Slots : o2i.slot[m] = o2i.slot[l] /\ o2i.slot[m] # NoIdx => m = l
        /\ \A m, l \in Slots : i2o.slot[m] = i2o.slot[l] /\ i2o.slot[m] # NoIdx => m = l
    BY OneSlot DEF Books
  <1>5. ASSUME \A m \in Slots : o2i.slot[m] # e PROVE (o2i.curWr + 1) % N # o2i.curRd
    BY <1>2, <1>3, <1>4, <1>5, RoomForOne
  <1>6. ASSUME \A m \in Slots : i2o.slot[m] # e PROVE (i2o.curWr + 1) % N # i2o.curRd
    BY <1>2, <1>3, <1>4, <1>6, RoomForOne
  <1> QED
    BY <1>5, <1>6

(* Where the index a task holds, or one it is about to return, is not.        *)
LEMMA HeldIdx ==
  ASSUME Sorts, IndexPlaced, NEW e \in Idx,
         outIdx = e \/ inIdx = e \/ \E t \in SysBufs : Carries(t, e)
  PROVE  e \notin localQue /\ \A m \in Slots : o2i.slot[m] # e /\ i2o.slot[m] # e
  <1>1. PICK n \in 1 .. 6 : \E k, s : At(e, n, k, s)
    BY DEF IndexPlaced, Somewhere
  <1>2. n \in {2, 4, 5}
    BY <1>1 DEF At
  <1> QED
    BY <1>1, <1>2 DEF At

LEMMA InitIInv == Init => IInv
  <1> SUFFICES ASSUME Init PROVE IInv
    OBVIOUS
  <1>1. /\ CreatedRing(N, NoIdx) \in Ring /\ DeletedRing(CreatedRing(N, NoIdx)) \in Ring
    BY CreatedIs, DeletedIs
  <1>2. Flags /\ Sorts
    <2>1. o2i \in Ring /\ i2o \in Ring
      BY <1>1 DEF Init
    <2>2. sys \in [SysBufs -> [idx : Idx \cup {NoIdx}, buf : Bufs \cup {NoBuf}]]
      BY DEF Init, NoFrame
    <2>3. session \in 0 .. MaxSessions
      BY IpcLinkAssumption DEF Init
    <2>4. /\ shm \in [Idx -> Bufs \cup {NoBuf}]
          /\ putPc \in [Returners -> {"out", "index", "notify", "empty"}]
          /\ putList \in [Returners -> SUBSET SysBufs] /\ putDone \in [Returners -> SUBSET SysBufs]
      BY DEF Init
    <2>5. /\ prevFull \in Seq(Bufs) /\ todo \in Seq(Bufs) /\ freeList \in Seq(Bufs)
          /\ fullQue \in Seq(SysBufs)
      BY DEF Init
    <2> QED
      BY <2>1, <2>2, <2>3, <2>4, <2>5, Zenon DEF Init, Flags, Sorts, Stopped
  <1>3. Tasks /\ Phases /\ Returning
    BY IpcLinkAssumption DEF Init, Tasks, Phases, Returning, Stopped
  <1>4. Apart
    BY DEF Init, Apart, Carrying, ToSet
  <1>5. ~Exists
    BY DEF Init, Exists
  <1> QED
    BY <1>2, <1>3, <1>4, <1>5 DEF IInv, Shape

-----------------------------------------------------------------------------
(* What changes and what does not: the conjuncts a step leaves alone.        *)

indexVars == <<localQue, outIdx, o2i, inIdx, i2o, sys, Carrying>>
bufVars   == <<localQue, prevFree, prevFull, todo, freeList, shm>>
roleVars  == <<outPc, todo, freeList, outIdx, inPc, inIdx>>
putVars   == <<emptyQue, ToSet(fullQue), held, putPc, putList, putDone>>

LEMMA IndexSame ==
  ASSUME IndexPlaced, Filled(o2i), Filled(i2o), Named, UNCHANGED indexVars
  PROVE  IndexPlaced' /\ Filled(o2i)' /\ Filled(i2o)' /\ Named'
  BY DEF indexVars, IndexPlaced, Filled, InUse, Named, Somewhere, At, Carries

LEMMA BufSame ==
  ASSUME BufPlaced, UNCHANGED bufVars
  PROVE  BufPlaced'
  BY DEF bufVars, BufPlaced, BufSomewhere, BufAt, InSeq

LEMMA PutSame ==
  ASSUME Returning, Apart, UNCHANGED putVars
  PROVE  Returning' /\ Apart' /\ Carrying' = Carrying
  <1>1. Carrying' = Carrying
    BY DEF putVars, Carrying
  <1> QED
    BY <1>1 DEF putVars, Returning, Apart

LEMMA BooksSame ==
  ASSUME Books, Exists, UNCHANGED <<indexVars, bufVars>>
  PROVE  Books'
  <1>1. BufPlaced'
    BY BufSame DEF Books
  <1>2. IndexPlaced' /\ Filled(o2i)' /\ Filled(i2o)' /\ Named'
    BY IndexSame DEF Books
  <1>3. FrameIntact'
    BY DEF Books, FrameIntact, indexVars, bufVars
  <1> QED
    BY <1>1, <1>2, <1>3 DEF Books

-----------------------------------------------------------------------------
(* Steps that move neither an index nor a buffer.                            *)

LEMMA StopNextKept == IInv /\ StopNext => IInv'
  <1> SUFFICES ASSUME IInv, StopNext PROVE IInv'
    OBVIOUS
  <1> USE DEF StopNext, Step, prevVars, outVars, shmVars, inVars, nextVars, evVars, ctlVars
  <1>f. Flags'
    BY Zenon DEF IInv, Shape, Flags
  <1>1. Sorts'
    BY DEF IInv, Shape, Sorts, Stopped
  <1>2. Tasks' /\ Phases'
    BY DEF IInv, Shape, Tasks, Phases, Stopped
  <1>3. Returning' /\ Apart' /\ Carrying' = Carrying
    BY PutSame DEF IInv, Shape, putVars
  <1>4. Exists' => Exists /\ Books'
    BY <1>3, BooksSame DEF IInv, Exists, indexVars, bufVars
  <1> QED
    BY <1>f, <1>1, <1>2, <1>3, <1>4 DEF IInv, Shape

LEMMA StopInKept == IInv /\ StopIn => IInv'
  <1> SUFFICES ASSUME IInv, StopIn PROVE IInv'
    OBVIOUS
  <1> USE DEF StopIn, Step, prevVars, outVars, shmVars, inVars, nextVars, evVars, ctlVars
  <1>f. Flags'
    BY Zenon DEF IInv, Shape, Flags
  <1>1. Sorts'
    BY DEF IInv, Shape, Sorts, Stopped
  <1>2. Tasks' /\ Phases'
    BY DEF IInv, Shape, Tasks, Phases, Stopped
  <1>3. Returning' /\ Apart' /\ Carrying' = Carrying
    BY PutSame DEF IInv, Shape, putVars
  <1>4. Exists' => Exists /\ Books'
    BY <1>3, BooksSame DEF IInv, Exists, indexVars, bufVars
  <1> QED
    BY <1>f, <1>1, <1>2, <1>3, <1>4 DEF IInv, Shape

LEMMA StopOutKept == IInv /\ StopOut => IInv'
  <1> SUFFICES ASSUME IInv, StopOut PROVE IInv'
    OBVIOUS
  <1> USE DEF StopOut, Step, prevVars, outVars, shmVars, inVars, nextVars, evVars, ctlVars
  <1>f. Flags'
    BY Zenon DEF IInv, Shape, Flags
  <1>1. Sorts'
    BY DEF IInv, Shape, Sorts, Stopped
  <1>2. Tasks' /\ Phases'
    BY DEF IInv, Shape, Tasks, Phases, Stopped
  <1>3. Returning' /\ Apart' /\ Carrying' = Carrying
    BY PutSame DEF IInv, Shape, putVars
  <1>4. Exists' => Exists /\ Books'
    BY <1>3, BooksSame DEF IInv, Exists, indexVars, bufVars
  <1> QED
    BY <1>f, <1>1, <1>2, <1>3, <1>4 DEF IInv, Shape

LEMMA OutNotifyKept == IInv /\ OutNotify => IInv'
  <1> SUFFICES ASSUME IInv, OutNotify PROVE IInv'
    OBVIOUS
  <1> USE DEF OutNotify, prevVars, outVars, shmVars, inVars, nextVars, evVars, ctlVars
  <1>f. Flags'
    BY Zenon DEF IInv, Shape, Flags
  <1>1. Sorts'
    BY DEF IInv, Shape, Sorts, Stopped
  <1>2. Tasks' /\ Phases'
    BY DEF IInv, Shape, Tasks, Phases, Stopped
  <1>3. Returning' /\ Apart' /\ Carrying' = Carrying
    BY PutSame DEF IInv, Shape, putVars
  <1>4. Exists' => Exists /\ Books'
    BY <1>3, BooksSame DEF IInv, Exists, indexVars, bufVars
  <1> QED
    BY <1>f, <1>1, <1>2, <1>3, <1>4 DEF IInv, Shape

LEMMA OutReleaseKept == IInv /\ OutRelease => IInv'
  <1> SUFFICES ASSUME IInv, OutRelease PROVE IInv'
    OBVIOUS
  <1> USE DEF OutRelease, prevVars, outVars, shmVars, inVars, nextVars, evVars, ctlVars
  <1>f. Flags'
    BY Zenon DEF IInv, Shape, Flags
  <1>1. Sorts'
    BY DEF IInv, Shape, Sorts, Stopped
  <1>2. Tasks' /\ Phases'
    BY DEF IInv, Shape, Tasks, Phases, Stopped
  <1>3. Returning' /\ Apart' /\ Carrying' = Carrying
    BY PutSame DEF IInv, Shape, putVars
  <1>4. Exists' => Exists /\ Books'
    BY <1>3, BooksSame DEF IInv, Exists, indexVars, bufVars
  <1> QED
    BY <1>f, <1>1, <1>2, <1>3, <1>4 DEF IInv, Shape

LEMMA OutNotifyCbKept == IInv /\ OutNotifyCb => IInv'
  <1> SUFFICES ASSUME IInv, OutNotifyCb PROVE IInv'
    OBVIOUS
  <1> USE DEF OutNotifyCb, prevVars, outVars, shmVars, inVars, nextVars, evVars, ctlVars
  <1>f. Flags'
    BY Zenon DEF IInv, Shape, Flags
  <1>1. Sorts'
    BY DEF IInv, Shape, Sorts, Stopped
  <1>2. Tasks' /\ Phases'
    BY DEF IInv, Shape, Tasks, Phases, Stopped
  <1>3. Returning' /\ Apart' /\ Carrying' = Carrying
    BY PutSame DEF IInv, Shape, putVars
  <1>4. Exists' => Exists /\ Books'
    BY <1>3, BooksSame DEF IInv, Exists, indexVars, bufVars
  <1> QED
    BY <1>f, <1>1, <1>2, <1>3, <1>4 DEF IInv, Shape

LEMMA InNotifyCbKept == IInv /\ InNotifyCb => IInv'
  <1> SUFFICES ASSUME IInv, InNotifyCb PROVE IInv'
    OBVIOUS
  <1> USE DEF InNotifyCb, prevVars, outVars, shmVars, inVars, nextVars, evVars, ctlVars
  <1>f. Flags'
    BY Zenon DEF IInv, Shape, Flags
  <1>1. Sorts'
    BY DEF IInv, Shape, Sorts, Stopped
  <1>2. Tasks' /\ Phases'
    BY DEF IInv, Shape, Tasks, Phases, Stopped
  <1>3. Returning' /\ Apart' /\ Carrying' = Carrying
    BY PutSame DEF IInv, Shape, putVars
  <1>4. Exists' => Exists /\ Books'
    BY <1>3, BooksSame DEF IInv, Exists, indexVars, bufVars
  <1> QED
    BY <1>f, <1>1, <1>2, <1>3, <1>4 DEF IInv, Shape

LEMMA InNewDataKept == IInv /\ InNewData => IInv'
  <1> SUFFICES ASSUME IInv, InNewData PROVE IInv'
    OBVIOUS
  <1> USE DEF InNewData, prevVars, outVars, shmVars, inVars, nextVars, evVars, ctlVars
  <1>f. Flags'
    BY Zenon DEF IInv, Shape, Flags
  <1>1. Sorts'
    BY DEF IInv, Shape, Sorts, Stopped
  <1>2. Tasks' /\ Phases'
    BY DEF IInv, Shape, Tasks, Phases, Stopped
  <1>3. Returning' /\ Apart' /\ Carrying' = Carrying
    BY PutSame DEF IInv, Shape, putVars
  <1>4. Exists' => Exists /\ Books'
    BY <1>3, BooksSame DEF IInv, Exists, indexVars, bufVars
  <1> QED
    BY <1>f, <1>1, <1>2, <1>3, <1>4 DEF IInv, Shape

LEMMA InNotifyPrevKept == IInv /\ InNotifyPrev => IInv'
  <1> SUFFICES ASSUME IInv, InNotifyPrev PROVE IInv'
    OBVIOUS
  <1> USE DEF InNotifyPrev, prevVars, outVars, shmVars, inVars, nextVars, evVars, ctlVars
  <1>f. Flags'
    BY Zenon DEF IInv, Shape, Flags
  <1>1. Sorts'
    BY DEF IInv, Shape, Sorts, Stopped
  <1>2. Tasks' /\ Phases'
    BY DEF IInv, Shape, Tasks, Phases, Stopped
  <1>3. Returning' /\ Apart' /\ Carrying' = Carrying
    BY PutSame DEF IInv, Shape, putVars
  <1>4. Exists' => Exists /\ Books'
    BY <1>3, BooksSame DEF IInv, Exists, indexVars, bufVars
  <1> QED
    BY <1>f, <1>1, <1>2, <1>3, <1>4 DEF IInv, Shape

LEMMA InNotifyNextKept == IInv /\ InNotifyNext => IInv'
  <1> SUFFICES ASSUME IInv, InNotifyNext PROVE IInv'
    OBVIOUS
  <1> USE DEF InNotifyNext, prevVars, outVars, shmVars, inVars, nextVars, evVars, ctlVars
  <1>f. Flags'
    BY Zenon DEF IInv, Shape, Flags
  <1>1. Sorts'
    BY DEF IInv, Shape, Sorts, Stopped
  <1>2. Tasks' /\ Phases'
    BY DEF IInv, Shape, Tasks, Phases, Stopped
  <1>3. Returning' /\ Apart' /\ Carrying' = Carrying
    BY PutSame DEF IInv, Shape, putVars
  <1>4. Exists' => Exists /\ Books'
    BY <1>3, BooksSame DEF IInv, Exists, indexVars, bufVars
  <1> QED
    BY <1>f, <1>1, <1>2, <1>3, <1>4 DEF IInv, Shape

-----------------------------------------------------------------------------
(* Creation and deletion.                                                   *)

LEMMA CreateOutKept == IInv /\ CreateOut => IInv'
  <1> SUFFICES ASSUME IInv, CreateOut PROVE IInv'
    OBVIOUS
  <1> USE DEF CreateOut, Step, inVars, nextVars, evVars
  <1>1. Flags'
    BY Zenon DEF IInv, Shape, Flags
  <1>2. Sorts'
    BY CreatedIs, IpcLinkAssumption DEF IInv, Shape, Sorts, Phases, Stopped
  <1>3. Tasks' /\ Phases'
    BY DEF IInv, Shape, Tasks, Phases, Stopped
  <1>4. Returning' /\ Apart' /\ Carrying' = Carrying
    BY PutSame DEF IInv, Shape, putVars
  <1>5. Carrying = {}
    BY DEF IInv, Shape, Phases, Returning, Carrying, ToSet
  <1>6. IndexPlaced'
    <2>1. ASSUME NEW i \in Idx PROVE At(i, 1, 0, 0)'
      <3>1. outIdx' # i /\ inIdx' # i
        BY IpcLinkAssumption DEF IInv, Shape, Tasks, Phases
      <3>2. \A m \in Slots : o2i'.slot[m] # i /\ i2o'.slot[m] # i
        BY CreatedIs, IpcLinkAssumption
      <3>3. \A t \in SysBufs : ~Carries(t, i)'
        BY <1>4, <1>5 DEF Carries
      <3> QED
        BY <3>1, <3>2, <3>3 DEF At
    <2> QED
      BY <2>1 DEF IndexPlaced, Somewhere
  <1>7. BufPlaced'
    <2>1. ASSUME NEW b \in Bufs PROVE BufAt(b, 1, 0, 0)'
      <3>1. todo' = << >> /\ freeList' = << >> /\ prevFull' = << >>
        BY DEF IInv, Shape, Tasks
      <3>2. \A j \in Idx : shm'[j] # b
        BY IpcLinkAssumption
      <3>3. \A m \in Nat : ~InSeq(<< >>, m, b)
        BY DEF InSeq
      <3> QED
        BY <3>1, <3>2, <3>3 DEF BufAt
    <2> QED
      BY <2>1 DEF BufPlaced, BufSomewhere
  <1>8. Filled(o2i)' /\ Filled(i2o)'
    BY CreatedIs DEF Filled
  <1>9. Named' /\ FrameIntact'
    BY <1>4, <1>5 DEF Named, FrameIntact
  <1> QED
    BY <1>1, <1>2, <1>3, <1>4, <1>6, <1>7, <1>8, <1>9 DEF IInv, Shape, Books

LEMMA CreateInKept == IInv /\ CreateIn => IInv'
  <1> SUFFICES ASSUME IInv, CreateIn PROVE IInv'
    OBVIOUS
  <1> USE DEF CreateIn, Step, prevVars, outVars, evVars
  <1>1. Flags'
    BY Zenon DEF IInv, Shape, Flags
  <1>0. o2i' = o2i /\ i2o' = i2o
    BY CreatedIs DEF IInv, Shape, Phases
  <1>2. Sorts'
    BY <1>0 DEF IInv, Shape, Sorts, NoFrame, Stopped
  <1>3. Tasks' /\ Phases'
    BY DEF IInv, Shape, Tasks, Phases, Stopped
  <1>4. Carrying = {} /\ Carrying' = {} /\ fullQue = << >> /\ held = {}
        /\ \A c \in Returners : putList[c] = {} /\ putDone[c] = {}
    BY DEF IInv, Shape, Phases, Returning, Carrying, ToSet
  <1>5. Returning' /\ Apart'
    BY <1>4 DEF IInv, Shape, Returning, Apart, ToSet
  <1>6. Books
    BY DEF IInv, Exists
  <1>7. IndexPlaced'
    <2>1. ASSUME NEW i \in Idx PROVE Somewhere(i)'
      <3>1. PICK n \in 1 .. 6 : \E k, s : At(i, n, k, s)
        BY <1>6 DEF Books, IndexPlaced, Somewhere
      <3>2. PICK k, s : At(i, n, k, s)
        BY <3>1
      <3>3. \A t \in SysBufs : Carries(t, i)' = Carries(t, i)
        BY <1>4 DEF Carries
      <3>4. At(i, n, k, s)'
        BY <3>2, <3>3, <1>0 DEF At
      <3> QED
        BY <3>4 DEF Somewhere
    <2> QED
      BY <2>1 DEF IndexPlaced
  <1>8. BufPlaced'
    BY <1>6, BufSame DEF bufVars, Books
  <1>9. Filled(o2i)' /\ Filled(i2o)' /\ Named' /\ FrameIntact'
    BY <1>0, <1>4, <1>6 DEF Books, Filled, InUse, Named, FrameIntact
  <1> QED
    BY <1>1, <1>2, <1>3, <1>5, <1>7, <1>8, <1>9 DEF IInv, Shape, Books

LEMMA DeleteInKept == IInv /\ DeleteIn => IInv'
  <1> SUFFICES ASSUME IInv, DeleteIn PROVE IInv'
    OBVIOUS
  <1> USE DEF DeleteIn, Step, prevVars, outVars, shmVars, evVars
  <1>1. Flags'
    BY Zenon DEF IInv, Shape, Flags
  <1>2. Sorts'
    BY DEF IInv, Shape, Sorts, Stopped
  <1>3. Tasks' /\ Phases'
    BY DEF IInv, Shape, Tasks, Phases, Stopped
  <1>4. Returning' /\ Apart'
    BY DEF IInv, Shape, Phases, Returning, Apart, Carrying, ToSet
  <1> QED
    BY <1>1, <1>2, <1>3, <1>4 DEF IInv, Shape, Exists

LEMMA DeleteOutKept == IInv /\ DeleteOut => IInv'
  <1> SUFFICES ASSUME IInv, DeleteOut PROVE IInv'
    OBVIOUS
  <1> USE DEF DeleteOut, Step, inVars, nextVars, evVars
  <1>1. Flags'
    BY Zenon DEF IInv, Shape, Flags
  <1>2. Sorts'
    BY DeletedIs DEF IInv, Shape, Sorts, Stopped
  <1>3. Tasks' /\ Phases'
    BY DEF IInv, Shape, Tasks, Phases, Stopped
  <1>4. Returning' /\ Apart'
    BY PutSame DEF IInv, Shape, putVars
  <1> QED
    BY <1>1, <1>2, <1>3, <1>4 DEF IInv, Shape, Exists

-----------------------------------------------------------------------------
(* Steps that move buffers of the previous link.                             *)

LEMMA NoneIn == \A m, b : ~InSeq(<< >>, m, b)
  BY DEF InSeq

LEMMA LastIn ==
  ASSUME NEW B, NEW q \in Seq(B), NEW x \in B
  PROVE  /\ Append(q, x) \in Seq(B)
         /\ \A m \in Nat, b \in B : InSeq(Append(q, x), m, b) <=> (InSeq(q, m, b) \/ (m = Len(q) + 1 /\ b = x))
  BY DEF InSeq

LEMMA LastSet ==
  ASSUME NEW B, NEW q \in Seq(B), NEW x \in B
  PROVE  ToSet(Append(q, x)) = ToSet(q) \cup {x} /\ Append(q, x) \in Seq(B)
  <1>1. DOMAIN Append(q, x) = 1 .. Len(q) + 1 /\ DOMAIN q = 1 .. Len(q) /\ Len(q) \in Nat
    OBVIOUS
  <1>2. \A i \in 1 .. Len(q) + 1 : Append(q, x)[i] = IF i = Len(q) + 1 THEN x ELSE q[i]
    OBVIOUS
  <1>3. ASSUME NEW y PROVE y \in ToSet(Append(q, x)) <=> (y \in ToSet(q) \/ y = x)
    BY <1>1, <1>2 DEF ToSet
  <1> QED
    BY <1>3

LEMMA FirstIn ==
  ASSUME NEW B, NEW q \in Seq(B), q # << >>
  PROVE  /\ Head(q) \in B /\ Tail(q) \in Seq(B) /\ InSeq(q, 1, Head(q))
         /\ \A m \in Nat, b \in B : InSeq(Tail(q), m, b) <=> (m # 0 /\ InSeq(q, m + 1, b))
         /\ \A b : ~InSeq(q, 0, b)
  <1>1. Tail(q) \in Seq(B) /\ Head(q) \in B /\ Len(q) \in Nat \ {0} /\ Head(q) = q[1]
        /\ Len(Tail(q)) = Len(q) - 1
    BY EmptySeq, HeadTailProperties, LenProperties
  <1>2. \A m \in 1 .. Len(q) - 1 : Tail(q)[m] = q[m + 1]
    BY HeadTailProperties
  <1>3. DOMAIN q = 1 .. Len(q) /\ DOMAIN Tail(q) = 1 .. Len(q) - 1
    BY <1>1, LenProperties
  <1> QED
    BY <1>1, <1>2, <1>3 DEF InSeq

LEMMA AnyIn ==
  ASSUME NEW B, NEW q \in Seq(B), NEW b
  PROVE  b \in ToSet(q) <=> \E m \in Nat : InSeq(q, m, b)
  BY DEF InSeq, ToSet

LEMMA PrevProduceKept == ASSUME NEW x \in Bufs PROVE IInv /\ PrevProduce(x) => IInv'
  <1> SUFFICES ASSUME IInv, PrevProduce(x) PROVE IInv'
    OBVIOUS
  <1> USE DEF PrevProduce, shmVars, inVars, nextVars, evVars, ctlVars
  <1>1. Flags'
    BY Zenon DEF IInv, Shape, Flags
  <1>2. Sorts'
    BY DEF IInv, Shape, Sorts, Stopped
  <1>3. Tasks' /\ Phases'
    BY DEF IInv, Shape, Tasks, Phases, Stopped
  <1>4. Returning' /\ Apart' /\ Carrying' = Carrying
    BY PutSame DEF IInv, Shape, putVars
  <1>5. Exists /\ Books
    BY DEF IInv, Exists
  <1>6. IndexPlaced' /\ Filled(o2i)' /\ Filled(i2o)' /\ Named'
    BY <1>4, <1>5, IndexSame DEF Books, indexVars
  <1>7. BufPlaced'
    <2>1. ASSUME NEW b \in Bufs PROVE BufSomewhere(b)'
      <3>1. PICK n \in 1 .. 5 : \E k, i : BufAt(b, n, k, i)
        BY <1>5 DEF Books, BufPlaced, BufSomewhere
      <3>2. PICK k, i : BufAt(b, n, k, i)
        BY <3>1
      <3>3. \A m \in Nat : InSeq(prevFull', m, b) <=> (InSeq(prevFull, m, b) \/ (m = Len(prevFull) + 1 /\ b = x))
        BY LastIn DEF IInv, Shape, Sorts
      <3>4. CASE b = x
        <4>1. n = 1
          BY <3>2, <3>4 DEF BufAt
        <4>2. Len(prevFull) \in Nat
          BY DEF IInv, Shape, Sorts
        <4>3. PICK l \in Nat : l = Len(prevFull) + 1
          BY <4>2
        <4>4. \A m \in Nat : InSeq(prevFull', m, b) <=> m = l
          BY <3>2, <3>3, <3>4, <4>1, <4>3 DEF BufAt
        <4>5. BufAt(b, 2, l, i)'
          BY <3>2, <3>4, <4>1, <4>4 DEF BufAt
        <4> QED
          BY <4>5 DEF BufSomewhere
      <3>5. CASE b # x
        <4>1. BufAt(b, n, k, i)'
          BY <3>2, <3>3, <3>5 DEF BufAt
        <4> QED
          BY <4>1 DEF BufSomewhere
      <3> QED
        BY <3>4, <3>5
    <2> QED
      BY <1>5, <2>1 DEF Books, BufPlaced
  <1>8. FrameIntact'
    BY <1>4, <1>5 DEF Books, FrameIntact
  <1> QED
    BY <1>1, <1>2, <1>3, <1>4, <1>6, <1>7, <1>8 DEF IInv, Shape, Books

LEMMA OutNewDataKept == IInv /\ OutNewData => IInv'
  <1> SUFFICES ASSUME IInv, OutNewData PROVE IInv'
    OBVIOUS
  <1> USE DEF OutNewData, shmVars, inVars, nextVars, evVars, ctlVars
  <1>1. Flags'
    BY Zenon DEF IInv, Shape, Flags
  <1>s. /\ todo' \in Seq(Bufs) /\ prevFull' \in Seq(Bufs)
        /\ outPc' \in {"wait", "send", "write", "free", "notify", "release"}
        /\ outCmd' \subseteq {"NEW_DATA", "RELEASE"}
    <2>1. /\ todo \in Seq(Bufs) /\ prevFull \in Seq(Bufs) /\ << >> \in Seq(Bufs)
          /\ outCmd \subseteq {"NEW_DATA", "RELEASE"}
      BY DEF IInv, Shape, Sorts
    <2>2. CASE outState = "RUNNING" /\ prevFull # << >>
      BY <2>1, <2>2
    <2>3. CASE ~(outState = "RUNNING" /\ prevFull # << >>)
      BY <2>1, <2>3
    <2> QED
      BY <2>2, <2>3
  <1>2. Sorts'
    BY <1>s DEF IInv, Shape, Sorts, Stopped
  <1>3. Tasks' /\ Phases'
    BY DEF IInv, Shape, Tasks, Phases, Stopped
  <1>4. Returning' /\ Apart' /\ Carrying' = Carrying
    BY PutSame DEF IInv, Shape, putVars
  <1>5. ASSUME Exists, outState = "RUNNING" /\ prevFull # << >>
        PROVE  Books'
    <2>1. IndexPlaced' /\ Filled(o2i)' /\ Filled(i2o)' /\ Named'
      BY <1>4, <1>5, IndexSame DEF IInv, Books, indexVars
    <2>2. todo = << >> /\ todo' = prevFull /\ prevFull' = << >>
      BY <1>5 DEF IInv, Shape, Tasks
    <2>3. ASSUME NEW b \in Bufs PROVE BufSomewhere(b)'
      <3>1. PICK n \in 1 .. 5 : \E k, i : BufAt(b, n, k, i)
        BY <1>5 DEF IInv, Books, BufPlaced, BufSomewhere
      <3>2. PICK k, i : BufAt(b, n, k, i)
        BY <3>1
      <3>3. CASE n = 2
        <4>1. BufAt(b, 3, k, i)'
          BY <2>2, <3>2, <3>3, NoneIn DEF BufAt
        <4> QED
          BY <4>1 DEF BufSomewhere
      <3>4. CASE n # 2
        <4>1. n # 3 \/ k \notin Nat
          BY <2>2, <3>2, NoneIn DEF BufAt
        <4>2. BufAt(b, n, k, i)'
          BY <2>2, <3>2, <3>4, <4>1, NoneIn DEF BufAt
        <4> QED
          BY <4>2 DEF BufSomewhere
      <3> QED
        BY <3>3, <3>4
    <2>4. BufPlaced'
      BY <1>5, <2>3 DEF IInv, Books, BufPlaced
    <2>5. FrameIntact'
      BY <1>4, <1>5 DEF IInv, Books, FrameIntact
    <2> QED
      BY <2>1, <2>4, <2>5 DEF Books
  <1>6. ASSUME Exists, ~(outState = "RUNNING" /\ prevFull # << >>)
        PROVE  Books'
    BY <1>4, <1>6, BooksSame DEF IInv, indexVars, bufVars
  <1>7. Exists' => Exists
    BY DEF Exists
  <1> QED
    BY <1>1, <1>2, <1>3, <1>4, <1>5, <1>6, <1>7 DEF IInv, Shape

LEMMA OutDropKept == IInv /\ OutDrop => IInv'
  <1> SUFFICES ASSUME IInv, OutDrop PROVE IInv'
    OBVIOUS
  <1> USE DEF OutDrop, prevVars, shmVars, inVars, nextVars, evVars, ctlVars
  <1>0. todo # << >> /\ todo \in Seq(Bufs) /\ freeList \in Seq(Bufs) /\ Exists /\ Books
    BY DEF IInv, Shape, Tasks, Phases, Stopped, Sorts, Exists
  <1>a. Head(todo) \in Bufs /\ todo' \in Seq(Bufs) /\ freeList' \in Seq(Bufs)
    BY <1>0, FirstIn, LastIn
  <1>1. Flags'
    BY Zenon DEF IInv, Shape, Flags
  <1>2. Sorts'
    BY <1>a DEF IInv, Shape, Sorts, Stopped, After
  <1>3. Tasks' /\ Phases'
    BY DEF IInv, Shape, Tasks, Phases, Stopped, After
  <1>4. Returning' /\ Apart' /\ Carrying' = Carrying
    BY PutSame DEF IInv, Shape, putVars
  <1>6. IndexPlaced' /\ Filled(o2i)' /\ Filled(i2o)' /\ Named'
    BY <1>0, <1>4, IndexSame DEF Books, indexVars
  <1>7. BufPlaced'
    <2>1. ASSUME NEW b \in Bufs PROVE BufSomewhere(b)'
      <3>1. PICK n \in 1 .. 5 : \E k, i : BufAt(b, n, k, i)
        BY <1>0 DEF Books, BufPlaced, BufSomewhere
      <3>2. PICK k, i : BufAt(b, n, k, i)
        BY <3>1
      <3>3. PICK l \in Nat : l = Len(freeList) + 1
        BY <1>0
      <3>4. /\ \A m \in Nat : InSeq(freeList', m, b) <=> (InSeq(freeList, m, b) \/ (m = l /\ b = Head(todo)))
            /\ \A m \in Nat : InSeq(todo', m, b) <=> (m # 0 /\ InSeq(todo, m + 1, b))
            /\ InSeq(todo, 1, Head(todo)) /\ ~InSeq(todo, 0, b)
        BY <1>0, <1>a, <3>3, FirstIn, LastIn
      <3>5. CASE b = Head(todo)
        <4>1. n = 3 /\ k = 1
          BY <3>2, <3>4, <3>5 DEF BufAt
        <4>2. \A m \in Nat : ~InSeq(todo', m, b)
          BY <3>2, <3>4, <4>1 DEF BufAt
        <4>3. \A m \in Nat : InSeq(freeList', m, b) <=> m = l
          BY <3>2, <3>4, <3>5, <4>1 DEF BufAt
        <4>4. BufAt(b, 4, l, i)'
          BY <3>2, <4>1, <4>2, <4>3 DEF BufAt
        <4> QED
          BY <4>4 DEF BufSomewhere
      <3>6. CASE b # Head(todo) /\ n = 3 /\ k \in Nat
        <4>0. k # 0
          BY <3>2, <3>4, <3>6 DEF BufAt
        <4>1. k - 1 \in Nat
          BY <3>6, <4>0
        <4>2. k # 1
          BY <3>2, <3>6, <1>0 DEF BufAt, InSeq
        <4>3. \A m \in Nat : InSeq(todo', m, b) <=> m = k - 1
          BY <3>2, <3>4, <3>6, <4>1, <4>2 DEF BufAt
        <4>4. BufAt(b, 3, k - 1, i)'
          BY <3>2, <3>4, <3>6, <4>3 DEF BufAt
        <4> QED
          BY <4>4 DEF BufSomewhere
      <3>7. CASE b # Head(todo) /\ ~(n = 3 /\ k \in Nat)
        <4>1. \A m \in Nat : ~InSeq(todo, m, b)
          BY <3>2, <3>7 DEF BufAt
        <4>2. BufAt(b, n, k, i)'
          BY <3>2, <3>4, <3>7, <4>1 DEF BufAt
        <4> QED
          BY <4>2 DEF BufSomewhere
      <3> QED
        BY <3>5, <3>6, <3>7
    <2> QED
      BY <1>0, <2>1 DEF Books, BufPlaced
  <1>8. FrameIntact'
    BY <1>0, <1>4 DEF Books, FrameIntact
  <1> QED
    BY <1>1, <1>2, <1>3, <1>4, <1>6, <1>7, <1>8 DEF IInv, Shape, Books

(* The list of dropped or released buffers is handed over.                   *)
LEMMA HandOver ==
  ASSUME Sorts, BufPlaced, prevFree' = prevFree \cup ToSet(freeList), freeList' = << >>,
         UNCHANGED <<prevFull, todo, localQue, shm>>
  PROVE  BufPlaced'
  <1>1. ASSUME NEW b \in Bufs PROVE BufSomewhere(b)'
    <2>1. PICK n \in 1 .. 5 : \E k, i : BufAt(b, n, k, i)
      BY DEF BufPlaced, BufSomewhere
    <2>2. PICK k, i : BufAt(b, n, k, i)
      BY <2>1
    <2>3. b \in ToSet(freeList) <=> (n = 4 /\ k \in Nat)
      BY <2>2, AnyIn DEF BufAt, Sorts
    <2>4. \A m \in Nat : ~InSeq(freeList', m, b)
      BY NoneIn
    <2>5. CASE n = 4 /\ k \in Nat
      <3>1. BufAt(b, 1, k, i)'
        BY <2>2, <2>3, <2>4, <2>5 DEF BufAt
      <3> QED
        BY <3>1 DEF BufSomewhere
    <2>6. CASE ~(n = 4 /\ k \in Nat)
      <3>1. BufAt(b, n, k, i)'
        BY <2>2, <2>3, <2>4, <2>6 DEF BufAt
      <3> QED
        BY <3>1 DEF BufSomewhere
    <2> QED
      BY <2>5, <2>6
  <1> QED
    BY <1>1 DEF BufPlaced

LEMMA OutFreeKept == IInv /\ OutFree => IInv'
  <1> SUFFICES ASSUME IInv, OutFree PROVE IInv'
    OBVIOUS
  <1> USE DEF OutFree, shmVars, inVars, nextVars, evVars, ctlVars
  <1>1. Flags'
    BY Zenon DEF IInv, Shape, Flags
  <1>2. Sorts'
    BY DEF IInv, Shape, Sorts, Stopped, ToSet
  <1>3. Tasks' /\ Phases'
    BY DEF IInv, Shape, Tasks, Phases, Stopped
  <1>4. Returning' /\ Apart' /\ Carrying' = Carrying
    BY PutSame DEF IInv, Shape, putVars
  <1>5. Exists /\ Books
    BY DEF IInv, Shape, Phases, Sorts, Stopped, Exists
  <1>6. IndexPlaced' /\ Filled(o2i)' /\ Filled(i2o)' /\ Named' /\ BufPlaced'
    BY <1>4, <1>5, IndexSame, HandOver DEF IInv, Shape, Books, indexVars
  <1>7. FrameIntact'
    BY <1>4, <1>5 DEF Books, FrameIntact
  <1> QED
    BY <1>1, <1>2, <1>3, <1>4, <1>6, <1>7 DEF IInv, Shape, Books

LEMMA OutReleaseEndKept == IInv /\ OutReleaseEnd => IInv'
  <1> SUFFICES ASSUME IInv, OutReleaseEnd PROVE IInv'
    OBVIOUS
  <1> USE DEF OutReleaseEnd, shmVars, inVars, nextVars, evVars, ctlVars
  <1>1. Flags'
    BY Zenon DEF IInv, Shape, Flags
  <1>2. Sorts'
    BY DEF IInv, Shape, Sorts, Stopped, ToSet
  <1>3. Tasks' /\ Phases'
    BY DEF IInv, Shape, Tasks, Phases, Stopped
  <1>4. Returning' /\ Apart' /\ Carrying' = Carrying
    BY PutSame DEF IInv, Shape, putVars
  <1>5. Exists /\ Books
    BY DEF IInv, Shape, Phases, Sorts, Stopped, Exists
  <1>6. IndexPlaced' /\ Filled(o2i)' /\ Filled(i2o)' /\ Named' /\ BufPlaced'
    BY <1>4, <1>5, IndexSame, HandOver DEF IInv, Shape, Books, indexVars
  <1>7. FrameIntact'
    BY <1>4, <1>5 DEF Books, FrameIntact
  <1> QED
    BY <1>1, <1>2, <1>3, <1>4, <1>6, <1>7 DEF IInv, Shape, Books

-----------------------------------------------------------------------------
(* Steps that move an index.                                                *)

LEMMA OutCopyKept == IInv /\ OutCopy => IInv'
  <1> SUFFICES ASSUME IInv, OutCopy PROVE IInv'
    OBVIOUS
  <1> USE DEF OutCopy, prevVars, inVars, nextVars, evVars, ctlVars
  <1>0. /\ todo # << >> /\ todo \in Seq(Bufs) /\ Exists /\ Books /\ outIdx = NoIdx
        /\ shm \in [Idx -> Bufs \cup {NoBuf}]
    BY DEF IInv, Shape, Tasks, Phases, Stopped, Sorts, Exists
  <1>a. Head(todo) \in Bufs /\ todo' \in Seq(Bufs)
    BY <1>0, FirstIn
  <1>b. PICK x \in Idx : /\ x \in localQue /\ outIdx' = x /\ localQue' = localQue \ {x}
                         /\ shm' = [shm EXCEPT ![x] = Head(todo)]
    BY DEF IInv, Shape, Sorts
  <1>c. NoIdx \notin Idx /\ NoBuf \notin Bufs
    BY IpcLinkAssumption
  <1>1. Flags'
    BY Zenon DEF IInv, Shape, Flags
  <1>2. Sorts'
    <2>1. localQue' \subseteq Idx /\ shm' \in [Idx -> Bufs \cup {NoBuf}]
      BY <1>0, <1>a, <1>b DEF IInv, Shape, Sorts
    <2> QED
      BY <1>a, <1>b, <2>1 DEF IInv, Shape, Sorts, Stopped
  <1>3. Tasks' /\ Phases'
    BY <1>b, <1>c DEF IInv, Shape, Tasks, Phases, Stopped
  <1>4. Returning' /\ Apart' /\ Carrying' = Carrying
    BY PutSame DEF IInv, Shape, putVars
  <1>5. \A i \in Idx : \E n \in 1 .. 6 : \E k, s : At(i, n, k, s)
    BY <1>0 DEF Books, IndexPlaced, Somewhere
  <1>6. IndexPlaced'
    <2>1. ASSUME NEW i \in Idx PROVE Somewhere(i)'
      <3>1. PICK n \in 1 .. 6 : \E k, s : At(i, n, k, s)
        BY <1>5
      <3>2. PICK k, s : At(i, n, k, s)
        BY <3>1
      <3>3. \A t \in SysBufs : Carries(t, i)' = Carries(t, i)
        BY <1>4 DEF Carries
      <3>4. CASE i = x
        <4>1. n = 1
          BY <1>b, <3>2, <3>4 DEF At
        <4>2. At(i, 2, k, s)'
          BY <1>b, <3>2, <3>3, <3>4, <4>1 DEF At
        <4> QED
          BY <4>2 DEF Somewhere
      <3>5. CASE i # x
        <4>1. n # 2
          BY <1>0, <1>c, <3>2 DEF At
        <4>2. At(i, n, k, s)'
          BY <1>b, <3>2, <3>3, <3>5, <4>1 DEF At
        <4> QED
          BY <4>2 DEF Somewhere
      <3> QED
        BY <3>4, <3>5
    <2> QED
      BY <2>1 DEF IndexPlaced
  <1>7. shm[x] = NoBuf
    BY <1>0, <1>b DEF Books, BufPlaced
  <1>8. BufPlaced'
    <2>1. ASSUME NEW b \in Bufs PROVE BufSomewhere(b)'
      <3>1. PICK n \in 1 .. 5 : \E k, i : BufAt(b, n, k, i)
        BY <1>0 DEF Books, BufPlaced, BufSomewhere
      <3>2. PICK k, i : BufAt(b, n, k, i)
        BY <3>1
      <3>3. \A j \in Idx : (shm'[j] = b) <=> (shm[j] = b \/ (j = x /\ b = Head(todo)))
        BY <1>0, <1>b, <1>7, <1>c
      <3>4. /\ \A m \in Nat : InSeq(todo', m, b) <=> (m # 0 /\ InSeq(todo, m + 1, b))
            /\ InSeq(todo, 1, Head(todo)) /\ ~InSeq(todo, 0, b)
        BY <1>0, FirstIn
      <3>5. CASE b = Head(todo)
        <4>1. n = 3 /\ k = 1
          BY <3>2, <3>4, <3>5 DEF BufAt
        <4>2. \A m \in Nat : ~InSeq(todo', m, b)
          BY <3>2, <3>4, <4>1 DEF BufAt
        <4>3. \A j \in Idx : (shm'[j] = b) <=> j = x
          BY <3>2, <3>3, <3>5, <4>1 DEF BufAt
        <4>4. BufAt(b, 5, k, x)'
          BY <3>2, <4>1, <4>2, <4>3 DEF BufAt
        <4> QED
          BY <4>4 DEF BufSomewhere
      <3>6. CASE b # Head(todo) /\ n = 3 /\ k \in Nat
        <4>0. k # 0
          BY <3>2, <3>4, <3>6 DEF BufAt
        <4>1. k - 1 \in Nat
          BY <3>6, <4>0
        <4>2. k # 1
          BY <3>2, <3>6, <1>0 DEF BufAt, InSeq
        <4>3. \A m \in Nat : InSeq(todo', m, b) <=> m = k - 1
          BY <3>2, <3>4, <3>6, <4>1, <4>2 DEF BufAt
        <4>4. BufAt(b, 3, k - 1, i)'
          BY <3>2, <3>3, <3>6, <4>1, <4>3 DEF BufAt
        <4> QED
          BY <4>4 DEF BufSomewhere
      <3>7. CASE b # Head(todo) /\ ~(n = 3 /\ k \in Nat)
        <4>1. \A m \in Nat : ~InSeq(todo, m, b)
          BY <3>2, <3>7 DEF BufAt
        <4>2. BufAt(b, n, k, i)'
          BY <3>2, <3>3, <3>4, <3>7, <4>1 DEF BufAt
        <4> QED
          BY <4>2 DEF BufSomewhere
      <3> QED
        BY <3>5, <3>6, <3>7
    <2>2. \A i \in Idx : (shm'[i] = NoBuf) <=> (i \in localQue')
      BY <1>0, <1>a, <1>b, <1>c DEF Books, BufPlaced
    <2> QED
      BY <2>1, <2>2 DEF BufPlaced
  <1>9. Named' /\ Filled(o2i)' /\ Filled(i2o)'
    BY <1>0, <1>4, <1>b DEF Books, Named, Filled, InUse
  <1>10. FrameIntact'
    <2>1. ASSUME NEW s \in Carrying PROVE sys[s].buf = shm'[sys[s].idx]
      <3>1. sys[s].idx \in Idx /\ Carries(s, sys[s].idx) /\ s \in SysBufs
        BY <1>0, TypeIs DEF Books, Named, Carries, IInv, Shape
      <3>2. sys[s].idx # x
        BY <1>b, <3>1, HeldIdx, <1>0 DEF Books, IInv, Shape
      <3>3. sys[s].buf = shm[sys[s].idx]
        BY <1>0 DEF Books, FrameIntact
      <3> QED
        BY <1>0, <1>b, <3>1, <3>2, <3>3
    <2> QED
      BY <1>4, <2>1 DEF FrameIntact
  <1> QED
    BY <1>1, <1>2, <1>3, <1>4, <1>6, <1>8, <1>9, <1>10 DEF IInv, Shape, Books

LEMMA OutWriteKept == Roomy /\ IInv /\ OutWrite => IInv'
  <1> SUFFICES ASSUME Roomy, IInv, OutWrite PROVE IInv'
    OBVIOUS
  <1> USE DEF prevVars, inVars, nextVars, evVars, ctlVars
  <1>0. /\ Exists /\ Books /\ outIdx \in Idx /\ o2i \in Ring
    BY DEF OutWrite, IInv, Shape, Tasks, Phases, Stopped, Sorts, Exists
  <1>a. /\ o2i' = Published(Stored(o2i, outIdx), N) /\ sent' = TRUE /\ outIdx' = NoIdx
        /\ outPc = "write" /\ outPc' = After(todo)
        /\ UNCHANGED <<freeList, prevVars, outState, outCmd, localQue, todo,
                       i2o, shm, inVars, nextVars, evVars, ctlVars>>
    BY <1>0, NotFull DEF OutWrite
  <1>b. outIdx \notin localQue /\ \A m \in Slots : o2i.slot[m] # outIdx
    BY <1>0, HeldIdx DEF Books, IInv, Shape
  <1>c. (o2i.curWr + 1) % N # o2i.curRd
    BY <1>0, <1>b, Room DEF IInv, Shape
  <1>d. PICK w : w = o2i.curWr
    OBVIOUS
  <1>e. /\ o2i' \in Ring /\ Filled(o2i') /\ o2i.slot[w] = NoIdx /\ w \in Slots
        /\ o2i'.slot = [o2i.slot EXCEPT ![w] = outIdx]
    BY <1>0, <1>a, <1>c, <1>d, RingWrite DEF Books
  <1>f. NoIdx \notin Idx /\ o2i.slot \in [Slots -> Idx \cup {NoIdx}]
    BY <1>0, RingIs, IpcLinkAssumption
  <1>1. Flags'
    BY <1>a, Zenon DEF IInv, Shape, Flags
  <1>2. Sorts'
    BY <1>a, <1>e DEF IInv, Shape, Sorts, Stopped, After
  <1>3. Tasks' /\ Phases'
    BY <1>a DEF IInv, Shape, Tasks, Phases, Stopped, After
  <1>4. Returning' /\ Apart' /\ Carrying' = Carrying
    BY <1>a, PutSame DEF IInv, Shape, putVars
  <1>5. IndexPlaced'
    <2>1. ASSUME NEW i \in Idx PROVE Somewhere(i)'
      <3>1. PICK n \in 1 .. 6 : \E k, s : At(i, n, k, s)
        BY <1>0 DEF Books, IndexPlaced, Somewhere
      <3>2. PICK k, s : At(i, n, k, s)
        BY <3>1
      <3>3. \A t \in SysBufs : Carries(t, i)' = Carries(t, i)
        BY <1>a, <1>4 DEF Carries
      <3>4. \A m \in Slots : (o2i'.slot[m] = i) <=> (o2i.slot[m] = i \/ (m = w /\ i = outIdx))
        BY <1>e, <1>f
      <3>5. CASE i = outIdx
        <4>1. n = 2
          BY <3>2, <3>5 DEF At
        <4>2. At(i, 3, w, s)'
          BY <1>a, <1>e, <1>f, <3>2, <3>3, <3>4, <3>5, <4>1 DEF At
        <4> QED
          BY <4>2 DEF Somewhere
      <3>6. CASE i # outIdx
        <4>1. At(i, n, k, s)'
          BY <1>a, <1>f, <3>2, <3>3, <3>4, <3>6 DEF At
        <4> QED
          BY <4>1 DEF Somewhere
      <3> QED
        BY <3>5, <3>6
    <2> QED
      BY <2>1 DEF IndexPlaced
  <1>6. BufPlaced'
    BY <1>0, <1>a, BufSame DEF Books, bufVars
  <1>7. Named' /\ Filled(o2i)' /\ Filled(i2o)' /\ FrameIntact'
    BY <1>0, <1>4, <1>a, <1>e DEF Books, Named, Filled, InUse, FrameIntact
  <1> QED
    BY <1>1, <1>2, <1>3, <1>4, <1>5, <1>6, <1>7 DEF IInv, Shape, Books

LEMMA OutReleaseOneKept == IInv /\ OutReleaseOne => IInv'
  <1> SUFFICES ASSUME IInv, OutReleaseOne PROVE IInv'
    OBVIOUS
  <1> USE DEF OutReleaseOne, prevVars, inVars, nextVars, evVars, ctlVars
  <1>0. /\ Exists /\ Books /\ i2o \in Ring /\ freeList \in Seq(Bufs)
        /\ shm \in [Idx -> Bufs \cup {NoBuf}] /\ NoIdx \notin Idx /\ NoBuf \notin Bufs
    BY IpcLinkAssumption DEF IInv, Shape, Tasks, Phases, Stopped, Sorts, Exists
  <1>a. PICK w, x : w = i2o.curRd /\ x = Loaded(i2o)
    OBVIOUS
  <1>b. /\ i2o' \in Ring /\ Filled(i2o') /\ x \in Idx /\ w \in Slots /\ i2o.slot[w] = x
        /\ i2o'.slot = [i2o.slot EXCEPT ![w] = NoIdx]
    BY <1>0, <1>a, RingTake DEF Books
  <1>c. i2o.slot \in [Slots -> Idx \cup {NoIdx}]
    BY <1>0, RingIs
  <1>d. PICK n0 \in 1 .. 6 : \E k, s : At(x, n0, k, s)
    BY <1>0, <1>b DEF Books, IndexPlaced, Somewhere
  <1>e. /\ n0 = 6 /\ x \notin localQue /\ \A m \in Slots : i2o.slot[m] = x => m = w
        /\ \A t \in SysBufs : ~Carries(t, x)
    BY <1>b, <1>d DEF At
  <1>f. shm[x] \in Bufs
    BY <1>0, <1>b, <1>e DEF Books, BufPlaced
  <1>g. freeList' \in Seq(Bufs)
    BY <1>0, <1>a, <1>f, LastIn
  <1>h. localQue' = localQue \cup {x} /\ freeList' = Append(freeList, shm[x])
        /\ shm' = [shm EXCEPT ![x] = NoBuf]
    BY <1>a
  <1>1. Flags'
    BY Zenon DEF IInv, Shape, Flags
  <1>2. Sorts'
    <2>1. shm' \in [Idx -> Bufs \cup {NoBuf}] /\ localQue' \subseteq Idx
      BY <1>0, <1>b, <1>h DEF IInv, Shape, Sorts
    <2> QED
      BY <2>1, <1>b, <1>g DEF IInv, Shape, Sorts, Stopped
  <1>3. Tasks' /\ Phases'
    <2>1. ctl # "outCreated"
      BY <1>0, <1>b, CreatedIs DEF IInv, Shape, Phases
    <2> QED
      BY <2>1 DEF IInv, Shape, Tasks, Phases, Stopped
  <1>4. Returning' /\ Apart' /\ Carrying' = Carrying
    BY PutSame DEF IInv, Shape, putVars
  <1>5. IndexPlaced'
    <2>1. ASSUME NEW i \in Idx PROVE Somewhere(i)'
      <3>1. PICK n \in 1 .. 6 : \E k, s : At(i, n, k, s)
        BY <1>0 DEF Books, IndexPlaced, Somewhere
      <3>2. PICK k, s : At(i, n, k, s)
        BY <3>1
      <3>3. \A t \in SysBufs : Carries(t, i)' = Carries(t, i)
        BY <1>4 DEF Carries
      <3>4. \A m \in Slots : (i2o'.slot[m] = i) <=> (i2o.slot[m] = i /\ m # w)
        BY <1>0, <1>b, <1>c
      <3>5. CASE i = x
        <4>1. n = 6 /\ k = w
          BY <1>b, <3>2, <3>5 DEF At
        <4>2. At(i, 1, k, s)'
          BY <1>h, <3>2, <3>3, <3>4, <3>5, <4>1 DEF At
        <4> QED
          BY <4>2 DEF Somewhere
      <3>6. CASE i # x
        <4>1. \A m \in Slots : (i2o'.slot[m] = i) <=> (i2o.slot[m] = i)
          BY <1>b, <3>4, <3>6
        <4>2. At(i, n, k, s)'
          BY <1>h, <3>2, <3>3, <3>6, <4>1 DEF At
        <4> QED
          BY <4>2 DEF Somewhere
      <3> QED
        BY <3>5, <3>6
    <2> QED
      BY <2>1 DEF IndexPlaced
  <1>6. BufPlaced'
    <2>1. ASSUME NEW b \in Bufs PROVE BufSomewhere(b)'
      <3>1. PICK n \in 1 .. 5 : \E k, i : BufAt(b, n, k, i)
        BY <1>0 DEF Books, BufPlaced, BufSomewhere
      <3>2. PICK k, i : BufAt(b, n, k, i)
        BY <3>1
      <3>3. PICK l \in Nat : l = Len(freeList) + 1
        BY <1>0
      <3>4. \A m \in Nat : InSeq(freeList', m, b) <=> (InSeq(freeList, m, b) \/ (m = l /\ b = shm[x]))
        BY <1>0, <1>f, <1>h, <3>3, LastIn
      <3>5. \A j \in Idx : (shm'[j] = b) <=> (shm[j] = b /\ j # x)
        BY <1>0, <1>h
      <3>6. CASE b = shm[x]
        <4>1. n = 5 /\ i = x
          BY <1>b, <3>2, <3>6 DEF BufAt
        <4>2. BufAt(b, 4, l, i)'
          BY <3>2, <3>4, <3>5, <3>6, <4>1 DEF BufAt
        <4> QED
          BY <4>2 DEF BufSomewhere
      <3>7. CASE b # shm[x]
        <4>1. BufAt(b, n, k, i)'
          BY <3>2, <3>4, <3>5, <3>7 DEF BufAt
        <4> QED
          BY <4>1 DEF BufSomewhere
      <3> QED
        BY <3>6, <3>7
    <2>2. \A i \in Idx : (shm'[i] = NoBuf) <=> (i \in localQue')
      BY <1>0, <1>h DEF Books, BufPlaced
    <2> QED
      BY <2>1, <2>2 DEF BufPlaced
  <1>7. Named' /\ Filled(o2i)' /\ Filled(i2o)'
    BY <1>0, <1>4, <1>b DEF Books, Named, Filled, InUse
  <1>8. FrameIntact'
    <2>1. ASSUME NEW s \in Carrying PROVE sys[s].buf = shm'[sys[s].idx]
      <3>1. sys[s].idx \in Idx /\ s \in SysBufs
        BY <1>0, TypeIs DEF Books, Named, IInv, Shape
      <3>2. sys[s].idx # x
        BY <1>e, <3>1 DEF Carries
      <3>3. sys[s].buf = shm[sys[s].idx]
        BY <1>0 DEF Books, FrameIntact
      <3> QED
        BY <1>0, <1>h, <3>1, <3>2, <3>3
    <2> QED
      BY <1>4, <2>1 DEF FrameIntact
  <1> QED
    BY <1>1, <1>2, <1>3, <1>4, <1>5, <1>6, <1>7, <1>8 DEF IInv, Shape, Books

LEMMA InReadKept == IInv /\ InRead => IInv'
  <1> SUFFICES ASSUME IInv, InRead PROVE IInv'
    OBVIOUS
  <1> USE DEF InRead, prevVars, outVars, nextVars, evVars, ctlVars
  <1>0. /\ Exists /\ Books /\ o2i \in Ring /\ NoIdx \notin Idx /\ inIdx = NoIdx
        /\ o2i.slot \in [Slots -> Idx \cup {NoIdx}]
    BY IpcLinkAssumption, TypeIs DEF IInv, Shape, Tasks, Phases, Stopped, Sorts, Exists
  <1>1. Flags'
    BY Zenon DEF IInv, Shape, Flags
  <1>2. Returning' /\ Apart' /\ Carrying' = Carrying
    BY PutSame DEF IInv, Shape, putVars
  <1>3. CASE IsEmpty(o2i, N)
    <2>1. inPc' = "notifyPrev" /\ UNCHANGED <<o2i, inIdx>>
      BY <1>3
    <2>2. Sorts' /\ Tasks' /\ Phases'
      BY <2>1 DEF IInv, Shape, Sorts, Tasks, Phases, Stopped
    <2>3. Books'
      BY <1>0, <1>2, <2>1, BooksSame DEF indexVars, bufVars
    <2> QED
      BY <1>1, <1>2, <2>2, <2>3 DEF IInv, Shape
  <1>4. CASE ~IsEmpty(o2i, N)
    <2>0. PICK w, x : w = o2i.curRd /\ x = Loaded(o2i)
      OBVIOUS
    <2>1. inPc' = "place" /\ inIdx' = x /\ o2i' = Taken(o2i)
      BY <1>4, <2>0
    <2>2. /\ o2i' \in Ring /\ Filled(o2i') /\ x \in Idx /\ w \in Slots /\ o2i.slot[w] = x
          /\ o2i'.slot = [o2i.slot EXCEPT ![w] = NoIdx]
      BY <1>0, <1>4, <2>0, <2>1, RingTake DEF Books
    <2>3. Sorts'
      BY <2>1, <2>2 DEF IInv, Shape, Sorts, Stopped
    <2>4. Tasks' /\ Phases'
      BY <1>0, <2>1, <2>2 DEF IInv, Shape, Tasks, Phases, Stopped
    <2>5. IndexPlaced'
      <3>0. ASSUME NEW i \in Idx PROVE Somewhere(i)'
        <4>1. PICK n \in 1 .. 6 : \E k, s : At(i, n, k, s)
          BY <1>0 DEF Books, IndexPlaced, Somewhere
        <4>2. PICK k, s : At(i, n, k, s)
          BY <4>1
        <4>3. \A t \in SysBufs : Carries(t, i)' = Carries(t, i)
          BY <1>2 DEF Carries
        <4>4. \A m \in Slots : (o2i'.slot[m] = i) <=> (o2i.slot[m] = i /\ m # w)
          BY <1>0, <2>2
        <4>5. CASE i = x
          <5>1. n = 3 /\ k = w
            BY <2>2, <4>2, <4>5 DEF At
          <5>2. At(i, 4, k, s)'
            BY <2>1, <4>2, <4>3, <4>4, <4>5, <5>1 DEF At
          <5> QED
            BY <5>2 DEF Somewhere
        <4>6. CASE i # x
          <5>1. \A m \in Slots : (o2i'.slot[m] = i) <=> (o2i.slot[m] = i)
            BY <2>2, <4>4, <4>6
          <5>2. At(i, n, k, s)'
            BY <1>0, <2>1, <4>2, <4>3, <4>6, <5>1 DEF At
          <5> QED
            BY <5>2 DEF Somewhere
        <4> QED
          BY <4>5, <4>6
      <3> QED
        BY <3>0 DEF IndexPlaced
    <2>6. BufPlaced'
      BY <1>0, BufSame DEF Books, bufVars
    <2>7. Named' /\ Filled(o2i)' /\ Filled(i2o)' /\ FrameIntact'
      BY <1>0, <1>2, <2>2 DEF Books, Named, Filled, InUse, FrameIntact
    <2> QED
      BY <1>1, <1>2, <2>3, <2>4, <2>5, <2>6, <2>7 DEF IInv, Shape, Books
  <1> QED
    BY <1>3, <1>4

LEMMA InPlaceKept == IInv /\ InPlace => IInv'
  <1> SUFFICES ASSUME IInv, InPlace PROVE IInv'
    OBVIOUS
  <1> USE DEF InPlace, prevVars, outVars, shmVars, nextVars, evVars, ctlVars
  <1>0. /\ Exists /\ Books /\ NoIdx \notin Idx /\ inIdx \in Idx /\ fullQue \in Seq(SysBufs)
        /\ shm \in [Idx -> Bufs \cup {NoBuf}] /\ emptyQue \subseteq SysBufs
        /\ sys \in [SysBufs -> [idx : Idx \cup {NoIdx}, buf : Bufs \cup {NoBuf}]]
    BY IpcLinkAssumption, TypeIs DEF IInv, Shape, Tasks, Phases, Stopped, Sorts, Exists
  <1>a. PICK y \in SysBufs : /\ y \in emptyQue
                             /\ sys' = [sys EXCEPT ![y] = [idx |-> inIdx, buf |-> shm[inIdx]]]
                             /\ fullQue' = Append(fullQue, y) /\ emptyQue' = emptyQue \ {y}
    BY <1>0
  <1>b. ToSet(fullQue') = ToSet(fullQue) \cup {y} /\ fullQue' \in Seq(SysBufs)
    BY <1>0, <1>a, LastSet
  <1>c. Carrying' = Carrying \cup {y} /\ y \notin Carrying
    <2>1. y \notin Carrying
      BY <1>a DEF IInv, Shape, Apart
    <2> QED
      BY <1>b, <2>1 DEF Carrying
  <1>1. Flags'
    BY Zenon DEF IInv, Shape, Flags
  <1>2. Sorts'
    <2>1. [idx |-> inIdx, buf |-> shm[inIdx]] \in [idx : Idx \cup {NoIdx}, buf : Bufs \cup {NoBuf}]
      BY <1>0
    <2>2. sys' \in [SysBufs -> [idx : Idx \cup {NoIdx}, buf : Bufs \cup {NoBuf}]]
      BY <1>0, <1>a, <2>1
    <2> QED
      BY <1>a, <1>b, <2>2 DEF IInv, Shape, Sorts, Stopped
  <1>3. Tasks' /\ Phases'
    BY DEF IInv, Shape, Tasks, Phases, Stopped
  <1>4. Returning' /\ Apart'
    <2>1. /\ y \notin held /\ \A c \in Returners : y \notin putList[c] /\ y \notin putDone[c]
      BY <1>a, <1>c DEF IInv, Shape, Apart, Carrying
    <2> QED
      BY <1>a, <1>b, <1>c, <2>1 DEF IInv, Shape, Returning, Apart
  <1>5. IndexPlaced'
    <2>1. ASSUME NEW i \in Idx PROVE Somewhere(i)'
      <3>1. PICK n \in 1 .. 6 : \E k, s : At(i, n, k, s)
        BY <1>0 DEF Books, IndexPlaced, Somewhere
      <3>2. PICK k, s : At(i, n, k, s)
        BY <3>1
      <3>3. \A t \in SysBufs : Carries(t, i)' <=> (Carries(t, i) \/ (t = y /\ i = inIdx))
        BY <1>0, <1>a, <1>c DEF Carries
      <3>5. CASE i = inIdx
        <4>1. n = 4
          BY <3>2, <3>5 DEF At
        <4>2. At(i, 5, k, y)'
          BY <1>0, <3>2, <3>3, <3>5, <4>1 DEF At
        <4> QED
          BY <4>2 DEF Somewhere
      <3>6. CASE i # inIdx
        <4>1. At(i, n, k, s)'
          BY <1>0, <3>2, <3>3, <3>6 DEF At
        <4> QED
          BY <4>1 DEF Somewhere
      <3> QED
        BY <3>5, <3>6
    <2> QED
      BY <2>1 DEF IndexPlaced
  <1>6. BufPlaced'
    BY <1>0, BufSame DEF Books, bufVars
  <1>7. Named' /\ Filled(o2i)' /\ Filled(i2o)' /\ FrameIntact'
    <2>1. Named' /\ FrameIntact'
      BY <1>0, <1>a, <1>c, TypeIs DEF Books, Named, FrameIntact, IInv, Shape
    <2> QED
      BY <1>0, <2>1 DEF Books, Filled, InUse
  <1> QED
    BY <1>1, <1>2, <1>3, <1>4, <1>5, <1>6, <1>7 DEF IInv, Shape, Books

LEMMA InBounceKept == Roomy /\ IInv /\ InBounce => IInv'
  <1> SUFFICES ASSUME Roomy, IInv, InBounce PROVE IInv'
    OBVIOUS
  <1> USE DEF InBounce, prevVars, outVars, nextVars, evVars, ctlVars
  <1>0. /\ Exists /\ Books /\ inIdx \in Idx /\ i2o \in Ring /\ NoIdx \notin Idx
        /\ i2o.slot \in [Slots -> Idx \cup {NoIdx}]
    BY IpcLinkAssumption, TypeIs DEF IInv, Shape, Tasks, Phases, Stopped, Sorts, Exists
  <1>b. inIdx \notin localQue /\ \A m \in Slots : i2o.slot[m] # inIdx
    BY <1>0, HeldIdx DEF Books, IInv, Shape
  <1>c. (i2o.curWr + 1) % N # i2o.curRd
    BY <1>0, <1>b, Room DEF IInv, Shape
  <1>d. PICK w : w = i2o.curWr
    OBVIOUS
  <1>e. /\ i2o' \in Ring /\ Filled(i2o') /\ i2o.slot[w] = NoIdx /\ w \in Slots
        /\ i2o'.slot = [i2o.slot EXCEPT ![w] = inIdx]
    BY <1>0, <1>c, <1>d, RingWrite DEF Books
  <1>1. Flags'
    BY Zenon DEF IInv, Shape, Flags
  <1>2. Sorts'
    BY <1>e DEF IInv, Shape, Sorts, Stopped
  <1>3. Tasks' /\ Phases'
    BY <1>0 DEF IInv, Shape, Tasks, Phases, Stopped
  <1>4. Returning' /\ Apart' /\ Carrying' = Carrying
    BY PutSame DEF IInv, Shape, putVars
  <1>5. IndexPlaced'
    <2>1. ASSUME NEW i \in Idx PROVE Somewhere(i)'
      <3>1. PICK n \in 1 .. 6 : \E k, s : At(i, n, k, s)
        BY <1>0 DEF Books, IndexPlaced, Somewhere
      <3>2. PICK k, s : At(i, n, k, s)
        BY <3>1
      <3>3. \A t \in SysBufs : Carries(t, i)' = Carries(t, i)
        BY <1>4 DEF Carries
      <3>4. \A m \in Slots : (i2o'.slot[m] = i) <=> (i2o.slot[m] = i \/ (m = w /\ i = inIdx))
        BY <1>0, <1>e
      <3>5. CASE i = inIdx
        <4>1. n = 4
          BY <3>2, <3>5 DEF At
        <4>2. At(i, 6, w, s)'
          BY <1>0, <1>e, <3>2, <3>3, <3>4, <3>5, <4>1 DEF At
        <4> QED
          BY <4>2 DEF Somewhere
      <3>6. CASE i # inIdx
        <4>1. At(i, n, k, s)'
          BY <1>0, <3>2, <3>3, <3>4, <3>6 DEF At
        <4> QED
          BY <4>1 DEF Somewhere
      <3> QED
        BY <3>5, <3>6
    <2> QED
      BY <2>1 DEF IndexPlaced
  <1>6. BufPlaced'
    BY <1>0, BufSame DEF Books, bufVars
  <1>7. Named' /\ Filled(o2i)' /\ Filled(i2o)' /\ FrameIntact'
    BY <1>0, <1>4, <1>e DEF Books, Named, Filled, InUse, FrameIntact
  <1> QED
    BY <1>1, <1>2, <1>3, <1>4, <1>5, <1>6, <1>7 DEF IInv, Shape, Books

-----------------------------------------------------------------------------
(* The next link.                                                           *)

(* Frames that change hands without an index or a buffer moving.             *)
LEMMA HandsOnly ==
  ASSUME Books, Exists, Carrying' = Carrying,
         UNCHANGED <<localQue, outIdx, o2i, inIdx, i2o, sys, bufVars>>
  PROVE  Books'
  BY BooksSame DEF indexVars

LEMMA NextGetKept == IInv /\ NextGet => IInv'
  <1> SUFFICES ASSUME IInv, NextGet PROVE IInv'
    OBVIOUS
  <1> USE DEF NextGet, prevVars, outVars, shmVars, evVars, ctlVars
  <1>1. Flags'
    BY Zenon DEF IInv, Shape, Flags
  <1>2. ToSet(fullQue) \subseteq SysBufs /\ ToSet(fullQue') = {}
    BY DEF IInv, Shape, Sorts, ToSet
  <1>3. Sorts'
    BY <1>2 DEF IInv, Shape, Sorts, Stopped
  <1>4. Tasks' /\ Phases'
    BY DEF IInv, Shape, Tasks, Phases, Stopped
  <1>5. Carrying' = Carrying
    BY <1>2 DEF Carrying
  <1>6. Returning' /\ Apart'
    BY <1>2, <1>5 DEF IInv, Shape, Returning, Apart
  <1>7. Books'
    BY <1>5, HandsOnly DEF IInv, Exists, bufVars
  <1> QED
    BY <1>1, <1>3, <1>4, <1>6, <1>7 DEF IInv, Shape

LEMMA PutStartKept ==
  ASSUME NEW c \in Returners, NEW S \in SUBSET held
  PROVE  IInv /\ PutStart(c, S) => IInv'
  <1> SUFFICES ASSUME IInv, PutStart(c, S) PROVE IInv'
    OBVIOUS
  <1> USE DEF PutStart, prevVars, outVars, shmVars, inVars, evVars, ctlVars
  <1>1. Flags'
    BY Zenon DEF IInv, Shape, Flags
  <1>2. /\ putPc \in [Returners -> {"out", "index", "notify", "empty"}]
        /\ putList \in [Returners -> SUBSET SysBufs] /\ held \subseteq SysBufs
    BY DEF IInv, Shape, Sorts
  <1>3. Sorts'
    BY <1>2 DEF IInv, Shape, Sorts, Stopped
  <1>4. Tasks' /\ Phases'
    BY DEF IInv, Shape, Tasks, Phases, Stopped
  <1>5. \A d \in Returners : putPc[d] = "out" /\ putList[d] = {} /\ putDone[d] = {}
    BY DEF Locked, IInv, Shape, Returning
  <1>6. /\ \A d \in Returners : putList'[d] = IF d = c THEN S ELSE {}
        /\ \A d \in Returners : putPc'[d] = IF d = c THEN "index" ELSE "out"
    BY <1>2, <1>5
  <1>7. Carrying' = Carrying
    <2>1. UNION {putList[d] : d \in Returners} = {} /\ UNION {putList'[d] : d \in Returners} = S
      BY <1>5, <1>6
    <2> QED
      BY <2>1 DEF Carrying
  <1>8. Returning' /\ Apart'
    BY <1>5, <1>6, <1>7 DEF IInv, Shape, Returning, Apart
  <1>9. Books'
    BY <1>7, HandsOnly DEF IInv, Exists, bufVars
  <1> QED
    BY <1>1, <1>3, <1>4, <1>8, <1>9 DEF IInv, Shape

LEMMA PutIndexKept ==
  ASSUME NEW c \in Returners
  PROVE  Roomy /\ IInv /\ PutIndex(c) => IInv'
  <1> SUFFICES ASSUME Roomy, IInv, PutIndex(c) PROVE IInv'
    OBVIOUS
  <1> USE DEF PutIndex, prevVars, outVars, inVars, evVars, ctlVars
  <1>0. /\ Exists /\ Books /\ i2o \in Ring /\ NoIdx \notin Idx
        /\ i2o.slot \in [Slots -> Idx \cup {NoIdx}]
        /\ putPc \in [Returners -> {"out", "index", "notify", "empty"}]
        /\ putList \in [Returners -> SUBSET SysBufs] /\ putDone \in [Returners -> SUBSET SysBufs]
    BY IpcLinkAssumption, TypeIs DEF IInv, Shape, Phases, Sorts, Exists
  <1>a. PICK y \in SysBufs :
          /\ y \in putList[c]
          /\ i2o' = Published(Stored(i2o, sys[y].idx), N)
          /\ putList' = [putList EXCEPT ![c] = @ \ {y}]
          /\ putDone' = [putDone EXCEPT ![c] = @ \cup {y}]
          /\ putPc' = [putPc EXCEPT ![c] = IF putList[c] = {y} THEN "notify" ELSE "index"]
    BY <1>0
  <1>b. PICK e : e = sys[y].idx
    OBVIOUS
  <1>c. y \in Carrying /\ e \in Idx /\ Carries(y, e)
    <2>1. y \in Carrying
      BY <1>a DEF Carrying
    <2> QED
      BY <2>1, <1>0, <1>b DEF Books, Named, Carries
  <1>d. e \notin localQue /\ \A m \in Slots : i2o.slot[m] # e
    BY <1>0, <1>c, HeldIdx DEF Books, IInv, Shape
  <1>e. PICK w : w = i2o.curWr /\ (i2o.curWr + 1) % N # i2o.curRd
    BY <1>0, <1>c, <1>d, Room DEF IInv, Shape
  <1>f. /\ i2o' \in Ring /\ Filled(i2o') /\ i2o.slot[w] = NoIdx /\ w \in Slots
        /\ i2o'.slot = [i2o.slot EXCEPT ![w] = e]
    BY <1>0, <1>a, <1>b, <1>c, <1>e, RingWrite DEF Books
  <1>g. /\ \A d \in Returners : putList'[d] = IF d = c THEN putList[c] \ {y} ELSE putList[d]
        /\ \A d \in Returners : putDone'[d] = IF d = c THEN putDone[c] \cup {y} ELSE putDone[d]
        /\ \A d \in Returners : putPc'[d] = IF d # c THEN putPc[d] ELSE
                                            IF putList[c] = {y} THEN "notify" ELSE "index"
    BY <1>0, <1>a
  <1>h. \A d \in Returners : d # c => putPc[d] = "out" /\ putList[d] = {} /\ putDone[d] = {}
    BY DEF IInv, Shape, Returning
  <1>i. Carrying = ToSet(fullQue) \cup held \cup putList[c]
        /\ Carrying' = ToSet(fullQue) \cup held \cup (putList[c] \ {y})
    <2>1. UNION {putList[d] : d \in Returners} = putList[c]
      BY <1>h
    <2>2. UNION {putList'[d] : d \in Returners} = putList[c] \ {y}
      BY <1>g, <1>h
    <2> QED
      BY <2>1, <2>2 DEF Carrying
  <1>j. Carrying' = Carrying \ {y}
    BY <1>a, <1>i DEF IInv, Shape, Apart
  <1>1. Flags'
    BY Zenon DEF IInv, Shape, Flags
  <1>2. Sorts'
    <2>1. putList' \in [Returners -> SUBSET SysBufs] /\ putDone' \in [Returners -> SUBSET SysBufs]
          /\ putPc' \in [Returners -> {"out", "index", "notify", "empty"}]
      BY <1>0, <1>a
    <2> QED
      BY <1>f, <2>1 DEF IInv, Shape, Sorts, Stopped
  <1>3. Tasks' /\ Phases'
    BY DEF IInv, Shape, Tasks, Phases, Stopped
  <1>4. Returning' /\ Apart'
    <2>1. Returning'
      BY <1>g, <1>h DEF Returning
    <2>2. Apart'
      <3>1. y \notin emptyQue
        BY <1>c DEF IInv, Shape, Apart
      <3> QED
        BY <1>g, <1>h, <1>j, <3>1 DEF IInv, Shape, Apart
    <2> QED
      BY <2>1, <2>2
  <1>5. IndexPlaced'
    <2>1. ASSUME NEW i \in Idx PROVE Somewhere(i)'
      <3>1. PICK n \in 1 .. 6 : \E k, s : At(i, n, k, s)
        BY <1>0 DEF Books, IndexPlaced, Somewhere
      <3>2. PICK k, s : At(i, n, k, s)
        BY <3>1
      <3>3. \A t \in SysBufs : Carries(t, i)' <=> (Carries(t, i) /\ t # y)
        BY <1>j DEF Carries
      <3>4. \A m \in Slots : (i2o'.slot[m] = i) <=> (i2o.slot[m] = i \/ (m = w /\ i = e))
        BY <1>0, <1>c, <1>f
      <3>5. CASE i = e
        <4>1. n = 5 /\ s = y
          BY <1>c, <3>2, <3>5 DEF At
        <4>2. At(i, 6, w, s)'
          BY <1>d, <1>f, <3>2, <3>3, <3>4, <3>5, <4>1 DEF At
        <4> QED
          BY <4>2 DEF Somewhere
      <3>6. CASE i # e
        <4>1. ~Carries(y, i)
          BY <1>b, <3>6 DEF Carries
        <4>2. \A t \in SysBufs : Carries(t, i)' <=> Carries(t, i)
          BY <3>3, <4>1
        <4>3. At(i, n, k, s)'
          BY <3>2, <3>4, <3>6, <4>2 DEF At
        <4> QED
          BY <4>3 DEF Somewhere
      <3> QED
        BY <3>5, <3>6
    <2> QED
      BY <2>1 DEF IndexPlaced
  <1>6. BufPlaced'
    BY <1>0, BufSame DEF Books, bufVars
  <1>7. Named' /\ Filled(o2i)' /\ Filled(i2o)' /\ FrameIntact'
    BY <1>0, <1>j, <1>f DEF Books, Named, Filled, InUse, FrameIntact
  <1> QED
    BY <1>1, <1>2, <1>3, <1>4, <1>5, <1>6, <1>7 DEF IInv, Shape, Books

LEMMA PutNotifyKept ==
  ASSUME NEW c \in Returners
  PROVE  IInv /\ PutNotify(c) => IInv'
  <1> SUFFICES ASSUME IInv, PutNotify(c) PROVE IInv'
    OBVIOUS
  <1> USE DEF PutNotify, prevVars, outVars, shmVars, inVars, ctlVars
  <1>1. Flags'
    BY Zenon DEF IInv, Shape, Flags
  <1>2. putPc \in [Returners -> {"out", "index", "notify", "empty"}]
    BY DEF IInv, Shape, Sorts
  <1>3. \A d \in Returners : putPc'[d] = IF d = c THEN "empty" ELSE putPc[d]
    BY <1>2
  <1>4. Sorts'
    BY <1>2 DEF IInv, Shape, Sorts, Stopped
  <1>5. Tasks' /\ Phases'
    BY <1>3 DEF IInv, Shape, Tasks, Phases, Stopped
  <1>6. Carrying' = Carrying
    BY DEF Carrying
  <1>7. Returning' /\ Apart'
    BY <1>3, <1>6 DEF IInv, Shape, Returning, Apart
  <1>8. Exists' => Exists /\ Books'
    BY <1>6, HandsOnly DEF IInv, Exists, bufVars
  <1> QED
    BY <1>1, <1>4, <1>5, <1>7, <1>8 DEF IInv, Shape

LEMMA PutEmptyKept ==
  ASSUME NEW c \in Returners
  PROVE  IInv /\ PutEmpty(c) => IInv'
  <1> SUFFICES ASSUME IInv, PutEmpty(c) PROVE IInv'
    OBVIOUS
  <1> USE DEF PutEmpty, prevVars, outVars, shmVars, evVars, ctlVars
  <1>0. /\ Exists /\ Books
        /\ putPc \in [Returners -> {"out", "index", "notify", "empty"}]
        /\ putDone \in [Returners -> SUBSET SysBufs]
        /\ sys \in [SysBufs -> [idx : Idx \cup {NoIdx}, buf : Bufs \cup {NoBuf}]]
    BY DEF IInv, Shape, Phases, Sorts, Exists
  <1>a. /\ \A d \in Returners : putPc'[d] = IF d = c THEN "out" ELSE putPc[d]
        /\ \A d \in Returners : putDone'[d] = IF d = c THEN {} ELSE putDone[d]
        /\ putDone[c] \subseteq SysBufs /\ putList[c] = {}
    BY <1>0 DEF IInv, Shape, Returning
  <1>b. Carrying' = Carrying
    BY DEF Carrying
  <1>c. \A s \in Carrying : sys'[s] = sys[s] /\ s \in SysBufs
    BY TypeIs DEF IInv, Shape, Apart
  <1>1. Flags'
    BY Zenon DEF IInv, Shape, Flags
  <1>2. Sorts'
    <2>1. sys' \in [SysBufs -> [idx : Idx \cup {NoIdx}, buf : Bufs \cup {NoBuf}]]
      BY <1>0 DEF NoFrame
    <2> QED
      BY <1>0, <1>a, <2>1 DEF IInv, Shape, Sorts, Stopped
  <1>3. Tasks' /\ Phases'
    BY <1>a DEF IInv, Shape, Tasks, Phases, Stopped
  <1>4. Returning' /\ Apart'
    <2>1. \A d \in Returners : d # c => putDone[d] = {}
      BY DEF IInv, Shape, Returning
    <2> QED
      BY <1>a, <1>b, <2>1 DEF IInv, Shape, Returning, Apart
  <1>5. IndexPlaced'
    <2>1. ASSUME NEW i \in Idx PROVE Somewhere(i)'
      <3>1. PICK n \in 1 .. 6 : \E k, s : At(i, n, k, s)
        BY <1>0 DEF Books, IndexPlaced, Somewhere
      <3>2. PICK k, s : At(i, n, k, s)
        BY <3>1
      <3>3. \A t \in SysBufs : Carries(t, i)' <=> Carries(t, i)
        BY <1>b, <1>c DEF Carries
      <3>4. At(i, n, k, s)'
        BY <3>2, <3>3 DEF At
      <3> QED
        BY <3>4 DEF Somewhere
    <2> QED
      BY <2>1 DEF IndexPlaced
  <1>6. BufPlaced'
    BY <1>0, BufSame DEF Books, bufVars
  <1>7. Named' /\ Filled(o2i)' /\ Filled(i2o)' /\ FrameIntact'
    BY <1>0, <1>b, <1>c DEF Books, Named, Filled, InUse, FrameIntact
  <1> QED
    BY <1>1, <1>2, <1>3, <1>4, <1>5, <1>6, <1>7 DEF IInv, Shape, Books

-----------------------------------------------------------------------------
(* The invariant holds.                                                     *)

LEMMA NextIInv == Roomy /\ IInv /\ [Next]_vars => IInv'
  <1> SUFFICES ASSUME Roomy, IInv, [Next]_vars PROVE IInv'
    OBVIOUS
  <1>1. CASE Control
    BY <1>1, CreateOutKept, CreateInKept, StopNextKept, StopInKept, StopOutKept, DeleteInKept,
       DeleteOutKept DEF Control
  <1>2. CASE \E b \in Bufs : PrevProduce(b)
    BY <1>2, PrevProduceKept
  <1>3. CASE Out \/ OutNotifyCb
    BY <1>3, OutNewDataKept, OutDropKept, OutCopyKept, OutWriteKept, OutFreeKept, OutNotifyKept,
       OutReleaseKept, OutReleaseOneKept, OutReleaseEndKept, OutNotifyCbKept DEF Out
  <1>4. CASE In \/ InNotifyCb
    BY <1>4, InNewDataKept, InReadKept, InPlaceKept, InBounceKept, InNotifyPrevKept,
       InNotifyNextKept, InNotifyCbKept DEF In
  <1>5. CASE NextGet
    BY <1>5, NextGetKept
  <1>6. CASE \E c \in Returners, S \in SUBSET held : PutStart(c, S)
    BY <1>6, PutStartKept
  <1>7. CASE PutSteps
    BY <1>7, PutIndexKept, PutNotifyKept, PutEmptyKept DEF PutSteps
  <1>8. CASE UNCHANGED vars
    <2> USE <1>8 DEF vars, prevVars, outVars, shmVars, inVars, nextVars, evVars, ctlVars
    <2>1. Flags'
      BY Zenon DEF IInv, Shape, Flags
    <2>2. Sorts'
      BY DEF IInv, Shape, Sorts
    <2>3. Tasks' /\ Phases'
      BY DEF IInv, Shape, Tasks, Phases
    <2>4. Returning' /\ Apart' /\ Carrying' = Carrying
      BY PutSame DEF IInv, Shape, putVars
    <2>5. Exists' => Exists /\ Books'
      BY <2>4, BooksSame DEF IInv, Exists, indexVars, bufVars
    <2> QED
      BY <2>1, <2>2, <2>3, <2>4, <2>5 DEF IInv, Shape
  <1> QED
    BY <1>1, <1>2, <1>3, <1>4, <1>5, <1>6, <1>7, <1>8 DEF Next

LEMMA IInvHolds ==
  ASSUME Roomy PROVE Spec => []IInv
  <1>1. IInv /\ [Next]_vars => IInv'
    BY NextIInv
  <1> QED
    BY <1>1, InitIInv, PTL DEF Spec

(* Every variable of the two links, the rings and their neighbours has its   *)
(* type in every state: no index is read from a slot that was not written,   *)
(* the queues hold what they are for, and the use case is not created more    *)
(* often than it was stopped.                                               *)
THEOREM TypeCorrect ==
  ASSUME Roomy PROVE Spec => []TypeOK
  <1>1. IInv => TypeOK
    BY TypeParts DEF IInv, Shape
  <1> QED
    BY <1>1, IInvHolds, PTL

(* What IpcInLink_drvProcessIpcOutBuf read from the IPC buffer of a frame is    *)
(* still there for as long as the next link has the frame.                   *)
THEOREM FramesIntact ==
  ASSUME Roomy PROVE Spec => []FrameIntact
  <1>1. IInv => FrameIntact
    BY DEF IInv, Books, FrameIntact
  <1> QED
    BY <1>1, IInvHolds, PTL

-----------------------------------------------------------------------------
(* Counting.  A sequence lists a set when it has each element once and no    *)
(* other.                                                                   *)

Lists(q, S) ==
  /\ q \in Seq(S)
  /\ \A x \in S : \E k \in 1 .. Len(q) : q[k] = x
  /\ \A j, k \in 1 .. Len(q) : q[j] = q[k] => j = k

LEMMA ListsOnce ==
  ASSUME NEW S, NEW q, Lists(q, S)
  PROVE  Once(q, S)
  <1>1. /\ q \in Seq(S) /\ Len(q) \in Nat /\ DOMAIN q = 1 .. Len(q)
        /\ q \in [1 .. Len(q) -> S]
    BY DEF Lists
  <1>2. q \in Bijection(1 .. Len(q), S)
    BY <1>1 DEF Lists, Bijection, Injection, Surjection, IsInjective
  <1>3. IsFiniteSet(1 .. Len(q)) /\ Cardinality(1 .. Len(q)) = Len(q)
    BY <1>1, FS_Interval
  <1>4. Cardinality(S) = Len(q)
    BY <1>2, <1>3, FS_Bijection DEF ExistsBijection
  <1>5. ToSet(q) = S
    BY <1>1 DEF Lists, ToSet
  <1> QED
    BY <1>4, <1>5 DEF Once

LEMMA ListsSet ==
  ASSUME NEW S, IsFiniteSet(S)
  PROVE  Lists(SetToSeq(S), S)
  <1> DEFINE C == 1 .. Cardinality(S)
             f == SetToSeq(S)
  <1>1. Cardinality(S) \in Nat /\ ExistsBijection(C, S) /\ IsFiniteSet(C)
        /\ Cardinality(C) = Cardinality(S)
    BY FS_CardinalityType, FS_Interval
  <1>2. \E g \in [C -> S] : IsInjective(g)
    BY <1>1 DEF ExistsBijection, Bijection, Injection, IsInjective
  <1>3. f \in [C -> S] /\ IsInjective(f)
    BY <1>2 DEF SetToSeq
  <1>4. f \in Injection(C, S)
    BY <1>3 DEF Injection, IsInjective
  <1>5. f \in Surjection(C, S)
    BY <1>1, <1>4, FS_Injection
  <1> HIDE DEF f
  <1>6. f \in Seq(S) /\ Len(f) = Cardinality(S) /\ DOMAIN f = C
    BY <1>1, <1>3
  <1>7. \A x \in S : \E k \in 1 .. Len(f) : f[k] = x
    BY <1>5, <1>6 DEF Surjection
  <1>8. \A j, k \in 1 .. Len(f) : f[j] = f[k] => j = k
    BY <1>3, <1>6 DEF IsInjective
  <1>9. Lists(f, S)
    BY <1>6, <1>7, <1>8 DEF Lists
  <1> QED
    BY <1>9 DEF f

LEMMA ListsCat ==
  ASSUME NEW A, NEW B, NEW p, NEW q, Lists(p, A), Lists(q, B), A \cap B = {}
  PROVE  Lists(p \o q, A \cup B)
  <1>1. /\ p \in Seq(A) /\ q \in Seq(B) /\ Len(p) \in Nat /\ Len(q) \in Nat
        /\ \A k \in 1 .. Len(p) : p[k] \in A /\ \A l \in 1 .. Len(q) : q[l] \in B
    BY DEF Lists
  <1>2. p \in Seq(A \cup B) /\ q \in Seq(A \cup B)
    BY <1>1
  <1>3. p \o q \in Seq(A \cup B) /\ Len(p \o q) = Len(p) + Len(q)
    BY <1>2
  <1>4. \A k \in 1 .. Len(p) + Len(q) :
          (p \o q)[k] = IF k <= Len(p) THEN p[k] ELSE q[k - Len(p)]
    BY <1>2
  <1>5. ASSUME NEW x \in A \cup B
        PROVE  \E k \in 1 .. Len(p) + Len(q) : (p \o q)[k] = x
    <2>1. CASE x \in A
      <3>1. PICK k \in 1 .. Len(p) : p[k] = x
        BY <2>1 DEF Lists
      <3> QED
        BY <1>1, <1>4, <3>1
    <2>2. CASE x \in B
      <3>1. PICK k \in 1 .. Len(q) : q[k] = x
        BY <2>2 DEF Lists
      <3>2. Len(p) + k \in 1 .. Len(p) + Len(q) /\ ~(Len(p) + k <= Len(p)) /\ Len(p) + k - Len(p) = k
        BY <1>1
      <3> QED
        BY <1>4, <3>1, <3>2
    <2> QED
      BY <2>1, <2>2
  <1>6. ASSUME NEW j \in 1 .. Len(p) + Len(q), NEW k \in 1 .. Len(p) + Len(q),
               (p \o q)[j] = (p \o q)[k]
        PROVE  j = k
    <2>1. CASE j <= Len(p) /\ k <= Len(p)
      BY <1>1, <1>4, <1>6, <2>1 DEF Lists
    <2>2. CASE j > Len(p) /\ k > Len(p)
      <3>1. j - Len(p) \in 1 .. Len(q) /\ k - Len(p) \in 1 .. Len(q)
        BY <1>1, <2>2
      <3>2. q[j - Len(p)] = q[k - Len(p)]
        BY <1>1, <1>4, <1>6, <2>2
      <3>3. j - Len(p) = k - Len(p)
        BY <3>1, <3>2 DEF Lists
      <3> QED
        BY <1>1, <3>3
    <2>3. CASE j <= Len(p) /\ k > Len(p)
      <3>1. p[j] \in A /\ q[k - Len(p)] \in B
        BY <1>1, <2>3
      <3> QED
        BY <1>1, <1>4, <1>6, <2>3, <3>1
    <2>4. CASE j > Len(p) /\ k <= Len(p)
      <3>1. p[k] \in A /\ q[j - Len(p)] \in B
        BY <1>1, <2>4
      <3> QED
        BY <1>1, <1>4, <1>6, <2>4, <3>1
    <2> QED
      BY <1>1, <2>1, <2>2, <2>3, <2>4
  <1> QED
    BY <1>3, <1>5, <1>6 DEF Lists

LEMMA ListsWhen ==
  ASSUME NEW x, NEW S, NEW cond \in BOOLEAN, S = IF cond THEN {x} ELSE {}
  PROVE  Lists(When(cond, x), S)
  <1>1. CASE cond
    <2>1. S = {x} /\ When(cond, x) = <<x>>
      BY <1>1 DEF When
    <2>2. <<x>> \in Seq({x}) /\ Len(<<x>>) = 1 /\ <<x>>[1] = x /\ 1 .. 1 = {1}
      OBVIOUS
    <2> QED
      BY <2>1, <2>2 DEF Lists
  <1>2. CASE ~cond
    <2>1. S = {} /\ When(cond, x) = << >>
      BY <1>2 DEF When
    <2>2. << >> \in Seq({}) /\ Len(<< >>) = 0 /\ 1 .. 0 = {}
      OBVIOUS
    <2> QED
      BY <2>1, <2>2 DEF Lists
  <1> QED
    BY <1>1, <1>2

(* The image of a list under a function that tells its elements apart.        *)
LEMMA ListsImage ==
  ASSUME NEW S, NEW q, Lists(q, S), NEW T, NEW f \in [S -> T],
         \A x, y \in S : f[x] = f[y] => x = y,
         \A z \in T : \E x \in S : f[x] = z
  PROVE  Lists([k \in DOMAIN q |-> f[q[k]]], T)
  <1> DEFINE g == [k \in DOMAIN q |-> f[q[k]]]
  <1>1. q \in Seq(S) /\ Len(q) \in Nat /\ DOMAIN q = 1 .. Len(q) /\ \A k \in 1 .. Len(q) : q[k] \in S
    BY DEF Lists
  <1>2. g \in [1 .. Len(q) -> T]
    BY <1>1
  <1>3. g \in Seq(T) /\ Len(g) = Len(q)
    BY <1>1, <1>2
  <1>4. \A k \in 1 .. Len(q) : g[k] = f[q[k]]
    BY <1>1
  <1> HIDE DEF g
  <1>5. ASSUME NEW z \in T PROVE \E k \in 1 .. Len(q) : g[k] = z
    <2>1. PICK x \in S : f[x] = z
      OBVIOUS
    <2>2. PICK k \in 1 .. Len(q) : q[k] = x
      BY DEF Lists
    <2> QED
      BY <1>4, <2>1, <2>2
  <1>6. ASSUME NEW j \in 1 .. Len(q), NEW k \in 1 .. Len(q), g[j] = g[k] PROVE j = k
    <2>1. q[j] = q[k]
      BY <1>1, <1>4, <1>6
    <2> QED
      BY <2>1 DEF Lists
  <1>7. Lists(g, T)
    BY <1>3, <1>5, <1>6 DEF Lists
  <1> QED
    BY <1>7 DEF g

-----------------------------------------------------------------------------
(* What the indices of a ring say it holds.                                  *)

LEMMA ModOnce ==
  ASSUME NEW n \in Nat \ {0}
  PROVE  /\ \A x \in 0 .. 2*n - 1 : x % n = IF x < n THEN x ELSE x - n
         /\ \A x \in -(n-1) .. n-1 : x % n = IF x < 0 THEN x + n ELSE x
  OBVIOUS

InRing(r) == {i \in Idx : \E m \in Slots : r.slot[m] = i}

LEMMA ListsContents ==
  ASSUME NEW r \in Ring, Filled(r),
         \A m, l \in Slots : r.slot[m] = r.slot[l] /\ r.slot[m] # NoIdx => m = l
  PROVE  Lists(Contents(r, N), InRing(r))
  <1>1. /\ r.curRd \in Slots /\ r.curWr \in Slots /\ r.slot \in [Slots -> Idx \cup {NoIdx}]
        /\ NoIdx \notin Idx
    BY RingIs, IpcLinkAssumption
  <1>2. PICK h : h = Held(r, N)
    OBVIOUS
  <1>3. h = IF r.curRd <= r.curWr THEN r.curWr - r.curRd ELSE r.curWr - r.curRd + N
    <2>1. PICK x \in -(N-1) .. N-1 : x = r.curWr - r.curRd
      BY <1>1, NNat DEF Slots
    <2>2. h = x % N
      BY <1>2, <2>1 DEF Held
    <2>3. h = IF x < 0 THEN x + N ELSE x
      BY <2>2, Sizes, ModOnce
    <2> QED
      BY <1>1, <2>1, <2>3, NNat DEF Slots
  <1>4. h \in 0 .. N-1
    BY <1>1, <1>3, NNat DEF Slots
  <1> DEFINE p(k) == IF r.curRd + k - 1 < N THEN r.curRd + k - 1 ELSE r.curRd + k - 1 - N
  <1>5. ASSUME NEW k \in 1 .. h
        PROVE  (r.curRd + k - 1) % N = p(k) /\ p(k) \in Slots /\ InUse(r, p(k))
    <2>1. PICK x \in 0 .. 2*N - 1 : x = r.curRd + k - 1
      BY <1>1, <1>4, NNat DEF Slots
    <2>2. x % N = IF x < N THEN x ELSE x - N
      BY Sizes, ModOnce
    <2>3. p(k) \in Slots /\ InUse(r, p(k))
      BY <1>1, <1>3, <1>4, NNat DEF Slots, InUse
    <2>4. (r.curRd + k - 1) % N = x % N
      BY <2>1
    <2>5. p(k) = IF x < N THEN x ELSE x - N
      BY <1>1, <2>1, NNat DEF Slots
    <2> HIDE DEF p
    <2> QED
      BY <2>2, <2>3, <2>4, <2>5
  <1>6. \A j, k \in 1 .. h : p(j) = p(k) => j = k
    BY <1>1, <1>4, NNat DEF Slots
  <1>7. \A m \in Slots : InUse(r, m) => \E k \in 1 .. h : p(k) = m
    <2> SUFFICES ASSUME NEW m \in Slots, InUse(r, m) PROVE \E k \in 1 .. h : p(k) = m
      OBVIOUS
    <2>1. CASE r.curRd <= m
      <3>1. m - r.curRd + 1 \in 1 .. h /\ p(m - r.curRd + 1) = m
        BY <1>1, <1>3, <2>1, NNat DEF Slots, InUse
      <3> QED
        BY <3>1
    <2>2. CASE m < r.curRd
      <3>1. m < r.curWr /\ r.curWr < r.curRd
        BY <1>1, <2>2, NNat DEF Slots, InUse
      <3>2. PICK k \in Int : k = m - r.curRd + 1 + N
        BY <1>1, NNat DEF Slots
      <3>3. k \in 1 .. h
        BY <1>1, <1>3, <2>2, <3>1, <3>2, NNat DEF Slots
      <3>4. p(k) = m
        BY <1>1, <2>2, <3>2, NNat DEF Slots
      <3> QED
        BY <3>3, <3>4
    <2> QED
      BY <1>1, <2>1, <2>2, NNat DEF Slots
  <1> DEFINE q == [k \in 1 .. h |-> r.slot[p(k)]]
  <1>8. Contents(r, N) = q
    BY <1>2, <1>5 DEF Contents
  <1>9. \A k \in 1 .. h : r.slot[p(k)] \in InRing(r) /\ r.slot[p(k)] # NoIdx
    <2> SUFFICES ASSUME NEW k \in 1 .. h
                 PROVE  r.slot[p(k)] \in InRing(r) /\ r.slot[p(k)] # NoIdx
      OBVIOUS
    <2>1. p(k) \in Slots /\ InUse(r, p(k))
      BY <1>5
    <2> HIDE DEF p
    <2>2. r.slot[p(k)] # NoIdx
      BY <2>1 DEF Filled
    <2> QED
      BY <1>1, <2>1, <2>2 DEF InRing
  <1> HIDE DEF p
  <1>10. q \in Seq(InRing(r)) /\ Len(q) = h
    BY <1>4, <1>9
  <1>11. ASSUME NEW i \in InRing(r) PROVE \E k \in 1 .. h : q[k] = i
    <2>1. PICK m \in Slots : r.slot[m] = i
      BY DEF InRing
    <2>2. InUse(r, m)
      BY <1>1, <2>1 DEF Filled, InRing
    <2>3. PICK k \in 1 .. h : p(k) = m
      BY <1>7, <2>2
    <2> QED
      BY <2>1, <2>3
  <1>12. ASSUME NEW j \in 1 .. h, NEW k \in 1 .. h, q[j] = q[k] PROVE j = k
    <2>1. r.slot[p(j)] = r.slot[p(k)]
      BY <1>12
    <2>2. p(j) = p(k)
      BY <1>5, <1>9, <2>1
    <2> QED
      BY <1>6, <2>2
  <1> HIDE DEF q
  <1>13. Lists(q, InRing(r))
    BY <1>10, <1>11, <1>12 DEF Lists
  <1> QED
    BY <1>8, <1>13

-----------------------------------------------------------------------------
(* The pointwise invariant says what the counts say.                         *)

Written   == IF outPc = "write" THEN {outIdx} ELSE {}
BeingRead == IF inPc = "place" THEN {inIdx} ELSE {}
Carried   == {i \in Idx : \E t \in SysBufs : Carries(t, i)}

LEMMA CarriedListed ==
  ASSUME Shape, Books
  PROVE  Lists(CarriedIdx, Carried)
  <1>1. Carrying \in SUBSET SysBufs /\ IsFiniteSet(Carrying)
    <2>1. Carrying \in SUBSET SysBufs
      BY TypeIs DEF Shape
    <2> QED
      BY <2>1, IpcLinkAssumption, FS_Subset
  <1> DEFINE f == [s \in Carrying |-> sys[s].idx]
             q == SetToSeq(Carrying)
  <1>2. f \in [Carrying -> Carried]
    BY <1>1 DEF Books, Named, Carried, Carries
  <1>3. ASSUME NEW x \in Carrying, NEW y \in Carrying, f[x] = f[y] PROVE x = y
    <2>1. sys[x].idx = sys[y].idx /\ sys[x].idx \in Idx /\ x \in SysBufs /\ y \in SysBufs
      BY <1>1, <1>3 DEF Books, Named
    <2>2. PICK n \in 1 .. 6 : \E k, s : At(sys[x].idx, n, k, s)
      BY <2>1 DEF Books, IndexPlaced, Somewhere
    <2>3. Carries(x, sys[x].idx) /\ Carries(y, sys[x].idx)
      BY <2>1 DEF Carries
    <2> QED
      BY <2>1, <2>2, <2>3 DEF At
  <1>4. \A i \in Carried : \E x \in Carrying : f[x] = i
    BY DEF Carried, Carries
  <1>5. Lists(q, Carrying)
    BY <1>1, ListsSet
  <1>6. CarriedIdx = [k \in DOMAIN q |-> f[q[k]]]
    <2>1. \A k \in DOMAIN q : q[k] \in Carrying
      BY <1>5 DEF Lists
    <2> QED
      BY <2>1 DEF CarriedIdx
  <1> HIDE DEF f, q
  <1> QED
    BY <1>2, <1>3, <1>4, <1>5, <1>6, ListsImage

(* Every index is in one of six sets.                                        *)
LEMMA OnePlace ==
  ASSUME Shape, Books, NEW i \in Idx
  PROVE  \E n \in 1 .. 6 : /\ (i \in localQue) <=> (n = 1)
                           /\ (i \in Written) <=> (n = 2)
                           /\ (i \in InRing(o2i)) <=> (n = 3)
                           /\ (i \in BeingRead) <=> (n = 4)
                           /\ (i \in Carried) <=> (n = 5)
                           /\ (i \in InRing(i2o)) <=> (n = 6)
  <1>1. PICK n \in 1 .. 6 : \E k, s : At(i, n, k, s)
    BY DEF Books, IndexPlaced, Somewhere
  <1>2. PICK k, s : At(i, n, k, s)
    BY <1>1
  <1>3. i \in Written <=> outIdx = i
    BY IpcLinkAssumption DEF Shape, Tasks, Written
  <1>4. i \in BeingRead <=> inIdx = i
    BY IpcLinkAssumption DEF Shape, Tasks, BeingRead
  <1>5. i \in InRing(o2i) <=> n = 3
    BY <1>2 DEF At, InRing
  <1>6. i \in Carried <=> n = 5
    BY <1>2 DEF At, Carried
  <1>7. i \in InRing(i2o) <=> n = 6
    BY <1>2 DEF At, InRing
  <1>8. i \in localQue <=> n = 1
    BY <1>2 DEF At
  <1>9. outIdx = i <=> n = 2
    BY <1>2 DEF At
  <1>10. inIdx = i <=> n = 4
    BY <1>2 DEF At
  <1> QED
    BY <1>3, <1>4, <1>5, <1>6, <1>7, <1>8, <1>9, <1>10

LEMMA AwayListed ==
  ASSUME Shape, Books
  PROVE  Lists(Away, Idx \ localQue)
  <1>0. o2i \in Ring /\ i2o \in Ring /\ Filled(o2i) /\ Filled(i2o)
    BY TypeIs DEF Shape, Books
  <1>1. Lists(When(outPc = "write", outIdx), Written)
    BY ListsWhen DEF Written
  <1>2. Lists(When(inPc = "place", inIdx), BeingRead)
    BY ListsWhen DEF BeingRead
  <1>3. Lists(Contents(o2i, N), InRing(o2i)) /\ Lists(Contents(i2o, N), InRing(i2o))
    BY <1>0, OneSlot, ListsContents DEF Shape, Books
  <1>4. Written \subseteq Idx /\ BeingRead \subseteq Idx
    BY IpcLinkAssumption DEF Shape, Tasks, Sorts, Written, BeingRead
  <1>5. InRing(o2i) \subseteq Idx /\ InRing(i2o) \subseteq Idx /\ Carried \subseteq Idx
    BY DEF InRing, Carried
  <1> DEFINE A == Written \cup InRing(o2i)
             B == A \cup BeingRead
             C == B \cup Carried
  <1>6. /\ Written \cap InRing(o2i) = {} /\ A \cap BeingRead = {} /\ B \cap Carried = {}
        /\ C \cap InRing(i2o) = {} /\ C \cup InRing(i2o) = Idx \ localQue
    BY <1>4, <1>5, OnePlace
  <1> DEFINE p == When(outPc = "write", outIdx) \o Contents(o2i, N)
             q == p \o When(inPc = "place", inIdx)
             r == q \o CarriedIdx
  <1>7. Lists(p, A)
    BY <1>1, <1>3, <1>6, ListsCat
  <1> HIDE DEF A, p
  <1>8. Lists(q, B)
    BY <1>2, <1>6, <1>7, ListsCat
  <1> HIDE DEF B, q
  <1>9. Lists(r, C)
    BY <1>6, <1>8, CarriedListed, ListsCat
  <1> HIDE DEF C, r
  <1>10. Lists(r \o Contents(i2o, N), C \cup InRing(i2o))
    BY <1>3, <1>6, <1>9, ListsCat
  <1>11. Away = r \o Contents(i2o, N)
    BY DEF Away, p, q, r
  <1> QED
    BY <1>6, <1>10, <1>11

LEMMA PoolListed ==
  ASSUME Shape, Books
  PROVE  Lists(SetToSeq(localQue) \o Away, Idx)
  <1>1. localQue \in SUBSET Idx /\ IsFiniteSet(localQue)
    BY IpcLinkAssumption, FS_Subset DEF Shape, Sorts
  <1>2. Lists(SetToSeq(localQue), localQue)
    BY <1>1, ListsSet
  <1>3. localQue \cap (Idx \ localQue) = {} /\ localQue \cup (Idx \ localQue) = Idx
    BY <1>1
  <1>4. Lists(SetToSeq(localQue) \o Away, localQue \cup (Idx \ localQue))
    BY <1>2, <1>3, AwayListed, ListsCat
  <1> QED
    BY <1>3, <1>4

(* Every index of the pool is in exactly one place (one element of the pool,  *)
(* of a ring, of a task's hand, or one frame of the next link), through any   *)
(* sequence of sends, bounces, returns, releases, deletions and creations.    *)
THEOREM IndicesConserved ==
  ASSUME Roomy PROVE Spec => []IndexConserved
  <1>1. IInv => IndexConserved
    BY PoolListed, ListsOnce DEF IInv, IndexConserved
  <1> QED
    BY <1>1, IInvHolds, PTL

-----------------------------------------------------------------------------
(* The same for the buffers of the previous link.                            *)

In1(q) == {b \in Bufs : \E m \in Nat : InSeq(q, m, b)}
Filling == {b \in Bufs : \E i \in Idx : shm[i] = b}

LEMMA ListsQueue ==
  ASSUME NEW q \in Seq(Bufs),
         \A b \in Bufs, m, l \in Nat : InSeq(q, m, b) /\ InSeq(q, l, b) => m = l
  PROVE  Lists(q, In1(q))
  <1>1. Len(q) \in Nat /\ DOMAIN q = 1 .. Len(q) /\ \A k \in 1 .. Len(q) : q[k] \in Bufs
    OBVIOUS
  <1>2. \A k \in 1 .. Len(q) : q[k] \in In1(q) /\ InSeq(q, k, q[k])
    BY <1>1 DEF In1, InSeq
  <1>3. q \in Seq(In1(q))
    <2>1. q \in [1 .. Len(q) -> In1(q)]
      BY <1>1, <1>2
    <2> QED
      BY <1>1, <2>1
  <1>4. \A b \in In1(q) : \E k \in 1 .. Len(q) : q[k] = b
    BY <1>1 DEF In1, InSeq
  <1>5. \A j, k \in 1 .. Len(q) : q[j] = q[k] => j = k
    BY <1>1, <1>2
  <1> QED
    BY <1>3, <1>4, <1>5 DEF Lists

LEMMA OneBufPlace ==
  ASSUME Shape, Books, NEW b \in Bufs
  PROVE  /\ \E n \in 1 .. 5 : /\ (b \in prevFree) <=> (n = 1)
                              /\ (b \in In1(prevFull)) <=> (n = 2)
                              /\ (b \in In1(todo)) <=> (n = 3)
                              /\ (b \in In1(freeList)) <=> (n = 4)
                              /\ (b \in Filling) <=> (n = 5)
         /\ \A m, l \in Nat : InSeq(prevFull, m, b) /\ InSeq(prevFull, l, b) => m = l
         /\ \A m, l \in Nat : InSeq(todo, m, b) /\ InSeq(todo, l, b) => m = l
         /\ \A m, l \in Nat : InSeq(freeList, m, b) /\ InSeq(freeList, l, b) => m = l
  <1>1. PICK n \in 1 .. 5 : \E k, i : BufAt(b, n, k, i)
    BY DEF Books, BufPlaced, BufSomewhere
  <1>2. PICK k, i : BufAt(b, n, k, i)
    BY <1>1
  <1>3. b \in prevFree <=> n = 1
    BY <1>2 DEF BufAt
  <1>4. b \in In1(prevFull) <=> n = 2
    BY <1>2 DEF BufAt, In1
  <1>5. b \in In1(todo) <=> n = 3
    BY <1>2 DEF BufAt, In1
  <1>6. b \in In1(freeList) <=> n = 4
    BY <1>2 DEF BufAt, In1
  <1>7. b \in Filling <=> n = 5
    BY <1>2 DEF BufAt, Filling
  <1>8. /\ \A m, l \in Nat : InSeq(prevFull, m, b) /\ InSeq(prevFull, l, b) => m = l
        /\ \A m, l \in Nat : InSeq(todo, m, b) /\ InSeq(todo, l, b) => m = l
        /\ \A m, l \in Nat : InSeq(freeList, m, b) /\ InSeq(freeList, l, b) => m = l
    BY <1>2 DEF BufAt
  <1> QED
    BY <1>3, <1>4, <1>5, <1>6, <1>7, <1>8

LEMMA FillingListed ==
  ASSUME Shape, Books
  PROVE  Lists([k \in DOMAIN Away |-> shm[Away[k]]], Filling)
  <1> DEFINE S == Idx \ localQue
             f == [i \in S |-> shm[i]]
  <1>0. shm \in [Idx -> Bufs \cup {NoBuf}] /\ NoBuf \notin Bufs
    BY TypeIs DEF Shape
  <1>1. f \in [S -> Filling]
    BY <1>0 DEF Books, BufPlaced, Filling
  <1>2. \A x, y \in S : f[x] = f[y] => x = y
    BY <1>0, OneFrame DEF Shape, Books, BufPlaced
  <1>3. \A b \in Filling : \E x \in S : f[x] = b
    BY <1>0 DEF Books, BufPlaced, Filling
  <1>4. Lists(Away, S)
    BY AwayListed
  <1>5. [k \in DOMAIN Away |-> shm[Away[k]]] = [k \in DOMAIN Away |-> f[Away[k]]]
    <2>1. \A k \in DOMAIN Away : Away[k] \in S
      BY <1>4 DEF Lists
    <2> QED
      BY <2>1
  <1> HIDE DEF f, S
  <1> QED
    BY <1>1, <1>2, <1>3, <1>4, <1>5, ListsImage

LEMMA BufsListed ==
  ASSUME Shape, Books
  PROVE  Lists(SetToSeq(prevFree) \o prevFull \o todo \o freeList
                 \o [k \in DOMAIN Away |-> shm[Away[k]]], Bufs)
  <1>0. /\ prevFree \in SUBSET Bufs /\ IsFiniteSet(prevFree)
        /\ prevFull \in Seq(Bufs) /\ todo \in Seq(Bufs) /\ freeList \in Seq(Bufs)
    BY IpcLinkAssumption, FS_Subset DEF Shape, Sorts
  <1>1. Lists(SetToSeq(prevFree), prevFree)
    BY <1>0, ListsSet
  <1>2. Lists(prevFull, In1(prevFull)) /\ Lists(todo, In1(todo)) /\ Lists(freeList, In1(freeList))
    BY <1>0, ListsQueue, OneBufPlace
  <1> DEFINE A == prevFree \cup In1(prevFull)
             B == A \cup In1(todo)
             C == B \cup In1(freeList)
  <1>3. \A q : In1(q) \subseteq Bufs
    BY DEF In1
  <1>4. Filling \subseteq Bufs
    BY DEF Filling
  <1>5. /\ prevFree \cap In1(prevFull) = {} /\ A \cap In1(todo) = {}
        /\ B \cap In1(freeList) = {} /\ C \cap Filling = {} /\ C \cup Filling = Bufs
    BY <1>0, <1>3, <1>4, OneBufPlace
  <1> DEFINE p == SetToSeq(prevFree) \o prevFull
             q == p \o todo
             r == q \o freeList
  <1>6. Lists(p, A)
    BY <1>1, <1>2, <1>5, ListsCat
  <1> HIDE DEF A, p
  <1>7. Lists(q, B)
    BY <1>2, <1>5, <1>6, ListsCat
  <1> HIDE DEF B, q
  <1>8. Lists(r, C)
    BY <1>2, <1>5, <1>7, ListsCat
  <1> HIDE DEF C, r
  <1>9. Lists(r \o [k \in DOMAIN Away |-> shm[Away[k]]], C \cup Filling)
    BY <1>5, <1>8, FillingListed, ListsCat
  <1> QED
    BY <1>5, <1>9 DEF p, q, r

(* Every buffer of the previous link is in exactly one place: it is not given *)
(* back while a frame on the other CPU uses it, not twice, and not forgotten.  *)
THEOREM BuffersConserved ==
  ASSUME Roomy PROVE Spec => []BufferConserved
  <1>1. IInv => BufferConserved
    BY BufsListed, ListsOnce DEF IInv, BufferConserved
  <1> QED
    BY <1>1, IInvHolds, PTL

-----------------------------------------------------------------------------
(* Nothing is forgotten.  One event stands for any number of indices, it is    *)
(* dropped when the ring is empty by the time it is taken, and one command in *)
(* a mailbox stands for any number of events: yet whoever has a ring to empty *)
(* or a queue to fetch has been told, or somebody is about to tell it.       *)
InTold  == evIn \/ inCmd \/ inPc \in {"read", "place"} \/ sent \/ outPc = "notify"
OutTold == \/ evOut \/ "RELEASE" \in outCmd \/ outPc = "release" \/ bounced
           \/ \E c \in Returners : putPc[c] \in {"index", "notify"}
Told ==
  /\ sent => outPc \in {"send", "write", "free"}
  /\ bounced => inPc \in {"read", "place", "notifyPrev"}
  /\ delivered => inPc # "wait"
  /\ ctl \in {"outCreated", "running"} => outState = "RUNNING"
  /\ ctl = "running" =>
       /\ inState = "RUNNING"
       /\ prevFull # << >> => "NEW_DATA" \in outCmd
       /\ ~IsEmpty(o2i, N) => InTold
       /\ ~IsEmpty(i2o, N) => OutTold
       /\ fullQue # << >> => nextCmd \/ delivered

(* The index i is on its way: somebody has it and is about to go on with it,   *)
(* or was told of the ring or of the queue it is in.                         *)
Travels(i) ==
  \/ outIdx = i /\ outPc = "write"
  \/ (\E k \in Slots : o2i.slot[k] = i) /\ InTold
  \/ inIdx = i /\ inPc = "place"
  \/ \E s \in SysBufs :
       sys[s].idx = i /\ \/ s \in ToSet(fullQue) /\ (nextCmd \/ delivered)
                         \/ s \in held
                         \/ \E c \in Returners : s \in putList[c] /\ putPc[c] = "index"
  \/ (\E k \in Slots : i2o.slot[k] = i) /\ OutTold

(* Somebody has the buffer b, or the frame copied from it is on its way.      *)
Moving(b) ==
  \/ b \in ToSet(prevFull) /\ "NEW_DATA" \in outCmd
  \/ b \in ToSet(todo) /\ outPc \in {"send", "write"}
  \/ b \in ToSet(freeList) /\ outPc \in {"send", "write", "free", "release"}
  \/ \E i \in Idx : shm[i] = b /\ Travels(i)

(* While the use case runs, a buffer is back or on its way.                  *)
Awaited == ctl = "running" => \A b \in Bufs : b \in prevFree \/ Moving(b)

(* An empty ring is one whose indices meet.                                 *)
LEMMA RingEmpty == \A r \in Ring : IsEmpty(r, N) <=> r.curRd = r.curWr
  BY Sizes DEF Ring, RingOf, IsEmpty

LEMMA ControlTold == ASSUME IInv, Told, Control PROVE Told'
  <1> USE DEF Told, InTold, OutTold, Step
  <1>1. CASE CreateOut
    BY <1>1 DEF CreateOut, inVars
  <1>2. CASE CreateIn
    <2>1. o2i' = CreatedRing(N, NoIdx) /\ i2o' = CreatedRing(N, NoIdx) /\ prevFull = << >>
      BY <1>2, CreatedIs DEF CreateIn, IInv, Shape, Phases
    <2>2. IsEmpty(o2i', N) /\ IsEmpty(i2o', N)
      BY <2>1, CreatedIs, RingEmpty
    <2>3. /\ ctl = "outCreated" /\ ctl' = "running" /\ inState' = "RUNNING" /\ fullQue' = << >>
          /\ UNCHANGED <<prevFull, outState, outPc, sent, inPc, bounced, delivered>>
      BY <1>2 DEF CreateIn, prevVars, outVars
    <2> QED
      BY <2>1, <2>2, <2>3
  <1>3. CASE StopNext \/ StopIn \/ DeleteIn
    BY <1>3 DEF StopNext, StopIn, DeleteIn, outVars, inVars
  <1>4. CASE StopOut \/ DeleteOut
    BY <1>4 DEF StopOut, DeleteOut, inVars
  <1> QED
    BY <1>1, <1>2, <1>3, <1>4 DEF Control

LEMMA OutTaskTold == ASSUME IInv, Told, Out \/ OutNotifyCb PROVE Told'
  <1> USE DEF Told, InTold, OutTold
  <1>0. UNCHANGED <<inVars, nextVars, ctlVars>>
    BY DEF Out, OutNewData, OutDrop, OutCopy, OutWrite, OutFree, OutNotify, OutRelease,
           OutReleaseOne, OutReleaseEnd, OutNotifyCb
  <1>1. CASE OutNewData
    BY <1>0, <1>1 DEF OutNewData, shmVars, evVars, inVars, nextVars, ctlVars
  <1>2. CASE OutDrop
    BY <1>0, <1>2 DEF OutDrop, After, prevVars, shmVars, evVars, inVars, nextVars, ctlVars
  <1>3. CASE OutCopy
    BY <1>0, <1>3 DEF OutCopy, prevVars, evVars, inVars, nextVars, ctlVars
  <1>4. CASE OutWrite
    <2>1. ~IsFull(o2i, N)
      BY NotFull DEF IInv, Shape, Sorts
    <2>2. sent' = TRUE /\ outPc' \in {"send", "free"}
          /\ UNCHANGED <<prevFull, outState, outCmd, i2o, evOut, evIn>>
      BY <1>4, <2>1 DEF OutWrite, After, prevVars, evVars
    <2> QED
      BY <1>0, <1>4, <2>2 DEF OutWrite, inVars, nextVars, ctlVars
  <1>5. CASE OutFree
    BY <1>0, <1>5 DEF OutFree, shmVars, evVars, inVars, nextVars, ctlVars
  <1>6. CASE OutNotify
    BY <1>0, <1>6 DEF OutNotify, prevVars, shmVars, inVars, nextVars, ctlVars
  <1>7. CASE OutRelease
    BY <1>0, <1>7 DEF OutRelease, prevVars, shmVars, evVars, inVars, nextVars, ctlVars
  <1>8. CASE OutReleaseOne
    BY <1>0, <1>8 DEF OutReleaseOne, prevVars, evVars, inVars, nextVars, ctlVars
  <1>9. CASE OutReleaseEnd
    BY <1>0, <1>9 DEF OutReleaseEnd, shmVars, evVars, inVars, nextVars, ctlVars
  <1>10. CASE OutNotifyCb
    BY <1>0, <1>10 DEF OutNotifyCb, prevVars, shmVars, inVars, nextVars, ctlVars
  <1> QED
    BY <1>1, <1>2, <1>3, <1>4, <1>5, <1>6, <1>7, <1>8, <1>9, <1>10 DEF Out

LEMMA InTaskTold == ASSUME IInv, Told, In \/ InNotifyCb PROVE Told'
  <1> USE DEF Told, InTold, OutTold
  <1>0. UNCHANGED <<prevVars, outVars, inState, held, putPc, ctl>>
    BY DEF In, InNewData, InRead, InPlace, InBounce, InNotifyPrev, InNotifyNext, InNotifyCb,
           nextVars, ctlVars
  <1>1. CASE InNewData
    BY <1>0, <1>1 DEF InNewData, prevVars, outVars, shmVars, nextVars, evVars
  <1>2. CASE InRead
    BY <1>0, <1>2 DEF InRead, prevVars, outVars, nextVars, evVars
  <1>3. CASE InPlace
    BY <1>0, <1>3 DEF InPlace, prevVars, outVars, shmVars, nextVars, evVars
  <1>4. CASE InBounce
    BY <1>0, <1>4 DEF InBounce, prevVars, outVars, nextVars, evVars
  <1>5. CASE InNotifyPrev
    BY <1>0, <1>5 DEF InNotifyPrev, prevVars, outVars, shmVars, nextVars
  <1>6. CASE InNotifyNext
    <2>1. /\ nextCmd' = (nextCmd \/ delivered) /\ delivered' = FALSE
          /\ inPc = "notifyNext" /\ inPc' = "wait" /\ bounced' = bounced
          /\ UNCHANGED <<prevFull, outState, outPc, outCmd, sent, o2i, i2o, inCmd, evOut, evIn>>
          /\ fullQue' = fullQue
      BY <1>0, <1>6 DEF InNotifyNext, prevVars, outVars, shmVars, evVars
    <2>2. nextCmd' <=> (nextCmd \/ delivered)
      BY <2>1, Zenon
    <2>3. ~delivered'
      BY <2>1
    <2> QED
      BY <1>0, <2>1, <2>2, <2>3
  <1>7. CASE InNotifyCb
    <2>1. /\ inCmd' = (inCmd \/ ~IsEmpty(o2i, N)) /\ UNCHANGED <<o2i, i2o, evOut, inPc, nextCmd>>
          /\ UNCHANGED <<prevFull, outState, outPc, outCmd, sent, bounced, delivered, fullQue>>
      BY <1>0, <1>7 DEF InNotifyCb, prevVars, outVars, shmVars, nextVars
    <2>2. inCmd' <=> (inCmd \/ ~IsEmpty(o2i, N))
      BY <2>1, Zenon
    <2> QED
      BY <1>0, <2>1, <2>2
  <1> QED
    BY <1>1, <1>2, <1>3, <1>4, <1>5, <1>6, <1>7 DEF In

LEMMA NeighboursTold ==
  ASSUME IInv, Told,
         \/ \E b \in Bufs : PrevProduce(b)
         \/ NextGet
         \/ \E c \in Returners, S \in SUBSET held : PutStart(c, S)
         \/ PutSteps
         \/ UNCHANGED vars
  PROVE  Told'
  <1> USE DEF Told, InTold, OutTold
  <1>0. putPc \in [Returners -> {"out", "index", "notify", "empty"}]
    BY DEF IInv, Shape, Sorts
  <1>1. ASSUME NEW b \in Bufs, PrevProduce(b) PROVE Told'
    BY <1>1 DEF PrevProduce, shmVars, inVars, nextVars, evVars, ctlVars
  <1>2. CASE NextGet
    BY <1>2 DEF NextGet, prevVars, outVars, shmVars, evVars, ctlVars
  <1>3. ASSUME NEW c \in Returners, NEW S \in SUBSET held, PutStart(c, S) PROVE Told'
    <2>1. \A d \in Returners : putPc[d] = "out"
      BY <1>3 DEF PutStart, Locked
    <2>2. UNCHANGED <<prevVars, outVars, shmVars, inVars, nextCmd, evVars, ctl>>
      BY <1>3 DEF PutStart, ctlVars
    <2> QED
      BY <2>1, <2>2 DEF prevVars, outVars, shmVars, inVars, evVars
  <1>4. ASSUME NEW c \in Returners, PutIndex(c) PROVE Told'
    <2>1. putPc'[c] \in {"index", "notify"}
      BY <1>0, <1>4 DEF PutIndex
    <2>2. UNCHANGED <<prevVars, outVars, o2i, shm, inVars, nextCmd, evVars, ctl>>
      BY <1>4 DEF PutIndex, ctlVars
    <2> QED
      BY <2>1, <2>2 DEF prevVars, outVars, inVars, evVars
  <1>5. ASSUME NEW c \in Returners, PutNotify(c) PROVE Told'
    BY <1>5 DEF PutNotify, prevVars, outVars, shmVars, inVars, ctlVars
  <1>6. ASSUME NEW c \in Returners, PutEmpty(c) PROVE Told'
    <2>1. \A d \in Returners : putPc[d] \in {"index", "notify"} => putPc'[d] = putPc[d]
      BY <1>0, <1>6 DEF PutEmpty
    <2>2. /\ UNCHANGED <<prevVars, outVars, shmVars, inState, inPc, inCmd, inIdx, bounced>>
          /\ UNCHANGED <<delivered, fullQue, nextCmd, evVars, ctl>>
      BY <1>6 DEF PutEmpty, ctlVars
    <2> QED
      BY <2>1, <2>2 DEF prevVars, outVars, shmVars, evVars
  <1>7. CASE UNCHANGED vars
    BY <1>7 DEF vars, prevVars, outVars, shmVars, inVars, nextVars, evVars, ctlVars
  <1> QED
    BY <1>1, <1>2, <1>3, <1>4, <1>5, <1>6, <1>7 DEF PutSteps

LEMMA ToldKept == ASSUME IInv, Told, [Next]_vars PROVE Told'
  BY ControlTold, OutTaskTold, InTaskTold, NeighboursTold DEF Next

(* A ring with an index in a slot is not empty.                              *)
LEMMA SlotHeld ==
  ASSUME NEW r \in Ring, Filled(r), NEW k \in Slots, NEW i \in Idx, r.slot[k] = i
  PROVE  ~IsEmpty(r, N)
  <1>1. i # NoIdx
    BY IpcLinkAssumption
  <1>2. InUse(r, k) /\ r.curRd \in Int /\ r.curWr \in Int /\ k \in Int
    BY <1>1, RingIs DEF Filled, Slots
  <1>3. r.curRd # r.curWr
    BY <1>2 DEF InUse
  <1> QED
    BY <1>3, RingEmpty

LEMMA IndexTravels ==
  ASSUME IInv, Told, ctl = "running", NEW i \in Idx, i \notin localQue
  PROVE  Travels(i)
  <1>1. /\ Sorts /\ Tasks /\ Returning /\ IndexPlaced /\ Filled(o2i) /\ Filled(i2o)
        /\ o2i \in Ring /\ i2o \in Ring /\ NoIdx \notin Idx
    BY IpcLinkAssumption DEF IInv, Shape, Books, Exists, Sorts
  <1>2. PICK n \in 1 .. 6 : \E k, s : At(i, n, k, s)
    BY <1>1 DEF IndexPlaced, Somewhere
  <1>3. PICK k, s : At(i, n, k, s)
    BY <1>2
  <1>4. n \in {2, 3, 4, 5, 6}
    BY <1>3 DEF At
  <1>5. CASE n = 2
    BY <1>1, <1>3, <1>5 DEF At, Tasks, Travels
  <1>6. CASE n = 3
    <2>1. k \in Slots /\ o2i.slot[k] = i
      BY <1>3, <1>6 DEF At
    <2>2. InTold
      BY <1>1, <2>1, SlotHeld DEF Told
    <2> QED
      BY <2>1, <2>2 DEF Travels
  <1>7. CASE n = 4
    BY <1>1, <1>3, <1>7 DEF At, Tasks, Travels
  <1>8. CASE n = 5
    <2>1. s \in SysBufs /\ Carries(s, i)
      BY <1>3, <1>8 DEF At
    <2>2. sys[s].idx = i /\ s \in ToSet(fullQue) \cup held \cup UNION {putList[c] : c \in Returners}
      BY <2>1 DEF Carries, Carrying
    <2>3. CASE s \in ToSet(fullQue)
      <3>1. fullQue # << >>
        BY <2>3 DEF ToSet
      <3> QED
        BY <2>1, <2>2, <2>3, <3>1 DEF Told, Travels
    <2>4. CASE s \in held
      BY <2>1, <2>2, <2>4 DEF Travels
    <2>5. ASSUME NEW c \in Returners, s \in putList[c] PROVE Travels(i)
      BY <1>1, <2>1, <2>2, <2>5 DEF Returning, Travels
    <2> QED
      BY <2>2, <2>3, <2>4, <2>5
  <1>9. CASE n = 6
    <2>1. k \in Slots /\ i2o.slot[k] = i
      BY <1>3, <1>9 DEF At
    <2>2. OutTold
      BY <1>1, <2>1, SlotHeld DEF Told
    <2> QED
      BY <2>1, <2>2 DEF Travels
  <1> QED
    BY <1>4, <1>5, <1>6, <1>7, <1>8, <1>9

(* The safety half of BufferReturned: however events and commands coincide, a  *)
(* buffer that is not back with the previous link is with a task that goes on  *)
(* with it, or in a ring or a queue whose reader has been or will be told;    *)
(* what is left to fairness is that each goes on.                           *)
THEOREM BuffersAwaited ==
  ASSUME Roomy PROVE Spec => []Awaited
  <1>1. Init => Told
    BY DEF Init, Told
  <1>2. IInv /\ Told => Awaited
    <2> SUFFICES ASSUME IInv, Told, ctl = "running", NEW b \in Bufs, b \notin prevFree
                 PROVE  Moving(b)
      BY DEF Awaited
    <2>1. /\ Sorts /\ Tasks /\ BufPlaced /\ NoBuf \notin Bufs
      BY IpcLinkAssumption DEF IInv, Shape, Books, Exists
    <2>2. PICK n \in 1 .. 5 : \E k, i : BufAt(b, n, k, i)
      BY <2>1 DEF BufPlaced, BufSomewhere
    <2>3. PICK k, i : BufAt(b, n, k, i)
      BY <2>2
    <2>4. n \in {2, 3, 4, 5}
      BY <2>3 DEF BufAt
    <2>5. CASE n = 2
      <3>1. k \in DOMAIN prevFull /\ prevFull[k] = b
        BY <2>3, <2>5 DEF BufAt, InSeq
      <3>2. b \in ToSet(prevFull) /\ prevFull # << >>
        BY <3>1 DEF ToSet
      <3> QED
        BY <3>2 DEF Told, Moving
    <2>6. CASE n = 3
      <3>1. k \in DOMAIN todo /\ todo[k] = b
        BY <2>3, <2>6 DEF BufAt, InSeq
      <3>2. b \in ToSet(todo) /\ todo # << >>
        BY <3>1 DEF ToSet
      <3> QED
        BY <2>1, <3>2 DEF Tasks, Moving
    <2>7. CASE n = 4
      <3>1. k \in DOMAIN freeList /\ freeList[k] = b
        BY <2>3, <2>7 DEF BufAt, InSeq
      <3>2. b \in ToSet(freeList) /\ freeList # << >>
        BY <3>1 DEF ToSet
      <3> QED
        BY <2>1, <3>2 DEF Tasks, Sorts, Moving
    <2>8. CASE n = 5
      <3>1. i \in Idx /\ shm[i] = b
        BY <2>3, <2>8 DEF BufAt
      <3>2. i \notin localQue
        BY <2>1, <3>1 DEF BufPlaced
      <3> QED
        BY <3>1, <3>2, IndexTravels DEF Moving
    <2> QED
      BY <2>4, <2>5, <2>6, <2>7, <2>8
  <1>3. IInv /\ Told /\ [Next]_vars => Told'
    BY ToldKept
  <1> QED
    BY <1>1, <1>2, <1>3, IInvHolds, PTL DEF Spec

=============================================================================
