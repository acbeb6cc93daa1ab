---------------------------- MODULE IpcQue_proofs ----------------------------
(***************************************************************************)
(* Proofs about the inter-processor queue, for every N, every pool smaller  *)
(* than N, any number of writer tasks and one reader task.                  *)
(***************************************************************************)
EXTENDS IpcQue, FiniteSetTheorems, SequenceTheorems, TLAPS

(* How the links use a queue: fewer elements in circulation than slots, and *)
(* one task on the reader CPU.  With N elements the ring reads as empty, and *)
(* a second reader passes the test for an empty ring, which is made outside *)
(* the interrupt lock, for the same element.                                *)
Disciplined ==
  /\ Credits < N
  /\ \A r1, r2 \in Readers : r1 = r2

-----------------------------------------------------------------------------
(* Arithmetic of the indices.                                               *)

(* An index that runs past the end wraps once.                              *)
LEMMA ModOnce ==
  ASSUME NEW n \in Nat \ {0}, NEW x \in 0 .. 2*n - 1
  PROVE  x % n = IF x < n THEN x ELSE x - n
  OBVIOUS

(* The distance between two indices, without the modulo.                    *)
LEMMA HeldIs ==
  ASSUME NEW n \in Nat \ {0}, NEW E, NEW r \in RingOf(n, E)
  PROVE  /\ Held(r, n) = IF r.curRd <= r.curWr THEN r.curWr - r.curRd
                                               ELSE r.curWr - r.curRd + n
         /\ Held(r, n) \in 0 .. n-1
  BY DEF Held, RingOf

(* What membership in RingOf says of the fields.                            *)
LEMMA RingFields ==
  ASSUME NEW n \in Nat \ {0}, NEW E, NEW r \in RingOf(n, E)
  PROVE  r.curRd \in 0 .. n-1 /\ r.curWr \in 0 .. n-1 /\ r.slot \in [0 .. n-1 -> E]
  BY DEF RingOf

(* Utils_ipcQueIsFull: with both indices below maxElements the number it    *)
(* computes is below maxElements too, so it never answers TRUE.             *)
THEOREM NeverFull ==
  ASSUME NEW n \in Nat \ {0}, NEW E, NEW r \in RingOf(n, E)
  PROVE  ~IsFull(r, n)
  BY DEF IsFull, RingOf

(* Utils_ipcQueIsEmpty answers TRUE exactly when the indices are equal.     *)
LEMMA EmptyIsHeldZero ==
  ASSUME NEW n \in Nat \ {0}, NEW E, NEW r \in RingOf(n, E)
  PROVE  IsEmpty(r, n) <=> Held(r, n) = 0
  BY HeldIs, RingFields DEF IsEmpty

(* The critical sections keep a ring a ring.                                *)
LEMMA RingClosed ==
  ASSUME NEW n \in Nat \ {0}, NEW E, NEW r \in RingOf(n, E)
  PROVE  /\ \A e \in E : Stored(r, e) \in RingOf(n, E)
         /\ Published(r, n) \in RingOf(n, E)
         /\ Consumed(r, n) \in RingOf(n, E)
         /\ Loaded(r) \in E
  <1>1. (r.curWr + 1) % n \in 0 .. n-1 /\ (r.curRd + 1) % n \in 0 .. n-1
    BY DEF RingOf
  <1> QED BY <1>1 DEF RingOf, Stored, Published, Consumed, Loaded

(* A write of fewer than maxElements elements adds one, a read takes one.   *)
LEMMA HeldPublished ==
  ASSUME NEW n \in Nat \ {0}, NEW E, NEW r \in RingOf(n, E), Held(r, n) + 1 < n
  PROVE  Held(Published(r, n), n) = Held(r, n) + 1
  <1>1. (r.curWr + 1) % n = IF r.curWr + 1 < n THEN r.curWr + 1 ELSE 0
    BY ModOnce DEF RingOf
  <1>2. Published(r, n) \in RingOf(n, E)
    BY RingClosed
  <1>3. /\ Published(r, n).curRd = r.curRd
        /\ Published(r, n).curWr = (r.curWr + 1) % n
    BY DEF Published, RingOf
  <1>4. r.curRd \in 0 .. n-1 /\ r.curWr \in 0 .. n-1
    BY RingFields
  <1>5. Held(r, n) = IF r.curRd <= r.curWr THEN r.curWr - r.curRd
                                           ELSE r.curWr - r.curRd + n
    BY HeldIs
  <1>6. Held(Published(r, n), n) =
          IF Published(r, n).curRd <= Published(r, n).curWr
          THEN Published(r, n).curWr - Published(r, n).curRd
          ELSE Published(r, n).curWr - Published(r, n).curRd + n
    BY <1>2, HeldIs
  <1> QED BY <1>1, <1>3, <1>4, <1>5, <1>6

LEMMA HeldConsumed ==
  ASSUME NEW n \in Nat \ {0}, NEW E, NEW r \in RingOf(n, E), Held(r, n) > 0
  PROVE  Held(Consumed(r, n), n) = Held(r, n) - 1
  <1>1. (r.curRd + 1) % n = IF r.curRd + 1 < n THEN r.curRd + 1 ELSE 0
    BY ModOnce DEF RingOf
  <1>2. Consumed(r, n) \in RingOf(n, E)
    BY RingClosed
  <1>3. /\ Consumed(r, n).curWr = r.curWr
        /\ Consumed(r, n).curRd = (r.curRd + 1) % n
    BY DEF Consumed, RingOf
  <1>4. r.curRd \in 0 .. n-1 /\ r.curWr \in 0 .. n-1
    BY RingFields
  <1>5. Held(r, n) = IF r.curRd <= r.curWr THEN r.curWr - r.curRd
                                           ELSE r.curWr - r.curRd + n
    BY HeldIs
  <1>6. Held(Consumed(r, n), n) =
          IF Consumed(r, n).curRd <= Consumed(r, n).curWr
          THEN Consumed(r, n).curWr - Consumed(r, n).curRd
          ELSE Consumed(r, n).curWr - Consumed(r, n).curRd + n
    BY <1>2, HeldIs
  <1> QED BY <1>1, <1>3, <1>4, <1>5, <1>6

LEMMA HeldStored ==
  ASSUME NEW n \in Nat \ {0}, NEW E, NEW r \in RingOf(n, E), NEW e \in E
  PROVE  Held(Stored(r, e), n) = Held(r, n)
  BY DEF Held, Stored, RingOf

-----------------------------------------------------------------------------
(* What the critical sections do to the contents.                           *)

(* The slot of the i-th element held, without the modulo.                   *)
LEMMA SlotIs ==
  ASSUME NEW n \in Nat \ {0}, NEW E, NEW r \in RingOf(n, E), NEW i \in 1 .. n
  PROVE  (r.curRd + i - 1) % n =
           IF r.curRd + i - 1 < n THEN r.curRd + i - 1 ELSE r.curRd + i - 1 - n
  <1>1. r.curRd \in 0 .. n-1
    BY RingFields
  <1>2. ASSUME NEW y \in 0 .. n-1
        PROVE  (y + i - 1) % n = IF y + i - 1 < n THEN y + i - 1 ELSE y + i - 1 - n
    OBVIOUS
  <1> QED BY <1>1, <1>2

(* A sequence is the function of its elements.                              *)
LEMMA SeqAsFunction ==
  ASSUME NEW E, NEW s \in Seq(E)
  PROVE  s = [i \in 1 .. Len(s) |-> s[i]]
  OBVIOUS

LEMMA ContentsSeq ==
  ASSUME NEW n \in Nat \ {0}, NEW E, NEW r \in RingOf(n, E)
  PROVE  /\ Contents(r, n) \in Seq(E)
         /\ Len(Contents(r, n)) = Held(r, n)
         /\ \A i \in 1 .. Held(r, n) : Contents(r, n)[i] = r.slot[(r.curRd + i - 1) % n]
  <1>1. Held(r, n) \in 0 .. n-1
    BY HeldIs
  <1>2. \A i \in 1 .. Held(r, n) : (r.curRd + i - 1) % n \in 0 .. n-1
    BY <1>1 DEF RingOf
  <1>3. \A i \in 1 .. Held(r, n) : r.slot[(r.curRd + i - 1) % n] \in E
    BY <1>2 DEF RingOf
  <1> QED BY <1>1, <1>3 DEF Contents

(* The memcpy of a write goes to a slot outside the contents.               *)
LEMMA ContentsStored ==
  ASSUME NEW n \in Nat \ {0}, NEW E, NEW r \in RingOf(n, E), NEW e \in E
  PROVE  Contents(Stored(r, e), n) = Contents(r, n)
  <1> DEFINE s == Stored(r, e)
  <1>1. Held(s, n) = Held(r, n) /\ s.curRd = r.curRd
    BY HeldStored DEF Stored, RingOf
  <1>2. ASSUME NEW i \in 1 .. Held(r, n)
        PROVE  s.slot[(r.curRd + i - 1) % n] = r.slot[(r.curRd + i - 1) % n]
    <2>0. /\ r.curRd \in 0 .. n-1 /\ r.curWr \in 0 .. n-1
          /\ Held(r, n) \in 0 .. n-1
          /\ Held(r, n) = IF r.curRd <= r.curWr THEN r.curWr - r.curRd
                                                ELSE r.curWr - r.curRd + n
      BY RingFields, HeldIs
    <2>a. i \in 1 .. n
      BY <2>0
    <2>b. (r.curRd + i - 1) % n =
            IF r.curRd + i - 1 < n THEN r.curRd + i - 1 ELSE r.curRd + i - 1 - n
      BY <2>a, SlotIs
    <2>1. (r.curRd + i - 1) % n # r.curWr
      BY <2>0, <2>a, <2>b
    <2>2. (r.curRd + i - 1) % n \in 0 .. n-1
      BY DEF RingOf
    <2> QED BY <2>1, <2>2 DEF Stored, RingOf
  <1> QED BY <1>1, <1>2 DEF Contents

(* The index update of a write appends the element stored at curWr.         *)
LEMMA ContentsPublished ==
  ASSUME NEW n \in Nat \ {0}, NEW E, NEW r \in RingOf(n, E), Held(r, n) + 1 < n
  PROVE  Contents(Published(r, n), n) = Append(Contents(r, n), r.slot[r.curWr])
  <1> DEFINE p == Published(r, n)
             c == Contents(r, n)
             h == Held(r, n)
  <1>1. h \in 0 .. n-1 /\ c \in Seq(E) /\ Len(c) = h
    BY HeldIs, ContentsSeq
  <1>2. Held(p, n) = h + 1 /\ p.curRd = r.curRd /\ p.slot = r.slot
    BY HeldPublished DEF Published, RingOf
  <1>3. \A i \in 1 .. h : c[i] = r.slot[(r.curRd + i - 1) % n]
    BY ContentsSeq
  <1>4. (r.curRd + (h + 1) - 1) % n = r.curWr
    <2>1. /\ r.curRd \in 0 .. n-1 /\ r.curWr \in 0 .. n-1
          /\ h = IF r.curRd <= r.curWr THEN r.curWr - r.curRd
                                       ELSE r.curWr - r.curRd + n
      BY RingFields, HeldIs
    <2>2. h + 1 \in 1 .. n
      BY <1>1
    <2>3. (r.curRd + (h+1) - 1) % n =
            IF r.curRd + (h+1) - 1 < n THEN r.curRd + (h+1) - 1
                                       ELSE r.curRd + (h+1) - 1 - n
      BY <2>2, SlotIs
    <2> QED BY <2>1, <2>3
  <1>5. Contents(p, n) = [i \in 1 .. h+1 |-> r.slot[(r.curRd + i - 1) % n]]
    BY <1>2 DEF Contents
  <1>6. Append(c, r.slot[r.curWr]) = [i \in 1 .. h+1 |-> IF i <= h THEN c[i] ELSE r.slot[r.curWr]]
    BY <1>1
  <1>7. \A i \in 1 .. h+1 : r.slot[(r.curRd + i - 1) % n] =
                              IF i <= h THEN c[i] ELSE r.slot[r.curWr]
    BY <1>1, <1>3, <1>4
  <1> QED BY <1>5, <1>6, <1>7

(* The index update of a read removes the oldest element, which is the one  *)
(* the slot at curRd holds.                                                 *)
LEMMA ContentsConsumed ==
  ASSUME NEW n \in Nat \ {0}, NEW E, NEW r \in RingOf(n, E), Held(r, n) > 0
  PROVE  /\ Contents(r, n) # << >>
         /\ Head(Contents(r, n)) = Loaded(r)
         /\ Contents(Consumed(r, n), n) = Tail(Contents(r, n))
  <1> DEFINE p == Consumed(r, n)
             c == Contents(r, n)
             h == Held(r, n)
  <1>1. h \in 1 .. n-1 /\ c \in Seq(E) /\ Len(c) = h
    <2>1. h \in 0 .. n-1
      BY HeldIs
    <2> QED BY <2>1, ContentsSeq
  <1>2. Held(p, n) = h - 1 /\ p.curRd = (r.curRd + 1) % n /\ p.slot = r.slot
    BY HeldConsumed DEF Consumed, RingOf
  <1>3. \A i \in 1 .. h : c[i] = r.slot[(r.curRd + i - 1) % n]
    BY ContentsSeq
  <1>4. (r.curRd + 1 - 1) % n = r.curRd
    BY SlotIs DEF RingOf
  <1>5. p.curRd = IF r.curRd + 1 < n THEN r.curRd + 1 ELSE 0
    BY <1>2, ModOnce DEF RingOf
  <1>6. p \in RingOf(n, E)
    BY RingClosed
  <1>7. ASSUME NEW i \in 1 .. h-1
        PROVE  (p.curRd + i - 1) % n = (r.curRd + (i+1) - 1) % n
    <2>1. i \in 1 .. n /\ i+1 \in 1 .. n /\ r.curRd \in 0 .. n-1
      BY <1>1, RingFields
    <2>2. (p.curRd + i - 1) % n =
            IF p.curRd + i - 1 < n THEN p.curRd + i - 1 ELSE p.curRd + i - 1 - n
      BY <1>6, <2>1, SlotIs
    <2>3. (r.curRd + (i+1) - 1) % n =
            IF r.curRd + (i+1) - 1 < n THEN r.curRd + (i+1) - 1
                                       ELSE r.curRd + (i+1) - 1 - n
      BY <2>1, SlotIs
    <2> QED BY <1>5, <2>1, <2>2, <2>3
  <1>8. Contents(p, n) = [i \in 1 .. h-1 |-> c[i+1]]
    BY <1>1, <1>2, <1>3, <1>7 DEF Contents
  <1>9. Tail(c) = [i \in 1 .. h-1 |-> c[i+1]]
    <2>1. c # << >>
      BY <1>1
    <2>2. /\ Tail(c) \in Seq(E) /\ Len(Tail(c)) = h - 1
          /\ \A i \in 1 .. h-1 : Tail(c)[i] = c[i+1]
      BY <1>1, <2>1, HeadTailProperties
    <2>3. Tail(c) = [i \in 1 .. Len(Tail(c)) |-> Tail(c)[i]]
      BY <2>2, SeqAsFunction
    <2> QED BY <1>1, <2>2, <2>3
  <1>10. c # << >> /\ Head(c) = c[1]
    BY <1>1
  <1> QED BY <1>1, <1>3, <1>4, <1>8, <1>9, <1>10 DEF Loaded

-----------------------------------------------------------------------------
(* The inductive invariant.  Its parts:                                     *)

Writing == {t \in Writers : pc[t] # "idle"}

(* every element is in the pool, in a write call or in the ring;            *)
Accounted == Held(ring, N) + credits + Cardinality(Writing) = Credits

(* a task makes only the calls of its side, is pending while in one, and a  *)
(* write carries an element;                                                *)
CallsOK ==
  /\ \A t \in Writers : /\ pc[t] \in {"idle", "testFull", "store", "publish"}
                        /\ pc[t] # "idle" => elem[t] \in Elements
  /\ \A t \in Readers : pc[t] \in {"idle", "testEmpty", "load", "consume"}
  /\ \A t \in Tasks : result[t] = Pending <=> pc[t] # "idle"

(* Hwi_disable lets one task of the writer CPU be between its memcpy and    *)
(* its index update, and then the slot at curWr holds its element;          *)
StoreExclusive ==
  /\ \A t, u \in Writers : pc[t] = "publish" /\ pc[u] = "publish" => t = u
  /\ \A t \in Writers : pc[t] = "publish" => ring.slot[ring.curWr] = elem[t]

(* the element a reader found is still there when it copies it, and its     *)
(* copy is the element the index update gives up.                           *)
ReadSafe ==
  \A t \in Readers : /\ pc[t] \in {"load", "consume"} => Held(ring, N) > 0
                     /\ pc[t] = "consume" => elem[t] = Loaded(ring)

IInv == TypeOK /\ Accounted /\ CallsOK /\ StoreExclusive /\ ReadSafe

-----------------------------------------------------------------------------
(* Results of a call can be told apart.                                     *)
LEMMA ResultsDiffer ==
  /\ Pending # Refused /\ Pending # Done /\ \A e : Pending # Got(e)
  BY DEF Pending, Refused, Done, Got

(* The set of busy writers after one task starts or ends its call.          *)
LEMMA WritingFinite ==
  IsFiniteSet(Writing) /\ Cardinality(Writing) \in Nat
  BY IpcQueAssumption, FS_Subset, FS_CardinalityType DEF Writing

LEMMA InitIInv == Disciplined /\ Init => IInv
  <1> SUFFICES ASSUME Disciplined, Init PROVE IInv
    OBVIOUS
  <1> USE IpcQueAssumption DEF Init
  <1>1. TypeOK
    BY DEF TypeOK, RingOf, CreatedRing, Attached, Slots, Tasks
  <1>2. Writing = {}
    BY DEF Writing, Tasks
  <1>3. Accounted
    <2>1. Cardinality(Writing) = 0
      BY <1>2, FS_EmptySet
    <2>2. Held(ring, N) = 0
      BY HeldIs, <1>1 DEF TypeOK, CreatedRing
    <2> QED BY <2>1, <2>2 DEF Accounted
  <1>4. CallsOK
    BY ResultsDiffer DEF CallsOK, Tasks
  <1>5. StoreExclusive /\ ReadSafe
    BY DEF StoreExclusive, ReadSafe, Tasks
  <1> QED BY <1>1, <1>3, <1>4, <1>5 DEF IInv

(* The set of busy writers when one task starts, stays in, or ends a call.  *)
LEMMA WritingStarts ==
  ASSUME TypeOK, NEW t \in Writers, NEW label, label # "idle",
         pc[t] = "idle", pc' = [pc EXCEPT ![t] = label]
  PROVE  Cardinality(Writing') = Cardinality(Writing) + 1
  <1>1. t \notin Writing /\ Writing' = Writing \cup {t}
    BY DEF Writing, TypeOK, Tasks
  <1> QED BY <1>1, WritingFinite, FS_AddElement

LEMMA WritingEnds ==
  ASSUME TypeOK, NEW t \in Writers, pc[t] # "idle", pc' = [pc EXCEPT ![t] = "idle"]
  PROVE  Cardinality(Writing') = Cardinality(Writing) - 1
  <1>1. t \in Writing /\ Writing' = Writing \ {t}
    BY DEF Writing, TypeOK, Tasks
  <1> QED BY <1>1, WritingFinite, FS_RemoveElement

LEMMA WritingStays ==
  ASSUME TypeOK, NEW t \in Tasks, NEW label,
         t \in Writers => pc[t] # "idle" /\ label # "idle",
         pc' = [pc EXCEPT ![t] = label]
  PROVE  Writing' = Writing
  BY DEF Writing, TypeOK, Tasks

(* While a write is in progress the ring has room for it: this is where the *)
(* pool has to be smaller than the ring.                                    *)
LEMMA RoomForWrite ==
  ASSUME Disciplined, TypeOK, Accounted, NEW t \in Writers, pc[t] # "idle"
  PROVE  Held(ring, N) + 1 < N
  <1>1. Held(ring, N) \in 0 .. N-1
    BY HeldIs, IpcQueAssumption DEF TypeOK
  <1>2. Cardinality(Writing) >= 1
    <2>1. t \in Writing
      BY DEF Writing
    <2>2. Cardinality(Writing) # 0
      BY <2>1, WritingFinite, FS_EmptySet
    <2> QED BY <2>2, WritingFinite
  <1>3. credits \in Nat /\ Credits \in Nat /\ N \in Nat
    BY IpcQueAssumption DEF TypeOK
  <1> QED BY <1>1, <1>2, <1>3, WritingFinite DEF Accounted, Disciplined

-----------------------------------------------------------------------------
(* Preservation, one lemma per operation of the queue.                      *)

LEMMA StepWriteCall ==
  ASSUME Disciplined, IInv, NEW t \in Writers, NEW e \in Elements, WriteCall(t, e)
  PROVE  IInv'
  <1> USE IpcQueAssumption
  <1>1. TypeOK'
    BY DEF IInv, TypeOK, WriteCall, Goto, Return, Tasks, Slots
  <1>2. Accounted'
    <2>1. pc[t] = "idle" /\ pc' = [pc EXCEPT ![t] = "testFull"]
          /\ credits' = credits - 1 /\ ring' = ring
      BY DEF WriteCall, Goto
    <2>2. Cardinality(Writing') = Cardinality(Writing) + 1
      BY <2>1, WritingStarts DEF IInv
    <2>3. Held(ring, N) \in Nat /\ credits \in Nat
      BY HeldIs DEF IInv, TypeOK
    <2> QED BY <2>1, <2>2, <2>3, WritingFinite DEF IInv, Accounted
  <1>3. CallsOK'
    BY ResultsDiffer DEF IInv, TypeOK, CallsOK, WriteCall, Goto, Return, Tasks
  <1>4. StoreExclusive' /\ ReadSafe'
    BY DEF IInv, TypeOK, StoreExclusive, ReadSafe, WriteCall, Goto, Tasks
  <1> QED BY <1>1, <1>2, <1>3, <1>4 DEF IInv

LEMMA StepWriteTest ==
  ASSUME Disciplined, IInv, NEW t \in Writers, WriteTest(t)
  PROVE  IInv'
  <1> USE IpcQueAssumption
  <1>1. ~IsFull(ring, N)
    BY NeverFull DEF IInv, TypeOK
  <1>2. pc[t] = "testFull" /\ pc' = [pc EXCEPT ![t] = "store"]
        /\ UNCHANGED <<ring, credits, elem, result>>
    BY <1>1 DEF WriteTest, Goto
  <1>3. TypeOK'
    BY <1>2 DEF IInv, TypeOK, Tasks
  <1>4. Accounted'
    <2>1. Writing' = Writing
      BY <1>2, WritingStays DEF IInv, Tasks
    <2> QED BY <1>2, <2>1 DEF IInv, Accounted
  <1>5. CallsOK'
    BY <1>2 DEF IInv, TypeOK, CallsOK, Tasks
  <1>6. StoreExclusive' /\ ReadSafe'
    BY <1>2 DEF IInv, TypeOK, StoreExclusive, ReadSafe, Tasks
  <1> QED BY <1>3, <1>4, <1>5, <1>6 DEF IInv

LEMMA StepWriteStore ==
  ASSUME Disciplined, IInv, NEW t \in Writers, WriteStore(t)
  PROVE  IInv'
  <1> USE IpcQueAssumption
  <1>1. /\ pc[t] = "store" /\ pc' = [pc EXCEPT ![t] = "publish"]
        /\ ring' = Stored(ring, elem[t])
        /\ UNCHANGED <<credits, elem, result>>
        /\ \A u \in Writers : pc[u] # "publish"
    BY DEF WriteStore, Goto, HwiFree
  <1>2. ring \in RingOf(N, Slots) /\ elem[t] \in Slots
    BY DEF IInv, TypeOK, Tasks
  <1>3. ring' \in RingOf(N, Slots) /\ Held(ring', N) = Held(ring, N)
    BY <1>1, <1>2, RingClosed, HeldStored
  <1>4. /\ ring'.curWr = ring.curWr /\ ring'.curRd = ring.curRd /\ ring'.max = ring.max
        /\ ring'.slot = [ring.slot EXCEPT ![ring.curWr] = elem[t]]
    BY <1>1, <1>2 DEF Stored, RingOf
  <1>5. TypeOK'
    BY <1>1, <1>3, <1>4 DEF IInv, TypeOK, Attached, Tasks
  <1>6. Accounted'
    <2>1. Writing' = Writing
      BY <1>1, WritingStays DEF IInv, Tasks
    <2> QED BY <1>1, <1>3, <2>1 DEF IInv, Accounted
  <1>7. CallsOK'
    BY <1>1 DEF IInv, TypeOK, CallsOK, Tasks
  <1>8. StoreExclusive'
    BY <1>1, <1>2, <1>4, RingFields DEF IInv, TypeOK, StoreExclusive, Tasks
  <1>9. ReadSafe'
    <2>1. ASSUME NEW u \in Readers, pc[u] \in {"load", "consume"}
          PROVE  ring.curRd # ring.curWr
      <3>1. Held(ring, N) > 0
        BY <2>1 DEF IInv, ReadSafe
      <3> QED BY <1>2, <3>1, HeldIs, RingFields
    <2>2. \A u \in Readers : pc'[u] = pc[u]
      BY <1>1 DEF IInv, TypeOK, Tasks
    <2> QED BY <1>1, <1>2, <1>3, <1>4, <2>1, <2>2, RingFields
            DEF IInv, ReadSafe, Loaded
  <1> QED BY <1>5, <1>6, <1>7, <1>8, <1>9 DEF IInv

LEMMA StepWritePublish ==
  ASSUME Disciplined, IInv, NEW t \in Writers, WritePublish(t)
  PROVE  IInv'
  <1> USE IpcQueAssumption
  <1>1. /\ pc[t] = "publish" /\ pc' = [pc EXCEPT ![t] = "idle"]
        /\ ring' = Published(ring, N)
        /\ result' = [result EXCEPT ![t] = Done]
        /\ UNCHANGED <<credits, elem>>
    BY DEF WritePublish, Goto, Return
  <1>2. ring \in RingOf(N, Slots) /\ Held(ring, N) + 1 < N
    BY <1>1, RoomForWrite DEF IInv, TypeOK
  <1>3. ring' \in RingOf(N, Slots) /\ Held(ring', N) = Held(ring, N) + 1
    BY <1>1, <1>2, RingClosed, HeldPublished
  <1>4. ring'.curRd = ring.curRd /\ ring'.max = ring.max /\ ring'.slot = ring.slot
    BY <1>1, <1>2 DEF Published, RingOf
  <1>5. TypeOK'
    BY <1>1, <1>3, <1>4 DEF IInv, TypeOK, Attached, Tasks
  <1>6. Accounted'
    <2>1. Cardinality(Writing') = Cardinality(Writing) - 1
      BY <1>1, WritingEnds DEF IInv
    <2>2. Held(ring, N) \in Nat /\ credits \in Nat
      BY <1>2, HeldIs DEF IInv, TypeOK
    <2> QED BY <1>1, <1>3, <2>1, <2>2, WritingFinite DEF IInv, Accounted
  <1>7. CallsOK'
    BY <1>1, ResultsDiffer DEF IInv, TypeOK, CallsOK, Tasks
  <1>8. StoreExclusive'
    BY <1>1 DEF IInv, TypeOK, StoreExclusive, Tasks
  <1>9. ReadSafe'
    <2>1. \A u \in Readers : pc'[u] = pc[u]
      BY <1>1 DEF IInv, TypeOK, Tasks
    <2>2. Held(ring, N) \in Nat
      BY <1>2, HeldIs
    <2> QED BY <1>1, <1>3, <1>4, <2>1, <2>2 DEF IInv, ReadSafe, Loaded
  <1> QED BY <1>5, <1>6, <1>7, <1>8, <1>9 DEF IInv

LEMMA StepReadCall ==
  ASSUME Disciplined, IInv, NEW t \in Readers, ReadCall(t)
  PROVE  IInv'
  <1> USE IpcQueAssumption
  <1>1. TypeOK'
    BY DEF IInv, TypeOK, ReadCall, Goto, Return, Tasks
  <1>2. Writing' = Writing
    BY DEF IInv, TypeOK, ReadCall, Goto, Writing, Tasks
  <1>3. Accounted'
    BY <1>2 DEF IInv, Accounted, ReadCall
  <1>4. CallsOK'
    BY ResultsDiffer DEF IInv, TypeOK, CallsOK, ReadCall, Goto, Return, Tasks
  <1>5. StoreExclusive' /\ ReadSafe'
    BY DEF IInv, TypeOK, StoreExclusive, ReadSafe, ReadCall, Goto, Tasks
  <1> QED BY <1>1, <1>3, <1>4, <1>5 DEF IInv

LEMMA StepReadTest ==
  ASSUME Disciplined, IInv, NEW t \in Readers, ReadTest(t)
  PROVE  IInv'
  <1> USE IpcQueAssumption
  <1>1. TypeOK'
    BY DEF IInv, TypeOK, ReadTest, Goto, Return, Tasks
  <1>2. Writing' = Writing
    BY DEF IInv, TypeOK, ReadTest, Goto, Writing, Tasks
  <1>3. Accounted'
    BY <1>2 DEF IInv, Accounted, ReadTest
  <1>4. CallsOK'
    BY ResultsDiffer DEF IInv, TypeOK, CallsOK, ReadTest, Goto, Return, Tasks
  <1>5. StoreExclusive'
    BY DEF IInv, TypeOK, StoreExclusive, ReadTest, Goto, Tasks
  <1>6. ReadSafe'
    <2>1. ring \in RingOf(N, Slots) /\ Held(ring, N) \in 0 .. N-1
      BY HeldIs DEF IInv, TypeOK
    <2>2. ~IsEmpty(ring, N) => Held(ring, N) > 0
      BY <2>1, EmptyIsHeldZero
    <2> QED BY <2>2 DEF IInv, TypeOK, ReadSafe, ReadTest, Goto, Tasks
  <1> QED BY <1>1, <1>3, <1>4, <1>5, <1>6 DEF IInv

LEMMA StepReadLoad ==
  ASSUME Disciplined, IInv, NEW t \in Readers, ReadLoad(t)
  PROVE  IInv'
  <1> USE IpcQueAssumption
  <1>1. Loaded(ring) \in Slots
    BY RingClosed DEF IInv, TypeOK
  <1>2. TypeOK'
    BY <1>1 DEF IInv, TypeOK, ReadLoad, Goto, Tasks
  <1>3. Writing' = Writing
    BY DEF IInv, TypeOK, ReadLoad, Goto, Writing, Tasks
  <1>4. Accounted'
    BY <1>3 DEF IInv, Accounted, ReadLoad
  <1>5. CallsOK'
    BY DEF IInv, TypeOK, CallsOK, ReadLoad, Goto, Tasks
  <1>6. StoreExclusive'
    BY DEF IInv, TypeOK, StoreExclusive, ReadLoad, Goto, Tasks
  <1>7. ReadSafe'
    BY DEF IInv, TypeOK, ReadSafe, ReadLoad, Goto, Tasks
  <1> QED BY <1>2, <1>4, <1>5, <1>6, <1>7 DEF IInv

LEMMA StepReadConsume ==
  ASSUME Disciplined, IInv, NEW t \in Readers, ReadConsume(t)
  PROVE  IInv'
  <1> USE IpcQueAssumption
  <1>1. /\ pc[t] = "consume" /\ pc' = [pc EXCEPT ![t] = "idle"]
        /\ ring' = Consumed(ring, N)
        /\ credits' = credits + 1
        /\ result' = [result EXCEPT ![t] = Got(elem[t])]
        /\ elem' = elem
    BY DEF ReadConsume, Goto, Return
  <1>2. ring \in RingOf(N, Slots) /\ Held(ring, N) > 0 /\ Held(ring, N) \in 0 .. N-1
    BY <1>1, HeldIs DEF IInv, ReadSafe, TypeOK
  <1>3. ring' \in RingOf(N, Slots) /\ Held(ring', N) = Held(ring, N) - 1
    BY <1>1, <1>2, RingClosed, HeldConsumed
  <1>4. ring'.curWr = ring.curWr /\ ring'.max = ring.max /\ ring'.slot = ring.slot
    BY <1>1, <1>2 DEF Consumed, RingOf
  <1>5. Writing' = Writing
    BY <1>1 DEF IInv, TypeOK, Writing, Tasks
  <1>6. Accounted'
    BY <1>1, <1>2, <1>3, <1>5, WritingFinite DEF IInv, Accounted, TypeOK
  <1>7. TypeOK'
    <2>1. credits' \in 0 .. Credits
      BY <1>1, <1>2, WritingFinite DEF IInv, TypeOK, Accounted
    <2>2. elem[t] \in Slots
      BY DEF IInv, TypeOK, Tasks
    <2> QED BY <1>1, <1>3, <1>4, <2>1, <2>2 DEF IInv, TypeOK, Attached, Tasks
  <1>8. CallsOK'
    BY <1>1, ResultsDiffer DEF IInv, TypeOK, CallsOK, Tasks
  <1>9. StoreExclusive'
    BY <1>1, <1>4 DEF IInv, TypeOK, StoreExclusive, Tasks
  <1>10. ReadSafe'
    BY <1>1 DEF IInv, TypeOK, ReadSafe, Disciplined, Tasks
  <1> QED BY <1>6, <1>7, <1>8, <1>9, <1>10 DEF IInv

LEMMA NextIInv == Disciplined /\ IInv /\ [Next]_vars => IInv'
  <1> SUFFICES ASSUME Disciplined, IInv, [Next]_vars PROVE IInv'
    OBVIOUS
  <1>1. ASSUME NEW t \in Writers, Write(t) PROVE IInv'
    BY <1>1, StepWriteCall, StepWriteTest, StepWriteStore, StepWritePublish DEF Write
  <1>2. ASSUME NEW t \in Readers, Read(t) PROVE IInv'
    BY <1>2, StepReadCall, StepReadTest, StepReadLoad, StepReadConsume DEF Read
  <1>3. CASE UNCHANGED vars
    BY <1>3 DEF vars, IInv, TypeOK, Accounted, CallsOK, StoreExclusive, ReadSafe, Writing
  <1> QED BY <1>1, <1>2, <1>3 DEF Next

-----------------------------------------------------------------------------
(* Results.                                                                 *)

LEMMA Invariance ==
  ASSUME Disciplined
  PROVE  Spec => []IInv
  <1>1. Init => IInv
    BY InitIInv
  <1>2. IInv /\ [Next]_vars => IInv'
    BY NextIInv
  <1> QED BY <1>1, <1>2, PTL DEF Spec

(* The indices of a queue in use stay below maxElements and its header keeps *)
(* describing it, whatever the two CPUs interleave.                         *)
THEOREM TypeCorrect ==
  ASSUME Disciplined
  PROVE  Spec => []TypeOK
  BY Invariance, PTL DEF IInv

(* No slot is written by Utils_ipcQueWrite on one CPU while                 *)
(* Utils_ipcQueRead copies it on the other, although neither takes an       *)
(* inter-processor lock.                                                    *)
THEOREM NoTearing ==
  ASSUME Disciplined
  PROVE  Spec => []NoTornElement
  <1>1. IInv => NoTornElement
    <2> SUFFICES ASSUME IInv, NEW w \in Writers, NEW r \in Readers,
                        pc[r] \in {"load", "consume"}
                 PROVE  ring.curWr # ring.curRd
      BY DEF NoTornElement
    <2>1. Held(ring, N) > 0 /\ ring \in RingOf(N, Slots)
      BY DEF IInv, ReadSafe, TypeOK
    <2> QED BY <2>1, IpcQueAssumption, HeldIs, RingFields
  <1> QED BY <1>1, Invariance, PTL

-----------------------------------------------------------------------------
(* Refinement: every step of the queue is a step of the channel.            *)

LEMMA InitChannel == Disciplined /\ Init => Channel!Init
  <1> SUFFICES ASSUME Disciplined, Init PROVE Channel!Init
    OBVIOUS
  <1>1. ring \in RingOf(N, Slots) /\ ring.curRd = 0 /\ ring.curWr = 0
    BY InitIInv DEF IInv, TypeOK, Init, CreatedRing
  <1>2. Held(ring, N) = 0
    BY <1>1, IpcQueAssumption, HeldIs
  <1>3. Contents(ring, N) = << >>
    BY <1>2 DEF Contents
  <1> QED BY <1>3 DEF Channel!Init, Channel!Clients, Channel!Done, Init, Tasks, Done

LEMMA StepChannel ==
  Disciplined /\ IInv /\ [Next]_vars => [Channel!Next]_(Channel!fifoVars)
  <1> SUFFICES ASSUME Disciplined, IInv, [Next]_vars
               PROVE  Channel!Next \/ UNCHANGED <<Contents(ring, N), result>>
    BY DEF Channel!fifoVars
  <1> USE IpcQueAssumption
  <1>0. ring \in RingOf(N, Slots)
    BY DEF IInv, TypeOK
  <1> USE DEF Channel!Clients, Channel!Pending, Channel!Done, Channel!Refused,
              Channel!Got, Pending, Done, Refused, Got, Tasks
  <1>1. ASSUME NEW t \in Writers, NEW e \in Elements, WriteCall(t, e)
        PROVE  Channel!Call(t)
    BY <1>1 DEF Channel!Call, WriteCall, Return, IInv, CallsOK
  <1>2. ASSUME NEW t \in Writers, WriteTest(t)
        PROVE  UNCHANGED <<Contents(ring, N), result>>
    BY <1>0, <1>2, NeverFull DEF WriteTest
  <1>3. ASSUME NEW t \in Writers, WriteStore(t)
        PROVE  UNCHANGED <<Contents(ring, N), result>>
    <2>1. elem[t] \in Slots
      BY DEF IInv, TypeOK
    <2> QED BY <1>0, <1>3, <2>1, ContentsStored DEF WriteStore
  <1>4. ASSUME NEW t \in Writers, WritePublish(t)
        PROVE  \E e \in Elements : Channel!Put(t, e)
    <2>1. pc[t] = "publish" /\ ring' = Published(ring, N)
          /\ result' = [result EXCEPT ![t] = Done]
      BY <1>4 DEF WritePublish, Return
    <2>2. Held(ring, N) + 1 < N
      BY <2>1, RoomForWrite DEF IInv
    <2>3. Contents(ring', N) = Append(Contents(ring, N), elem[t])
      BY <1>0, <2>1, <2>2, ContentsPublished DEF IInv, StoreExclusive
    <2>4. Len(Contents(ring, N)) < N - 1
      <3>1. Len(Contents(ring, N)) = Held(ring, N) /\ Held(ring, N) \in 0 .. N-1
        BY <1>0, ContentsSeq, HeldIs
      <3> QED BY <2>2, <3>1
    <2>5. result[t] = Pending /\ elem[t] \in Elements
      BY <2>1 DEF IInv, CallsOK
    <2> QED BY <2>1, <2>3, <2>4, <2>5 DEF Channel!Put
  <1>5. ASSUME NEW t \in Readers, ReadCall(t)
        PROVE  Channel!Call(t)
    BY <1>5 DEF Channel!Call, ReadCall, Return, IInv, CallsOK
  <1>6. ASSUME NEW t \in Readers, ReadTest(t)
        PROVE  Channel!GetRefused(t) \/ UNCHANGED <<Contents(ring, N), result>>
    <2>1. CASE IsEmpty(ring, N)
      <3>1. Held(ring, N) = 0
        BY <1>0, <2>1, EmptyIsHeldZero
      <3>2. Contents(ring, N) = << >>
        BY <3>1 DEF Contents
      <3>3. result[t] = Pending
        BY <1>6 DEF IInv, CallsOK, ReadTest
      <3> QED BY <1>6, <2>1, <3>2, <3>3 DEF ReadTest, Return, Channel!GetRefused
    <2>2. CASE ~IsEmpty(ring, N)
      BY <1>6, <2>2 DEF ReadTest
    <2> QED BY <2>1, <2>2
  <1>7. ASSUME NEW t \in Readers, ReadLoad(t)
        PROVE  UNCHANGED <<Contents(ring, N), result>>
    BY <1>7 DEF ReadLoad
  <1>8. ASSUME NEW t \in Readers, ReadConsume(t)
        PROVE  Channel!Get(t)
    <2>1. pc[t] = "consume" /\ ring' = Consumed(ring, N)
          /\ result' = [result EXCEPT ![t] = Got(elem[t])]
      BY <1>8 DEF ReadConsume, Return
    <2>2. Held(ring, N) > 0 /\ elem[t] = Loaded(ring)
      BY <2>1 DEF IInv, ReadSafe
    <2>3. /\ Contents(ring, N) # << >>
          /\ Head(Contents(ring, N)) = elem[t]
          /\ Contents(ring', N) = Tail(Contents(ring, N))
      BY <1>0, <2>1, <2>2, ContentsConsumed
    <2>4. result[t] = Pending
      BY <2>1 DEF IInv, CallsOK
    <2> QED BY <2>1, <2>3, <2>4 DEF Channel!Get
  <1>9. CASE UNCHANGED vars
    BY <1>9 DEF vars
  <1> QED
    BY <1>1, <1>2, <1>3, <1>4, <1>5, <1>6, <1>7, <1>8, <1>9
       DEF Next, Write, Read, Channel!Next

(* utils_ipc_que.c implements the channel of Fifo, of one element fewer     *)
(* than it has slots.                                                       *)
THEOREM Refinement ==
  ASSUME Disciplined
  PROVE  Spec => IsFifo
  <1>1. Init => Channel!Init
    BY InitChannel
  <1>2. IInv /\ [Next]_vars => [Channel!Next]_(Channel!fifoVars)
    BY StepChannel
  <1> QED BY <1>1, <1>2, Invariance, PTL DEF Spec, IsFifo, Channel!Spec

=============================================================================
