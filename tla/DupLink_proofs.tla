---------------------------- MODULE DupLink_proofs ----------------------------
(***************************************************************************)
(* Proofs about the dup link, for every number of outputs and any buffers    *)
(* of the previous link: the counts are right although the lock does not     *)
(* cover the task, and twice as many descriptors as buffers are enough.      *)
(***************************************************************************)
EXTENDS DupLink, FiniteSetTheorems, TLAPS

(* The types, without the bounds that follow from the rest.                 *)
Shape ==
  /\ prevFree \subseteq Bufs /\ prevFull \subseteq Bufs /\ newData \in BOOLEAN
  /\ pc \in {"wait", "dup", "put", "tell"} /\ inBufList \subseteq Bufs /\ outId \in Outs
  /\ outBufList \in [Outs -> SUBSET Bufs] /\ dupCount \in [Bufs -> Int]
  /\ emptyQue \in [Outs -> Nat] /\ fullQue \in [Outs -> SUBSET Bufs]
  /\ told \in [Outs -> BOOLEAN] /\ held \in [Outs -> SUBSET Bufs]
  /\ lock \in Outs \cup {NoOne}
  /\ putPc \in [Outs -> {"idle", "lock", "load", "store", "forward", "empty"}]
  /\ todo \in [Outs -> SUBSET Bufs] /\ numBuf \in [Outs -> Nat]
  /\ pBuf \in [Outs -> Bufs \cup {NoBuf}] /\ reg \in [Outs -> Int]
  /\ freeList \in [Outs -> SUBSET Bufs] /\ running \in BOOLEAN /\ session \in Nat

(* Where the task has its descriptors.                                      *)
TaskOK ==
  /\ pc = "dup" <=> inBufList # {}
  /\ pc \in {"wait", "dup"} => outId = 1
  /\ pc = "wait" => \A q \in Outs : outBufList[q] = {}
  /\ pc = "put" => \A q \in Outs : q < outId => outBufList[q] = {}
  /\ pc = "tell" => \A q \in Outs : q <= outId => outBufList[q] = {}

(* A descriptor of an output is in one place.                               *)
Disjoint ==
  \A q \in Outs :
    /\ outBufList[q] \cap (fullQue[q] \cup held[q] \cup todo[q]) = {}
    /\ fullQue[q] \cap (held[q] \cup todo[q]) = {}
    /\ held[q] \cap todo[q] = {}

(* What each next link has in putEmptyBuffers; the count it loaded is good.  *)
PutOK ==
  \A q \in Outs :
    /\ lock = q <=> putPc[q] \in {"load", "store", "forward"}
    /\ todo[q] # {} => putPc[q] \in {"lock", "load", "store"}
    /\ freeList[q] # {} => putPc[q] \in {"load", "store", "forward"}
    /\ putPc[q] = "store" => pBuf[q] \in todo[q] /\ reg[q] = dupCount[pBuf[q]]

(* The descriptors of an output that are neither empty nor being returned.   *)
Live(q) == outBufList[q] \cup fullQue[q] \cup held[q]

(* No descriptor is lost, and a list returned holds no buffer twice.        *)
Conserved ==
  \A q \in Outs :
    /\ emptyQue[q] + Cardinality(Live(q)) + numBuf[q] = Pool
    /\ numBuf[q] <= Cardinality(Bufs)
    /\ putPc[q] = "idle" => numBuf[q] = 0

IInv == Shape /\ TaskOK /\ Disjoint /\ PutOK /\ ReturnedOnce /\ CountIsRefs /\ Conserved

-----------------------------------------------------------------------------
(* Sets of outputs and of buffers are finite.                               *)
LEMMA Finite ==
  /\ IsFiniteSet(Outs) /\ Cardinality(Outs) = NumOut /\ Outs # {}
  /\ \A S \in SUBSET Outs : IsFiniteSet(S) /\ Cardinality(S) \in 0 .. NumOut
  /\ \A S \in SUBSET Bufs : /\ IsFiniteSet(S) /\ Cardinality(S) \in Nat
                            /\ Cardinality(S) <= Cardinality(Bufs)
  <1>1. IsFiniteSet(Outs) /\ Cardinality(Outs) = NumOut /\ Outs # {}
    <2>1. 1 \in Int /\ NumOut \in Int /\ 1 <= NumOut BY DupLinkAssumption
    <2>2. IsFiniteSet(1 .. NumOut) /\ Cardinality(1 .. NumOut) = NumOut
      BY <2>1, FS_Interval
    <2> QED BY <2>1, <2>2 DEF Outs
  <1>2. ASSUME NEW S \in SUBSET Outs
        PROVE  IsFiniteSet(S) /\ Cardinality(S) \in 0 .. NumOut
    <2>1. IsFiniteSet(S) /\ Cardinality(S) <= Cardinality(Outs) BY <1>1, FS_Subset
    <2>2. Cardinality(S) \in Nat BY <2>1, FS_CardinalityType
    <2> QED BY <1>1, <2>1, <2>2, DupLinkAssumption
  <1>3. ASSUME NEW S \in SUBSET Bufs
        PROVE  IsFiniteSet(S) /\ Cardinality(S) \in Nat /\ Cardinality(S) <= Cardinality(Bufs)
    <2>1. IsFiniteSet(S) /\ Cardinality(S) <= Cardinality(Bufs)
      BY DupLinkAssumption, FS_Subset
    <2> QED BY <2>1, FS_CardinalityType
  <1> QED BY <1>1, <1>2, <1>3

(* A step that moves descriptors within their outputs, and buffers within    *)
(* the previous link's side, leaves the counts right.                       *)
LEMMA Moved ==
  ASSUME CountIsRefs, dupCount' = dupCount,
         \A b \in Bufs : Refs(b)' = Refs(b) /\ (Home(b)' <=> Home(b))
  PROVE  CountIsRefs'
  BY DEF CountIsRefs

(* The same for the numbers of descriptors.                                 *)
LEMMA Kept ==
  ASSUME Conserved, emptyQue' = emptyQue, numBuf' = numBuf,
         \A q \in Outs : Live(q)' = Live(q) /\ (putPc'[q] = "idle" => putPc[q] = "idle")
  PROVE  Conserved'
  BY DEF Conserved

-----------------------------------------------------------------------------
(* The invariant holds initially.                                           *)
LEMMA InitIInv == Init => IInv
  <1> SUFFICES ASSUME Init PROVE IInv OBVIOUS
  <1> USE DEF Init
  <1>0. 1 \in Outs /\ NoOne \notin Outs /\ Pool \in Nat /\ Cardinality({}) = 0
    BY DupLinkAssumption, FS_EmptySet DEF Outs
  <1>1. Shape
    <2>1. newData \in BOOLEAN /\ told \in [Outs -> BOOLEAN] /\ running \in BOOLEAN BY Zenon
    <2>2. /\ outId \in Outs /\ lock \in Outs \cup {NoOne}
          /\ dupCount \in [Bufs -> Int] /\ emptyQue \in [Outs -> Nat]
          /\ numBuf \in [Outs -> Nat] /\ reg \in [Outs -> Int] /\ session \in Nat
      BY <1>0
    <2>3. /\ prevFree \subseteq Bufs /\ prevFull \subseteq Bufs /\ inBufList \subseteq Bufs
          /\ outBufList \in [Outs -> SUBSET Bufs] /\ fullQue \in [Outs -> SUBSET Bufs]
          /\ held \in [Outs -> SUBSET Bufs] /\ todo \in [Outs -> SUBSET Bufs]
          /\ freeList \in [Outs -> SUBSET Bufs] /\ pBuf \in [Outs -> Bufs \cup {NoBuf}]
      OBVIOUS
    <2> QED BY <2>1, <2>2, <2>3 DEF Shape
  <1>2. TaskOK /\ Disjoint BY DEF TaskOK, Disjoint
  <1>3. PutOK BY <1>0 DEF PutOK
  <1>4. ReturnedOnce BY DEF ReturnedOnce
  <1>5. CountIsRefs BY DEF CountIsRefs, Home, Refs
  <1>6. Conserved
    <2>1. \A q \in Outs : Live(q) = {} BY DEF Live
    <2>2. Cardinality(Bufs) \in Nat BY Finite
    <2> SUFFICES ASSUME NEW q \in Outs
                 PROVE  /\ emptyQue[q] + Cardinality(Live(q)) + numBuf[q] = Pool
                        /\ numBuf[q] <= Cardinality(Bufs) /\ numBuf[q] = 0
      BY DEF Conserved
    <2>3. emptyQue[q] = Pool /\ numBuf[q] = 0 OBVIOUS
    <2>4. Cardinality(Live(q)) = 0 BY <1>0, <2>1
    <2> QED BY <1>0, <2>2, <2>3, <2>4
  <1> QED BY <1>1, <1>2, <1>3, <1>4, <1>5, <1>6 DEF IInv

(* A buffer filled stays on the previous link's side.                       *)
LEMMA ProduceKeeps == ASSUME IInv, NEW b \in Bufs, Produce(b) PROVE IInv'
  <1> USE DEF IInv, Produce, putVars
  <1>1. Shape' BY DEF Shape
  <1>2. TaskOK' /\ Disjoint' /\ PutOK' BY DEF TaskOK, Disjoint, PutOK
  <1>3. ReturnedOnce' BY DEF ReturnedOnce
  <1>4. CountIsRefs'
    <2>1. \A c \in Bufs : Refs(c)' = Refs(c) /\ (Home(c)' <=> Home(c)) BY DEF Refs, Home
    <2> QED BY <2>1, Moved
  <1>5. Conserved'
    <2>1. \A q \in Outs : Live(q)' = Live(q) BY DEF Live
    <2> QED BY <2>1, Kept
  <1> QED BY <1>1, <1>2, <1>3, <1>4, <1>5

(* So does one the task takes.                                              *)
LEMMA GetFullKeeps == ASSUME IInv, GetFull PROVE IInv'
  <1> USE DEF IInv, GetFull, putVars
  <1>0. inBufList = {} BY DEF TaskOK
  <1>1. Shape' BY DEF Shape
  <1>2. TaskOK' /\ Disjoint' /\ PutOK' BY DEF TaskOK, Disjoint, PutOK
  <1>3. ReturnedOnce' BY <1>0 DEF ReturnedOnce
  <1>4. CountIsRefs'
    <2>1. \A c \in Bufs : Refs(c)' = Refs(c) /\ (Home(c)' <=> Home(c))
      BY <1>0 DEF Refs, Home
    <2> QED BY <2>1, Moved
  <1>5. Conserved'
    <2>1. \A q \in Outs : Live(q)' = Live(q) BY DEF Live
    <2> QED BY <2>1, Kept
  <1> QED BY <1>1, <1>2, <1>3, <1>4, <1>5

(* A descriptor of every output now points to b, which nobody counts yet.    *)
LEMMA DuplicateKeeps == ASSUME IInv, NEW b \in Bufs, Duplicate(b) PROVE IInv'
  <1> USE DEF IInv, Duplicate, putVars, prevVars
  <1>0. b \in inBufList /\ Refs(b) = {} /\ Home(b)
    BY DEF CountIsRefs, Home
  <1>a. \A q \in Outs : b \notin outBufList[q] \cup fullQue[q] \cup held[q] \cup todo[q]
    BY <1>0 DEF Refs
  <1>b. NumOut \in Nat BY DupLinkAssumption
  <1>1. Shape' BY <1>b DEF Shape
  <1>2. TaskOK'
    <2>1. outId' = 1 /\ pc' \in {"dup", "put"} /\ (pc' = "put" => inBufList' = {})
      BY DEF TaskOK
    <2>2. \A q \in Outs : ~ q < 1 BY DEF Outs
    <2> QED BY <2>1, <2>2 DEF TaskOK
  <1>3. Disjoint' BY <1>a DEF Disjoint, Shape
  <1>4. PutOK'
    <2> SUFFICES ASSUME NEW q \in Outs, putPc[q] = "store"
                 PROVE  reg[q] = dupCount'[pBuf[q]]
      BY DEF PutOK, Shape
    <2>1. pBuf[q] \in todo[q] /\ reg[q] = dupCount[pBuf[q]] BY DEF PutOK
    <2>2. pBuf[q] # b BY <2>1, <1>a
    <2> QED BY <2>1, <2>2 DEF Shape
  <1>5. ReturnedOnce' BY DEF ReturnedOnce
  <1>6. CountIsRefs'
    <2>1. ~Home(b)' BY <1>0 DEF ReturnedOnce, Home
    <2>2. Refs(b)' = Outs BY DEF Refs, Shape
    <2>3. dupCount'[b] = Cardinality(Refs(b)') /\ Refs(b)' # {}
      BY <2>2, Finite DEF Shape
    <2>4. ASSUME NEW c \in Bufs, c # b
          PROVE  /\ Refs(c)' = Refs(c) /\ (Home(c)' <=> Home(c))
                 /\ dupCount'[c] = dupCount[c]
      BY <2>4 DEF Refs, Home, Shape
    <2> QED BY <2>1, <2>3, <2>4 DEF CountIsRefs
  <1>7. Conserved'
    <2> SUFFICES ASSUME NEW q \in Outs
                 PROVE  emptyQue'[q] + Cardinality(Live(q)') + numBuf[q] = Pool
      BY DEF Conserved
    <2>1. Live(q)' = Live(q) \cup {b} /\ b \notin Live(q) /\ Live(q) \in SUBSET Bufs
      BY <1>a DEF Live, Shape
    <2>2. Cardinality(Live(q)') = Cardinality(Live(q)) + 1
      BY <2>1, Finite, FS_AddElement
    <2>3. emptyQue'[q] = emptyQue[q] - 1 /\ emptyQue[q] \in Int /\ numBuf[q] \in Nat
      BY DEF Shape
    <2>4. Cardinality(Live(q)) \in Nat BY <2>1, Finite
    <2> QED BY <2>2, <2>3, <2>4 DEF Conserved
  <1> QED BY <1>1, <1>2, <1>3, <1>4, <1>5, <1>6, <1>7

(* Descriptors put or taken stay with their output.                         *)
LEMMA PutFullKeeps == ASSUME IInv, PutFull PROVE IInv'
  <1> USE DEF IInv, PutFull, putVars, prevVars
  <1>1. Shape' BY DEF Shape
  <1>2. TaskOK' BY DEF TaskOK, Shape, Outs
  <1>3. Disjoint' BY DEF Disjoint, Shape
  <1>4. PutOK' /\ ReturnedOnce' BY DEF PutOK, ReturnedOnce
  <1>5. CountIsRefs'
    <2>1. \A c \in Bufs : Refs(c)' = Refs(c) /\ (Home(c)' <=> Home(c))
      BY DEF Refs, Home, Shape
    <2> QED BY <2>1, Moved
  <1>6. Conserved'
    <2>1. \A q \in Outs : Live(q)' = Live(q) BY DEF Live, Shape
    <2> QED BY <2>1, Kept
  <1> QED BY <1>1, <1>2, <1>3, <1>4, <1>5, <1>6

LEMMA TellKeeps == ASSUME IInv, Tell PROVE IInv'
  <1> USE DEF IInv, Tell, putVars, prevVars
  <1>0. NumOut \in Nat \ {0} BY DupLinkAssumption
  <1>1. Shape'
    <2>1. outId' \in Outs BY <1>0 DEF Shape, Outs
    <2>2. told' \in [Outs -> BOOLEAN] /\ pc' \in {"wait", "put"} BY Zenon DEF Shape
    <2> QED BY <2>1, <2>2 DEF Shape
  <1>2. TaskOK'
    <2>1. inBufList' = {} /\ outBufList' = outBufList BY DEF TaskOK
    <2>2. \A q \in Outs : q <= outId => outBufList[q] = {} BY DEF TaskOK
    <2>3. outId \in Int /\ \A q \in Outs : q \in Int /\ q <= NumOut
      BY <1>0 DEF Shape, Outs
    <2>4. CASE outId = NumOut
      <3>1. \A q \in Outs : outBufList[q] = {} BY <2>2, <2>3, <2>4
      <3> QED BY <2>1, <2>4, <3>1 DEF TaskOK
    <2>5. CASE outId # NumOut
      <3>1. \A q \in Outs : q < outId + 1 => outBufList[q] = {} BY <2>2, <2>3
      <3>2. pc' = "put" /\ outId' = outId + 1 BY <2>5
      <3> QED BY <2>1, <3>1, <3>2 DEF TaskOK
    <2> QED BY <2>4, <2>5
  <1>3. Disjoint' /\ PutOK' /\ ReturnedOnce' BY DEF Disjoint, PutOK, ReturnedOnce
  <1>4. CountIsRefs'
    <2>1. \A c \in Bufs : Refs(c)' = Refs(c) /\ (Home(c)' <=> Home(c)) BY DEF Refs, Home
    <2> QED BY <2>1, Moved
  <1>5. Conserved'
    <2>1. \A q \in Outs : Live(q)' = Live(q) BY DEF Live
    <2> QED BY <2>1, Kept
  <1> QED BY <1>1, <1>2, <1>3, <1>4, <1>5

LEMMA TakeKeeps == ASSUME IInv, NEW p \in Outs, Take(p) PROVE IInv'
  <1> USE DEF IInv, Take, putVars, prevVars, dupVars
  <1>1. Shape' BY DEF Shape
  <1>2. TaskOK' BY DEF TaskOK
  <1>3. Disjoint' BY DEF Disjoint, Shape
  <1>4. PutOK' /\ ReturnedOnce' BY DEF PutOK, ReturnedOnce
  <1>5. CountIsRefs'
    <2>1. \A c \in Bufs : Refs(c)' = Refs(c) /\ (Home(c)' <=> Home(c))
      BY DEF Refs, Home, Shape
    <2> QED BY <2>1, Moved
  <1>6. Conserved'
    <2>1. \A q \in Outs : Live(q)' = Live(q) BY DEF Live, Shape
    <2> QED BY <2>1, Kept
  <1> QED BY <1>1, <1>2, <1>3, <1>4, <1>5, <1>6

(* A list to be returned leaves the descriptors in use for those counted in   *)
(* numBuf.                                                                  *)
LEMMA PutCallKeeps ==
  ASSUME IInv, NEW p \in Outs, NEW bufs \in SUBSET Bufs, PutCall(p, bufs) PROVE IInv'
  <1> USE DEF IInv, PutCall, prevVars, dupVars
  <1>0. todo[p] = {} /\ freeList[p] = {} /\ lock # p /\ numBuf[p] = 0
    BY DEF PutOK, Conserved
  <1>a. Cardinality(bufs) \in Nat /\ Cardinality(bufs) <= Cardinality(Bufs) BY Finite
  <1>1. Shape' BY <1>a DEF Shape
  <1>2. TaskOK' BY DEF TaskOK
  <1>3. Disjoint' BY DEF Disjoint, Shape
  <1>4. PutOK' BY <1>0 DEF PutOK, Shape
  <1>5. ReturnedOnce' BY DEF ReturnedOnce
  <1>6. CountIsRefs'
    <2>1. \A c \in Bufs : Refs(c)' = Refs(c) /\ (Home(c)' <=> Home(c))
      BY <1>0 DEF Refs, Home, Shape
    <2> QED BY <2>1, Moved
  <1>7. Conserved'
    <2> SUFFICES ASSUME NEW q \in Outs
                 PROVE  /\ emptyQue[q] + Cardinality(Live(q)') + numBuf'[q] = Pool
                        /\ numBuf'[q] <= Cardinality(Bufs)
                        /\ putPc'[q] = "idle" => numBuf'[q] = 0
      BY DEF Conserved
    <2>1. CASE q = p
      <3>1. Live(q)' = Live(q) \ bufs /\ Live(q) \cap bufs = bufs
        BY <2>1 DEF Live, Shape, Disjoint
      <3>2. Live(q) \in SUBSET Bufs BY DEF Live, Shape
      <3>3. Cardinality(Live(q)') = Cardinality(Live(q)) - Cardinality(bufs)
        BY <3>1, <3>2, Finite, FS_Difference
      <3>4. numBuf'[q] = Cardinality(bufs) /\ putPc'[q] = "lock" BY <2>1 DEF Shape
      <3>5. emptyQue[q] \in Int BY DEF Shape
      <3>6. emptyQue[q] + Cardinality(Live(q)) + 0 = Pool
        BY <1>0, <2>1 DEF Conserved
      <3>7. Cardinality(Live(q)) \in Nat BY <3>2, Finite
      <3> QED BY <1>a, <3>3, <3>4, <3>5, <3>6, <3>7
    <2>2. CASE q # p
      <3>1. Live(q)' = Live(q) BY <2>2 DEF Live, Shape
      <3>2. numBuf'[q] = numBuf[q] /\ putPc'[q] = putPc[q] BY <2>2 DEF Shape
      <3> QED BY <3>1, <3>2 DEF Conserved
    <2> QED BY <2>1, <2>2
  <1> QED BY <1>1, <1>2, <1>3, <1>4, <1>5, <1>6, <1>7

(* Only the next link with the lock counts.                                 *)
LEMMA PutLockKeeps == ASSUME IInv, NEW p \in Outs, PutLock(p) PROVE IInv'
  <1> USE DEF IInv, PutLock, prevVars, dupVars
  <1>0. p # NoOne BY DupLinkAssumption
  <1>b. \A q \in Outs : putPc[q] \notin {"load", "store", "forward"}
    <2>1. \A q \in Outs : lock # q BY DupLinkAssumption
    <2> QED BY <2>1 DEF PutOK
  <1>1. Shape' BY DEF Shape
  <1>2. TaskOK' /\ Disjoint' /\ ReturnedOnce' BY DEF TaskOK, Disjoint, ReturnedOnce
  <1>4. PutOK'
    <2>1. lock' = p /\ putPc'[p] = "load" BY DEF Shape
    <2>2. \A q \in Outs \ {p} : /\ putPc'[q] = putPc[q] /\ lock' # q
                               /\ putPc[q] \notin {"load", "store", "forward"}
      BY <1>b, <2>1 DEF Shape
    <2>3. todo' = todo /\ freeList' = freeList /\ pBuf' = pBuf /\ reg' = reg
          /\ dupCount' = dupCount
      OBVIOUS
    <2> SUFFICES ASSUME NEW q \in Outs
                 PROVE  /\ lock' = q <=> putPc'[q] \in {"load", "store", "forward"}
                        /\ todo[q] # {} => putPc'[q] \in {"lock", "load", "store"}
                        /\ freeList[q] # {} => putPc'[q] \in {"load", "store", "forward"}
                        /\ putPc'[q] = "store" =>
                             pBuf[q] \in todo[q] /\ reg[q] = dupCount[pBuf[q]]
      BY <2>3 DEF PutOK
    <2>4. CASE q = p BY <2>1, <2>4
    <2>5. CASE q # p BY <2>2, <2>5 DEF PutOK
    <2> QED BY <2>4, <2>5
  <1>6. CountIsRefs'
    <2>1. \A c \in Bufs : Refs(c)' = Refs(c) /\ (Home(c)' <=> Home(c)) BY DEF Refs, Home
    <2> QED BY <2>1, Moved
  <1>7. Conserved'
    <2>1. \A q \in Outs : Live(q)' = Live(q) /\ (putPc'[q] = "idle" => putPc[q] = "idle")
      BY DEF Live, Shape
    <2> QED BY <2>1, Kept
  <1> QED BY <1>1, <1>2, <1>4, <1>6, <1>7

LEMMA LoadKeeps == ASSUME IInv, NEW p \in Outs, NEW b \in Bufs, Load(p, b) PROVE IInv'
  <1> USE DEF IInv, Load, prevVars, dupVars
  <1>1. Shape' BY DEF Shape
  <1>2. TaskOK' /\ Disjoint' /\ ReturnedOnce' BY DEF TaskOK, Disjoint, ReturnedOnce
  <1>4. PutOK' BY DEF PutOK, Shape
  <1>6. CountIsRefs'
    <2>1. \A c \in Bufs : Refs(c)' = Refs(c) /\ (Home(c)' <=> Home(c)) BY DEF Refs, Home
    <2> QED BY <2>1, Moved
  <1>7. Conserved'
    <2>1. \A q \in Outs : Live(q)' = Live(q) /\ (putPc'[q] = "idle" => putPc[q] = "idle")
      BY DEF Live, Shape
    <2> QED BY <2>1, Kept
  <1> QED BY <1>1, <1>2, <1>4, <1>6, <1>7

(* The buffer counted is out on one output less; at 0 it is on none.        *)
LEMMA StoreKeeps == ASSUME IInv, NEW p \in Outs, Store(p) PROVE IInv'
  <1> USE DEF IInv, Store, prevVars, dupVars
  <1>x. pBuf[p] \in Bufs BY DEF PutOK, Shape
  <1> PICK b \in Bufs : b = pBuf[p] BY <1>x
  <1>0. b \in todo[p] /\ reg[p] = dupCount[b] /\ lock = p BY DEF PutOK
  <1>a. \A q \in Outs : q # p => putPc[q] \notin {"load", "store", "forward"}
    BY <1>0 DEF PutOK
  <1>b. Refs(b) \in SUBSET Outs /\ p \in Refs(b) BY <1>0 DEF Refs
  <1>c. ~Home(b) /\ dupCount[b] = Cardinality(Refs(b)) BY <1>0, <1>b DEF CountIsRefs
  <1>d. Refs(b)' = Refs(b) \ {p}
    <2>1. b \notin outBufList[p] \cup fullQue[p] \cup held[p]
      BY <1>0 DEF Disjoint
    <2>2. todo'[p] = todo[p] \ {b} /\ \A q \in Outs : q # p => todo'[q] = todo[q]
      BY DEF Shape
    <2> QED BY <2>1, <2>2 DEF Refs
  <1>e. /\ IsFiniteSet(Refs(b)) /\ Cardinality(Refs(b)) \in Nat
        /\ Cardinality(Refs(b)') = Cardinality(Refs(b)) - 1
    BY <1>b, <1>d, Finite, FS_RemoveElement
  <1>f. dupCount'[b] = Cardinality(Refs(b)') BY <1>0, <1>c, <1>e DEF Shape
  <1>g. dupCount'[b] = 0 <=> Refs(b)' = {}
    <2>1. IsFiniteSet(Refs(b)') BY <1>d, <1>e, FS_RemoveElement
    <2> QED BY <2>1, <1>f, FS_EmptySet
  <1>h. freeList' = [freeList EXCEPT ![p] = IF dupCount'[b] = 0 THEN @ \cup {b} ELSE @]
    BY <1>0 DEF Shape
  <1>1. Shape'
    <2>1. reg[p] - 1 \in Int /\ 0 \in Int BY DEF Shape
    <2> QED BY <1>0, <1>h, <2>1 DEF Shape
  <1>2. TaskOK' BY DEF TaskOK
  <1>3. Disjoint' BY DEF Disjoint, Shape
  <1>4. PutOK' BY <1>0, <1>a DEF PutOK, Shape
  <1>5. ReturnedOnce'
    <2>1. \A q \in Outs : b \notin freeList[q] BY <1>c DEF Home
    <2>2. b \notin prevFree \cup prevFull \cup inBufList BY <1>c DEF Home
    <2> QED BY <1>h, <2>1, <2>2 DEF ReturnedOnce, Shape
  <1>6. CountIsRefs'
    <2>1. CASE dupCount'[b] = 0
      <3>1. freeList' = [freeList EXCEPT ![p] = @ \cup {b}] BY <2>1, <1>h
      <3>2. b \in freeList'[p] BY <3>1 DEF Shape
      <3>3. Home(b)' BY <3>2 DEF Home
      <3>4. ASSUME NEW c \in Bufs, c # b PROVE Home(c)' <=> Home(c)
        BY <3>1, <3>4 DEF Home, Shape
      <3>5. ASSUME NEW c \in Bufs, c # b
            PROVE  Refs(c)' = Refs(c) /\ dupCount'[c] = dupCount[c]
        BY <3>5, <1>0 DEF Refs, Shape
      <3> QED BY <1>g, <2>1, <3>3, <3>4, <3>5 DEF CountIsRefs
    <2>2. CASE dupCount'[b] # 0
      <3>1. freeList' = freeList BY <2>2, <1>h DEF Shape
      <3>2. \A c \in Bufs : Home(c)' <=> Home(c) BY <3>1 DEF Home
      <3>5. ASSUME NEW c \in Bufs, c # b
            PROVE  Refs(c)' = Refs(c) /\ dupCount'[c] = dupCount[c]
        BY <3>5, <1>0 DEF Refs, Shape
      <3> QED BY <1>c, <1>0, <1>f, <1>g, <2>2, <3>2, <3>5 DEF CountIsRefs
    <2> QED BY <2>1, <2>2
  <1>7. Conserved'
    <2>1. \A q \in Outs : Live(q)' = Live(q) /\ (putPc'[q] = "idle" => putPc[q] = "idle")
      BY DEF Live, Shape
    <2> QED BY <2>1, Kept
  <1> QED BY <1>1, <1>2, <1>3, <1>4, <1>5, <1>6, <1>7

(* The buffers to be returned are those of no descriptor, with the lock.     *)
LEMMA ForwardKeeps == ASSUME IInv, NEW p \in Outs, Forward(p) PROVE IInv'
  <1> USE DEF IInv, Forward, dupVars
  <1>0. p # NoOne /\ lock = p BY DupLinkAssumption DEF PutOK
  <1>a. /\ freeList'[p] = {} /\ \A q \in Outs \ {p} : freeList'[q] = freeList[q]
        /\ putPc'[p] = "empty" /\ \A q \in Outs \ {p} : putPc'[q] = putPc[q]
    BY DEF Shape
  <1>1. Shape' BY DEF Shape
  <1>2. TaskOK' /\ Disjoint' BY DEF TaskOK, Disjoint
  <1>3. PutOK'
    <2>1. \A q \in Outs \ {p} : putPc[q] \notin {"load", "store", "forward"}
      BY <1>0 DEF PutOK
    <2>2. todo[p] = {} BY DEF PutOK
    <2>3. NoOne \notin Outs BY DupLinkAssumption
    <2> QED BY <1>a, <2>1, <2>2, <2>3 DEF PutOK
  <1>4. ReturnedOnce' BY <1>a DEF ReturnedOnce
  <1>5. CountIsRefs'
    <2>1. \A c \in Bufs : Refs(c)' = Refs(c) BY DEF Refs
    <2>2. \A c \in Bufs : Home(c)' <=> Home(c) BY <1>a DEF Home
    <2> QED BY <2>1, <2>2, Moved
  <1>6. Conserved'
    <2>1. \A q \in Outs : Live(q)' = Live(q) /\ (putPc'[q] = "idle" => putPc[q] = "idle")
      BY <1>a DEF Live
    <2> QED BY <2>1, Kept
  <1> QED BY <1>1, <1>2, <1>3, <1>4, <1>5, <1>6

(* The descriptors counted in numBuf are empty again.                       *)
LEMMA PutEmptyKeeps == ASSUME IInv, NEW p \in Outs, PutEmpty(p) PROVE IInv'
  <1> USE DEF IInv, PutEmpty, prevVars, dupVars
  <1>a. putPc'[p] = "idle" /\ \A q \in Outs \ {p} : putPc'[q] = putPc[q]
    BY DEF Shape
  <1>1. Shape' BY DEF Shape
  <1>2. TaskOK' /\ Disjoint' /\ ReturnedOnce' BY DEF TaskOK, Disjoint, ReturnedOnce
  <1>3. PutOK'
    <2>1. lock # p /\ todo[p] = {} /\ freeList[p] = {} BY DEF PutOK
    <2> QED BY <1>a, <2>1 DEF PutOK
  <1>5. CountIsRefs'
    <2>1. \A c \in Bufs : Refs(c)' = Refs(c) /\ (Home(c)' <=> Home(c)) BY DEF Refs, Home
    <2> QED BY <2>1, Moved
  <1>6. Conserved'
    <2>1. \A q \in Outs : Live(q)' = Live(q) /\ Cardinality(Live(q)) \in Nat
      <3>1. \A q \in Outs : Live(q) \in SUBSET Bufs BY DEF Live, Shape
      <3>2. \A q \in Outs : Live(q)' = Live(q) BY DEF Live
      <3> QED BY <3>1, <3>2, Finite
    <2>2. Cardinality(Bufs) \in Nat BY Finite
    <2>3. \A q \in Outs : emptyQue'[q] + numBuf'[q] = emptyQue[q] + numBuf[q]
      BY DEF Shape
    <2>4. \A q \in Outs : emptyQue[q] \in Int /\ numBuf[q] \in Nat
                          /\ emptyQue'[q] \in Int /\ numBuf'[q] \in Nat
      BY <1>1 DEF Shape
    <2>5. numBuf'[p] = 0 /\ \A q \in Outs \ {p} : numBuf'[q] = numBuf[q] BY DEF Shape
    <2> SUFFICES ASSUME NEW q \in Outs
                 PROVE  /\ emptyQue'[q] + Cardinality(Live(q)') + numBuf'[q] = Pool
                        /\ numBuf'[q] <= Cardinality(Bufs)
                        /\ putPc'[q] = "idle" => numBuf'[q] = 0
      BY DEF Conserved
    <2>6. emptyQue'[q] + Cardinality(Live(q)') + numBuf'[q] = Pool
      <3>1. emptyQue[q] + Cardinality(Live(q)) + numBuf[q] = Pool BY DEF Conserved
      <3>2. Cardinality(Live(q)') = Cardinality(Live(q)) BY <2>1
      <3>3. Cardinality(Live(q)) \in Nat BY <2>1
      <3> QED BY <2>3, <2>4, <3>1, <3>2, <3>3
    <2>7. numBuf'[q] <= Cardinality(Bufs) /\ (putPc'[q] = "idle" => numBuf'[q] = 0)
      BY <2>2, <2>5, <1>a DEF Conserved
    <2> QED BY <2>6, <2>7
  <1> QED BY <1>1, <1>2, <1>3, <1>5, <1>6

(* Stopping the next links loses nothing; creating it all anew finds no      *)
(* descriptor outside the full queues, and loses those.                     *)
LEMMA StopKeeps == ASSUME IInv, Stop PROVE IInv'
  <1> USE DEF IInv, Stop, prevVars, dupVars, putVars
  <1>1. Shape' BY DEF Shape
  <1>2. TaskOK' /\ Disjoint' /\ PutOK' /\ ReturnedOnce'
    BY DEF TaskOK, Disjoint, PutOK, ReturnedOnce
  <1>3. CountIsRefs'
    <2>1. \A c \in Bufs : Refs(c)' = Refs(c) /\ (Home(c)' <=> Home(c)) BY DEF Refs, Home
    <2> QED BY <2>1, Moved
  <1>4. Conserved'
    <2>1. \A q \in Outs : Live(q)' = Live(q) BY DEF Live
    <2> QED BY <2>1, Kept
  <1> QED BY <1>1, <1>2, <1>3, <1>4

LEMMA RecreateKeeps == ASSUME IInv, Recreate PROVE IInv'
  <1> USE DEF IInv, Recreate, dupVars, putVars
  <1>0. /\ inBufList = {}
        /\ \A q \in Outs : outBufList[q] = {} /\ todo[q] = {} /\ freeList[q] = {}
    BY DEF TaskOK, PutOK
  <1>1. Shape' BY DupLinkAssumption DEF Shape
  <1>2. TaskOK' /\ Disjoint' /\ PutOK' BY DEF TaskOK, Disjoint, PutOK
  <1>3. ReturnedOnce' BY <1>0 DEF ReturnedOnce
  <1>4. CountIsRefs'
    <2>1. \A c \in Bufs : Refs(c)' = {} /\ Home(c)' BY <1>0 DEF Refs, Home
    <2> QED BY <2>1 DEF CountIsRefs
  <1>5. Conserved'
    <2>1. \A q \in Outs : Live(q)' = {} BY <1>0 DEF Live
    <2>2. Cardinality({}) = 0 /\ Pool \in Nat BY FS_EmptySet, DupLinkAssumption
    <2>3. \A q \in Outs : emptyQue'[q] = Pool /\ numBuf'[q] = 0 /\ putPc'[q] = "idle"
      BY DEF Conserved
    <2>4. Cardinality(Bufs) \in Nat BY Finite
    <2> SUFFICES ASSUME NEW q \in Outs
                 PROVE  /\ emptyQue'[q] + Cardinality(Live(q)') + numBuf'[q] = Pool
                        /\ numBuf'[q] <= Cardinality(Bufs) /\ numBuf'[q] = 0
      BY DEF Conserved
    <2>5. Cardinality(Live(q)') = 0 BY <2>1, <2>2
    <2> QED BY <2>2, <2>3, <2>4, <2>5
  <1> QED BY <1>1, <1>2, <1>3, <1>4, <1>5

-----------------------------------------------------------------------------
LEMMA NextKeeps == ASSUME IInv, [Next]_vars PROVE IInv'
  <1>1. CASE UNCHANGED vars
    <2> USE <1>1 DEF vars, prevVars, dupVars, putVars
    <2>1. Shape' <=> Shape BY DEF Shape
    <2>2. (TaskOK' <=> TaskOK) /\ (Disjoint' <=> Disjoint) /\ (PutOK' <=> PutOK)
      BY DEF TaskOK, Disjoint, PutOK
    <2>3. ReturnedOnce' <=> ReturnedOnce BY DEF ReturnedOnce
    <2>4. \A c \in Bufs : Refs(c)' = Refs(c) /\ (Home(c)' <=> Home(c)) BY DEF Refs, Home
    <2>5. \A q \in Outs : Live(q)' = Live(q) BY DEF Live
    <2>6. CountIsRefs' BY <2>4, Moved DEF IInv
    <2>7. Conserved' BY <2>5, Kept DEF IInv
    <2> QED BY <2>1, <2>2, <2>3, <2>6, <2>7 DEF IInv
  <1>2. ASSUME NEW b \in Bufs, Produce(b) PROVE IInv' BY <1>2, ProduceKeeps
  <1>3. CASE GetFull BY <1>3, GetFullKeeps
  <1>4. ASSUME NEW b \in Bufs, Duplicate(b) PROVE IInv' BY <1>4, DuplicateKeeps
  <1>5. CASE PutFull BY <1>5, PutFullKeeps
  <1>6. CASE Tell BY <1>6, TellKeeps
  <1>7. ASSUME NEW q \in Outs, Take(q) PROVE IInv' BY <1>7, TakeKeeps
  <1>8. ASSUME NEW q \in Outs, NEW bufs \in SUBSET Bufs, PutCall(q, bufs) PROVE IInv'
    BY <1>8, PutCallKeeps
  <1>9. ASSUME NEW q \in Outs, PutLock(q) PROVE IInv' BY <1>9, PutLockKeeps
  <1>10. ASSUME NEW q \in Outs, NEW b \in Bufs, Load(q, b) PROVE IInv' BY <1>10, LoadKeeps
  <1>11. ASSUME NEW q \in Outs, Store(q) PROVE IInv' BY <1>11, StoreKeeps
  <1>12. ASSUME NEW q \in Outs, Forward(q) PROVE IInv' BY <1>12, ForwardKeeps
  <1>13. ASSUME NEW q \in Outs, PutEmpty(q) PROVE IInv' BY <1>13, PutEmptyKeeps
  <1>14. CASE Stop BY <1>14, StopKeeps
  <1>15. CASE Recreate BY <1>15, RecreateKeeps
  <1> QED
    BY <1>1, <1>2, <1>3, <1>4, <1>5, <1>6, <1>7, <1>8, <1>9, <1>10, <1>11, <1>12, <1>13,
       <1>14, <1>15 DEF Next, Process, Returns

LEMMA Invariance == Spec => []IInv
  <1>1. IInv /\ [Next]_vars => IInv' BY NextKeeps
  <1> QED BY InitIInv, <1>1, PTL DEF Spec

(* dupLink_tsk.c:261-298: dupCount is the number of outputs a buffer is out    *)
(* on, for any number of next links returning it in any order.              *)
THEOREM CountCorrect == Spec => []CountIsRefs
  <1>1. IInv => CountIsRefs BY DEF IInv
  <1> QED BY Invariance, <1>1, PTL

(* dupLink_tsk.c:298-303: no buffer is returned to the previous link twice.   *)
THEOREM OnceReturned == Spec => []ReturnedOnce
  <1>1. IInv => ReturnedOnce BY DEF IInv
  <1> QED BY Invariance, <1>1, PTL

(* dupLink_tsk.c:165: with twice as many descriptors per output as the        *)
(* previous link has buffers, one is always there.                          *)
THEOREM DescriptorsSuffice ==
  ASSUME Pool >= 2 * Cardinality(Bufs) PROVE Spec => []DescriptorAvailable
  <1>1. IInv => DescriptorAvailable
    <2> SUFFICES ASSUME IInv, pc = "dup", NEW q \in Outs PROVE emptyQue[q] > 0
      BY DEF DescriptorAvailable
    <2>1. PICK b \in Bufs : b \in inBufList BY DEF IInv, TaskOK, Shape
    <2>2. Live(q) \in SUBSET (Bufs \ {b})
      <3>1. Refs(b) = {} BY <2>1 DEF IInv, CountIsRefs, Home
      <3> QED BY <3>1 DEF IInv, Shape, Live, Refs
    <2>3. Cardinality(Live(q)) <= Cardinality(Bufs) - 1
      <3>1. /\ IsFiniteSet(Bufs \ {b})
            /\ Cardinality(Bufs \ {b}) = Cardinality(Bufs) - 1
        BY DupLinkAssumption, FS_RemoveElement
      <3>2. Cardinality(Live(q)) <= Cardinality(Bufs \ {b}) BY <2>2, <3>1, FS_Subset
      <3> QED BY <3>1, <3>2
    <2>4. Live(q) \in SUBSET Bufs BY <2>2
    <2>5. Cardinality(Live(q)) \in Nat /\ Cardinality(Bufs) \in Nat BY <2>4, Finite
    <2>6. /\ emptyQue[q] + Cardinality(Live(q)) + numBuf[q] = Pool
          /\ numBuf[q] <= Cardinality(Bufs)
      BY DEF IInv, Conserved
    <2>7. emptyQue[q] \in Int /\ numBuf[q] \in Nat /\ Pool \in Nat
      BY DupLinkAssumption DEF IInv, Shape
    <2> QED BY <2>3, <2>5, <2>6, <2>7
  <1> QED BY Invariance, <1>1, PTL

(* The counts stay within the number of outputs: none wraps below 0.        *)
Bounded == dupCount \in [Bufs -> 0 .. NumOut] /\ reg \in [Outs -> 0 .. NumOut]

LEMMA BoundedKeeps == ASSUME IInv, Bounded, [Next]_vars PROVE Bounded'
  <1> USE DEF Bounded
  <1>0. NumOut \in Nat BY DupLinkAssumption
  <1>1. ASSUME dupCount' = dupCount, reg' = reg PROVE Bounded' BY <1>1
  <1>2. ASSUME NEW b \in Bufs, Duplicate(b) PROVE Bounded'
    BY <1>0, <1>2 DEF Duplicate, putVars
  <1>3. ASSUME NEW q \in Outs, NEW b \in Bufs, Load(q, b) PROVE Bounded' BY <1>3 DEF Load
  <1>4. ASSUME NEW q \in Outs, Store(q) PROVE Bounded'
    <2>1. PICK b \in Bufs : b = pBuf[q] /\ b \in todo[q] /\ reg[q] = dupCount[b]
      BY <1>4 DEF Store, IInv, PutOK, Shape
    <2>2. q \in Refs(b) /\ Refs(b) \in SUBSET Outs BY <2>1 DEF Refs
    <2>3. reg[q] = Cardinality(Refs(b)) BY <2>1, <2>2 DEF IInv, CountIsRefs
    <2>4. reg[q] # 0 BY <2>2, <2>3, Finite, FS_EmptySet
    <2>5. reg[q] - 1 \in 0 .. NumOut BY <1>0, <2>4
    <2>6. dupCount' = [dupCount EXCEPT ![b] = reg[q] - 1] /\ reg' = [reg EXCEPT ![q] = 0]
      BY <1>4, <2>1 DEF Store
    <2> QED BY <1>0, <2>5, <2>6
  <1>5. ASSUME NEW q \in Outs,
               Take(q) \/ (\E bufs \in SUBSET Bufs : PutCall(q, bufs)) \/ PutLock(q)
                 \/ Forward(q) \/ PutEmpty(q)
        PROVE  dupCount' = dupCount /\ reg' = reg
    BY <1>5 DEF Take, PutCall, PutLock, Forward, PutEmpty, putVars
  <1>6. ASSUME (\E b \in Bufs : Produce(b)) \/ GetFull \/ PutFull \/ Tell \/ Stop \/ Recreate
                 \/ UNCHANGED vars
        PROVE  dupCount' = dupCount /\ reg' = reg
    BY <1>6 DEF Produce, GetFull, PutFull, Tell, Stop, Recreate, vars, putVars
  <1> QED BY <1>1, <1>2, <1>3, <1>4, <1>5, <1>6 DEF Next, Process, Returns

(* The type invariant.                                                      *)
THEOREM TypeCorrect == Spec => []TypeOK
  <1>1. Init => Bounded BY DupLinkAssumption DEF Init, Bounded
  <1>2. IInv /\ Bounded /\ [Next]_vars => Bounded' BY BoundedKeeps
  <1>3. IInv /\ Bounded => TypeOK
    <2> SUFFICES ASSUME IInv, Bounded PROVE TypeOK OBVIOUS
    <2>1. ASSUME NEW q \in Outs PROVE emptyQue[q] <= Pool
      <3>1. Live(q) \in SUBSET Bufs BY DEF Live, IInv, Shape
      <3>2. Cardinality(Live(q)) \in Nat BY <3>1, Finite
      <3>3. emptyQue[q] \in Int /\ numBuf[q] \in Nat /\ Pool \in Nat
        BY DupLinkAssumption DEF IInv, Shape
      <3> QED BY <3>2, <3>3 DEF IInv, Conserved
    <2> QED BY <2>1 DEF IInv, Shape, Bounded, TypeOK
  <1> QED BY Invariance, <1>1, <1>2, <1>3, PTL DEF Spec

-----------------------------------------------------------------------------
(* Nothing is forgotten: who has a buffer to move on has been told of it, or   *)
(* is about to be.  A next link that is stopped leaves its full queue.        *)
Told ==
  /\ prevFull # {} => newData
  /\ \A q \in Outs : running /\ fullQue[q] # {} => told[q] \/ (pc = "tell" /\ q = outId)

LEMMA ToldKeeps == ASSUME IInv, Told, [Next]_vars PROVE Told'
  <1> USE DEF Told
  <1>1. ASSUME NEW b \in Bufs, Produce(b) PROVE Told' BY <1>1 DEF Produce
  <1>2. CASE GetFull BY <1>2 DEF GetFull
  <1>3. ASSUME NEW b \in Bufs, Duplicate(b) PROVE Told'
    <2>1. /\ UNCHANGED <<prevFull, newData, fullQue, told, running>> /\ pc # "tell"
      BY <1>3 DEF Duplicate, prevVars
    <2> QED BY <2>1
  <1>4. CASE PutFull
    <2>1. pc = "put" /\ pc' = "tell" /\ outId' = outId /\ told' = told /\ running' = running
      BY <1>4 DEF PutFull
    <2>2. \A q \in Outs : q # outId => fullQue'[q] = fullQue[q]
      BY <1>4 DEF PutFull, IInv, Shape
    <2>3. prevFull' = prevFull /\ newData' = newData BY <1>4 DEF PutFull, prevVars
    <2> QED BY <2>1, <2>2, <2>3
  <1>5. CASE Tell
    <2>1. told' = [told EXCEPT ![outId] = TRUE] /\ outId \in Outs
      BY <1>5 DEF Tell, IInv, Shape
    <2>2. told'[outId] /\ \A q \in Outs : q # outId => told'[q] = told[q]
      BY <2>1 DEF IInv, Shape
    <2>3. fullQue' = fullQue /\ running' = running /\ prevFull' = prevFull /\ newData' = newData
      BY <1>5 DEF Tell, prevVars
    <2> QED BY <2>2, <2>3
  <1>6. ASSUME NEW q \in Outs, Take(q) PROVE Told'
    <2>1. /\ running' = running /\ prevFull' = prevFull /\ newData' = newData
          /\ pc' = pc /\ outId' = outId
      BY <1>6 DEF Take, prevVars, dupVars
    <2>2. \A r \in Outs : r # q => told'[r] = told[r] /\ fullQue'[r] = fullQue[r]
      BY <1>6 DEF Take, IInv, Shape
    <2>3. running => fullQue'[q] = {} BY <1>6 DEF Take, IInv, Shape
    <2> QED BY <2>1, <2>2, <2>3
  <1>7. ASSUME NEW q \in Outs, Returns(q) PROVE Told'
    BY <1>7 DEF Returns, PutCall, PutLock, Load, Store, Forward, PutEmpty, prevVars, dupVars
  <1>8. CASE Stop BY <1>8 DEF Stop, prevVars, dupVars
  <1>9. CASE Recreate BY <1>9 DEF Recreate, dupVars
  <1>10. CASE UNCHANGED vars BY <1>10 DEF vars, prevVars, dupVars
  <1> QED BY <1>1, <1>2, <1>3, <1>4, <1>5, <1>6, <1>7, <1>8, <1>9, <1>10 DEF Next, Process

(* Somebody has b, and a reason to go on with it.                           *)
Moving(b) ==
  \/ b \in prevFull /\ newData
  \/ b \in inBufList /\ pc = "dup"
  \/ \E q \in Outs :
       \/ b \in outBufList[q] /\ \/ pc = "dup" \/ (pc = "put" /\ q >= outId)
                                 \/ (pc = "tell" /\ q > outId)
       \/ b \in fullQue[q] /\ (told[q] \/ (pc = "tell" /\ q = outId))
       \/ b \in held[q]
       \/ b \in todo[q] /\ putPc[q] \in {"lock", "load", "store"}
       \/ b \in freeList[q] /\ putPc[q] \in {"load", "store", "forward"}

(* While the next links run, a buffer is back with the previous link or about *)
(* to be moved on.                                                          *)
Awaited == running => \A b \in Bufs : b \in prevFree \/ Moving(b)

(* The safety half of BufferReturned: no NEW_DATA is lost between the previous *)
(* link, the dup link and any number of next links, nor a buffer between the  *)
(* returns of two of them; what is left to fairness is that each goes on.    *)
THEOREM BuffersAwaited == Spec => []Awaited
  <1>1. Init => Told BY DEF Init, Told
  <1>2. IInv /\ Told /\ [Next]_vars => Told' BY ToldKeeps
  <1>3. IInv /\ Told => Awaited
    <2> SUFFICES ASSUME IInv, Told, running, NEW b \in Bufs, b \notin prevFree
                 PROVE  Moving(b)
      BY DEF Awaited
    <2>1. CASE Home(b)
      <3>1. CASE b \in prevFull BY <3>1 DEF Told, Moving
      <3>2. CASE b \in inBufList BY <3>2 DEF IInv, TaskOK, Moving
      <3>3. ASSUME NEW q \in Outs, b \in freeList[q] PROVE Moving(b)
        BY <3>3 DEF IInv, PutOK, Moving
      <3> QED BY <2>1, <3>1, <3>2, <3>3 DEF Home
    <2>2. CASE ~Home(b)
      <3>1. PICK q \in Outs : b \in outBufList[q] \cup fullQue[q] \cup held[q] \cup todo[q]
        BY <2>2 DEF IInv, CountIsRefs, Refs
      <3>2. CASE b \in outBufList[q]
        <4>1. q \in Int /\ outId \in Int BY DupLinkAssumption DEF Outs, IInv, Shape
        <4>2. pc \in {"dup", "put", "tell"} BY <3>2 DEF IInv, Shape, TaskOK
        <4>3. pc = "put" => ~(q < outId) BY <3>2 DEF IInv, TaskOK
        <4>4. pc = "tell" => ~(q <= outId) BY <3>2 DEF IInv, TaskOK
        <4>5. pc = "dup" \/ (pc = "put" /\ q >= outId) \/ (pc = "tell" /\ q > outId)
          BY <4>1, <4>2, <4>3, <4>4
        <4> QED BY <3>2, <4>5 DEF Moving
      <3>3. CASE b \in fullQue[q] BY <3>3 DEF Told, Moving
      <3>4. CASE b \in held[q] BY <3>4 DEF Moving
      <3>5. CASE b \in todo[q] BY <3>5 DEF IInv, PutOK, Moving
      <3> QED BY <3>1, <3>2, <3>3, <3>4, <3>5
    <2> QED BY <2>1, <2>2
  <1> QED BY Invariance, <1>1, <1>2, <1>3, PTL DEF Spec
=============================================================================
