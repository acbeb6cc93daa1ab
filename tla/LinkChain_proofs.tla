-------------------------- MODULE LinkChain_proofs --------------------------
(***************************************************************************)
(* Theorems about LinkChain.  That no buffer is lost or doubled and that a  *)
(* buffer comes home with its channel are one inductive invariant, Kept:     *)
(* each buffer has one place, and as long as it is not the source's, the      *)
(* channel it had there is in selectOrgChNum.                                *)
(***************************************************************************)
EXTENDS LinkChain, FiniteSetTheorems, WellFoundedInduction, NaturalsInduction, TLAPS

At(b, i) ==
  /\ (b \in srcFree) <=> (i = 1)
  /\ (b \in srcFull) <=> (i = 2)
  /\ (b \in outFrameQue[0]) <=> (i = 3)
  /\ (b \in outFrameQue[1]) <=> (i = 4)
  /\ (b \in inBufList) <=> (i = 5)
  /\ (b \in outBufQue) <=> (i = 6)
  /\ (b \in held) <=> (i = 7)
  /\ (b \in putList) <=> (i = 8)

Home(b, i) == IF i <= 2 THEN chNum[b] = ChOf[b] ELSE orgChNum[b] = ChOf[b]

Kept == \A b \in Bufs : \E i \in 1..8 : At(b, i) /\ Home(b, i)

Sorts ==
  /\ srcFree \subseteq Bufs /\ srcFull \subseteq Bufs
  /\ outFrameQue \in [Ques -> SUBSET Bufs]
  /\ inBufList \subseteq Bufs /\ outBufQue \subseteq Bufs
  /\ held \subseteq Bufs /\ putList \subseteq Bufs
  /\ mergePc \notin {"count", "halted0", "halted1"} => inBufList = {}
  /\ putPc # "gate" => putList = {}

LEMMA InitKept == Init => Sorts /\ Kept
<1>1. SUFFICES ASSUME Init PROVE Sorts /\ Kept  OBVIOUS
<1>2. Sorts  BY <1>1 DEF Init, Sorts, Ques
<1>3. ASSUME NEW b \in Bufs PROVE At(b, 1) /\ Home(b, 1)
  BY <1>1, <1>3 DEF Init, At, Home, Ques
<1>4. Kept
  <2>1. 1 \in 1..8  OBVIOUS
  <2> QED  BY <1>3, <2>1 DEF Kept
<1> QED  BY <1>2, <1>4

LEMMA ProduceKept ==
  ASSUME Sorts, Kept, NEW x \in Bufs, Produce(x) PROVE Sorts' /\ Kept'
<1>1. Sorts'  BY DEF Sorts, Produce, gateVars, mergeVars, nextVars
<1>2. ASSUME NEW b \in Bufs PROVE \E j \in 1..8 : At(b, j)' /\ Home(b, j)'
  <2>1. PICK i \in 1..8 : At(b, i) /\ Home(b, i)  BY DEF Kept
  <2>2. CASE b = x
    <3>1. At(b, 2)' /\ Home(b, 2)'
      BY <2>1, <2>2 DEF Produce, At, Home, gateVars, mergeVars, nextVars
    <3> QED  BY <3>1
  <2>3. CASE b # x
    <3>1. At(b, i)' /\ Home(b, i)'
      BY <2>1, <2>3 DEF Produce, At, Home, gateVars, mergeVars, nextVars
    <3> QED  BY <3>1
  <2> QED  BY <2>2, <2>3
<1> QED  BY <1>1, <1>2 DEF Kept

(* Routed(0) and Routed(1) are disjoint: a channel has one queue.           *)
LEMMA SelectKept == ASSUME Sorts, Kept, Select PROVE Sorts' /\ Kept'
<1> USE DEF gateVars, mergeVars, nextVars, Select, Ques
<1>0. Routed(0) \subseteq srcFull /\ Routed(1) \subseteq srcFull  BY DEF Routed
<1>1. Sorts'  BY <1>0 DEF Sorts
<1>2. ASSUME NEW b \in Bufs PROVE \E j \in 1..8 : At(b, j)' /\ Home(b, j)'
  <2>1. PICK i \in 1..8 : At(b, i) /\ Home(b, i)  BY DEF Kept
  <2>2. /\ outFrameQue'[0] = outFrameQue[0] \cup Routed(0)
        /\ outFrameQue'[1] = outFrameQue[1] \cup Routed(1)
    OBVIOUS
  <2>a. ~(b \in Routed(0) /\ b \in Routed(1))  BY DEF Routed
  <2>3. CASE b \in Routed(0)
    <3>0. i = 2  BY <1>0, <2>1, <2>3 DEF At
    <3>1. At(b, 3)'  BY <1>0, <2>1, <2>2, <2>3, <2>a, <3>0 DEF At
    <3>2. orgChNum'[b] = chNum[b]  BY <2>3
    <3>3. Home(b, 3)'  BY <2>1, <3>0, <3>2 DEF Home
    <3> QED  BY <3>1, <3>3
  <2>4. CASE b \in Routed(1)
    <3>0. i = 2  BY <1>0, <2>1, <2>4 DEF At
    <3>1. At(b, 4)'  BY <1>0, <2>1, <2>2, <2>4, <2>a, <3>0 DEF At
    <3>2. orgChNum'[b] = chNum[b]  BY <2>4
    <3>3. Home(b, 4)'  BY <2>1, <3>0, <3>2 DEF Home
    <3> QED  BY <3>1, <3>3
  <2>5. CASE b \notin Routed(0) /\ b \notin Routed(1) /\ i = 2
    <3>1. At(b, 1)'  BY <1>0, <2>1, <2>2, <2>5 DEF At
    <3>2. chNum'[b] = chNum[b]  BY <2>5
    <3>3. Home(b, 1)'  BY <2>1, <2>5, <3>2 DEF Home
    <3> QED  BY <3>1, <3>3
  <2>6. CASE b \notin Routed(0) /\ b \notin Routed(1) /\ i # 2
    <3>1. At(b, i)'  BY <1>0, <2>1, <2>2, <2>6 DEF At
    <3>2. chNum'[b] = chNum[b] /\ orgChNum'[b] = orgChNum[b]  BY <2>6
    <3>3. Home(b, i)'  BY <2>1, <3>2 DEF Home
    <3> QED  BY <3>1, <3>3
  <2> QED  BY <2>3, <2>4, <2>5, <2>6
<1> QED  BY <1>1, <1>2 DEF Kept

LEMMA GateDataKept == ASSUME Sorts, Kept, GateData PROVE Sorts' /\ Kept'
<1> USE DEF GateData, mergeVars, nextVars, Ques, SelectReturn
<1>1. CASE opOn
  <2>1. UNCHANGED <<srcFree, srcFull, chNum, orgChNum, outFrameQue, inBufList, outBufQue, held,
                    putList, mergePc, putPc>>
    BY <1>1
  <2> QED  BY <2>1 DEF Sorts, Kept, At, Home
<1>2. CASE ~opOn
  <2>1. Sorts'  BY <1>2 DEF Sorts
  <2>2. ASSUME NEW b \in Bufs PROVE \E j \in 1..8 : At(b, j)' /\ Home(b, j)'
    <3>1. PICK i \in 1..8 : At(b, i) /\ Home(b, i)  BY DEF Kept
    <3>2. outFrameQue'[0] = outFrameQue[0] /\ outFrameQue'[1] = {}  BY <1>2 DEF Sorts
    <3>3. CASE i = 4
      <4>1. b \in outFrameQue[1]  BY <3>1, <3>3 DEF At
      <4>2. At(b, 1)'  BY <1>2, <3>1, <3>2, <3>3, <4>1 DEF At
      <4>3. chNum'[b] = orgChNum[b]  BY <1>2, <4>1
      <4>4. Home(b, 1)'  BY <3>1, <3>3, <4>3 DEF Home
      <4> QED  BY <4>2, <4>4
    <3>4. CASE i # 4
      <4>1. b \notin outFrameQue[1]  BY <3>1, <3>4 DEF At
      <4>2. At(b, i)'  BY <1>2, <3>1, <3>2, <3>4, <4>1 DEF At
      <4>3. chNum'[b] = chNum[b] /\ orgChNum'[b] = orgChNum[b]  BY <1>2, <4>1
      <4>4. Home(b, i)'  BY <3>1, <4>3 DEF Home
      <4> QED  BY <4>2, <4>4
    <3> QED  BY <3>3, <3>4
  <2> QED  BY <2>1, <2>2 DEF Kept
<1> QED  BY <1>1, <1>2

(* The steps that move no buffer.                                           *)
LEMMA StillKept ==
  ASSUME Sorts, Kept,
         UNCHANGED <<srcFree, srcFull, chNum, orgChNum, outFrameQue, inBufList, outBufQue, held,
                     putList>>,
         mergePc' \notin {"count", "halted0", "halted1"}
           => mergePc \notin {"count", "halted0", "halted1"},
         putPc' # "gate" => putPc # "gate"
  PROVE Sorts' /\ Kept'
BY DEF Sorts, Kept, At, Home

LEMMA MergeDirectKept == ASSUME Sorts, Kept, MergeDirect PROVE Sorts' /\ Kept'
<1> USE DEF MergeDirect, Merged, gateVars, nextVars, Ques
<1>1. outFrameQue'[0] = {} /\ outFrameQue'[1] = outFrameQue[1]  BY DEF Sorts
<1>2. Sorts'  BY DEF Sorts
<1>3. ASSUME NEW b \in Bufs PROVE \E j \in 1..8 : At(b, j)' /\ Home(b, j)'
  <2>1. PICK i \in 1..8 : At(b, i) /\ Home(b, i)  BY DEF Kept
  <2>2. CASE i = 3
    <3>1. At(b, 6)'  BY <1>1, <2>1, <2>2 DEF At
    <3>2. Home(b, 6)'  BY <2>1, <2>2 DEF Home
    <3> QED  BY <3>1, <3>2
  <2>3. CASE i # 3
    <3>0. b \notin outFrameQue[0]  BY <2>1, <2>3 DEF At
    <3>1. At(b, i)'  BY <1>1, <2>1, <2>3, <3>0 DEF At
    <3>2. chNum'[b] = chNum[b]  BY <3>0
    <3>3. Home(b, i)'  BY <2>1, <3>2 DEF Home
    <3> QED  BY <3>1, <3>3
  <2> QED  BY <2>2, <2>3
<1> QED  BY <1>2, <1>3 DEF Kept

LEMMA MergeGateKept == ASSUME Sorts, Kept, MergeGate PROVE Sorts' /\ Kept'
<1> USE DEF MergeGate, bufVars, nextVars, Ques
<1>1. CASE ~opOn
  BY <1>1, StillKept
<1>2. CASE opOn
  <2>1. outFrameQue'[1] = {} /\ outFrameQue'[0] = outFrameQue[0]  BY <1>2 DEF Sorts
  <2>2. Sorts'  BY <1>2 DEF Sorts
  <2>3. ASSUME NEW b \in Bufs PROVE \E j \in 1..8 : At(b, j)' /\ Home(b, j)'
    <3>1. PICK i \in 1..8 : At(b, i) /\ Home(b, i)  BY DEF Kept
    <3>2. i # 5  BY <3>1 DEF Sorts, At
    <3>3. CASE i = 4
      <4>1. At(b, 5)'  BY <1>2, <2>1, <3>1, <3>3 DEF At
      <4>2. Home(b, 5)'  BY <1>2, <3>1, <3>3 DEF Home
      <4> QED  BY <4>1, <4>2
    <3>4. CASE i # 4
      <4>1. At(b, i)'  BY <1>2, <2>1, <3>1, <3>2, <3>4 DEF At
      <4>2. Home(b, i)'  BY <1>2, <3>1 DEF Home
      <4> QED  BY <4>1, <4>2
    <3> QED  BY <3>3, <3>4
  <2> QED  BY <2>2, <2>3 DEF Kept
<1> QED  BY <1>1, <1>2

LEMMA MergeCountKept == ASSUME Sorts, Kept, MergeCount PROVE Sorts' /\ Kept'
<1> USE DEF MergeCount, Counts, Merged, selectVars, nextVars, Ques
<1>2. Sorts'  BY DEF Sorts
<1>3. ASSUME NEW b \in Bufs PROVE \E j \in 1..8 : At(b, j)' /\ Home(b, j)'
  <2>1. PICK i \in 1..8 : At(b, i) /\ Home(b, i)  BY DEF Kept
  <2>2. CASE i = 5
    <3>1. At(b, 6)'  BY <2>1, <2>2 DEF At
    <3>2. Home(b, 6)'  BY <2>1, <2>2 DEF Home
    <3> QED  BY <3>1, <3>2
  <2>3. CASE i # 5
    <3>0. b \notin inBufList  BY <2>1, <2>3 DEF At
    <3>1. At(b, i)'  BY <2>1, <2>3, <3>0 DEF At
    <3>2. chNum'[b] = chNum[b]  BY <3>0
    <3>3. Home(b, i)'  BY <2>1, <3>2 DEF Home
    <3> QED  BY <3>1, <3>3
  <2> QED  BY <2>2, <2>3
<1> QED  BY <1>2, <1>3 DEF Kept

LEMMA HaltDirectKept == ASSUME Sorts, Kept, HaltDirect PROVE Sorts' /\ Kept'
<1> USE DEF HaltDirect, bufVars, nextVars, Ques
<1>1. outFrameQue'[0] = {} /\ outFrameQue'[1] = outFrameQue[1]  BY DEF Sorts
<1>2. Sorts'  BY DEF Sorts
<1>3. ASSUME NEW b \in Bufs PROVE \E j \in 1..8 : At(b, j)' /\ Home(b, j)'
  <2>1. PICK i \in 1..8 : At(b, i) /\ Home(b, i)  BY DEF Kept
  <2>2. i # 5  BY <2>1 DEF Sorts, At
  <2>3. CASE i = 3
    <3>1. At(b, 5)'  BY <1>1, <2>1, <2>3 DEF At
    <3>2. Home(b, 5)'  BY <2>1, <2>3 DEF Home
    <3> QED  BY <3>1, <3>2
  <2>4. CASE i # 3
    <3>1. At(b, i)'  BY <1>1, <2>1, <2>2, <2>4 DEF At
    <3>2. Home(b, i)'  BY <2>1 DEF Home
    <3> QED  BY <3>1, <3>2
  <2> QED  BY <2>3, <2>4
<1> QED  BY <1>2, <1>3 DEF Kept

LEMMA TakeKept == ASSUME Sorts, Kept, Take PROVE Sorts' /\ Kept'
<1> USE DEF Take, bufVars, selectVars, gateVars
<1>2. Sorts'  BY DEF Sorts
<1>3. ASSUME NEW b \in Bufs PROVE \E j \in 1..8 : At(b, j)' /\ Home(b, j)'
  <2>1. PICK i \in 1..8 : At(b, i) /\ Home(b, i)  BY DEF Kept
  <2>2. CASE i = 6
    <3>1. At(b, 7)'  BY <2>1, <2>2 DEF At
    <3>2. Home(b, 7)'  BY <2>1, <2>2 DEF Home
    <3> QED  BY <3>1, <3>2
  <2>3. CASE i # 6
    <3>1. At(b, i)' /\ Home(b, i)'  BY <2>1, <2>3 DEF At, Home
    <3> QED  BY <3>1
  <2> QED  BY <2>2, <2>3
<1> QED  BY <1>2, <1>3 DEF Kept

LEMMA PutKept ==
  ASSUME Sorts, Kept, NEW bs \in SUBSET Bufs, Put(bs) PROVE Sorts' /\ Kept'
<1> DEFINE direct == {b \in bs : InQueOf(chNum[b]) = 0}
<1> USE DEF Put, SelectReturn, selectVars, gateVars, mergeVars
<1>0. putList = {}  BY DEF Sorts
<1>1. /\ held' = held \ bs /\ putList' = bs \ direct /\ srcFree' = srcFree \cup direct
      /\ chNum' = [b \in Bufs |-> IF b \in direct THEN orgChNum[b] ELSE chNum[b]]
      /\ putPc' # "gate" => bs = direct
      /\ direct \subseteq bs /\ bs \subseteq held
  OBVIOUS
<1> HIDE DEF direct
<1>2. Sorts'  BY <1>1 DEF Sorts
<1>3. ASSUME NEW b \in Bufs PROVE \E j \in 1..8 : At(b, j)' /\ Home(b, j)'
  <2>1. PICK i \in 1..8 : At(b, i) /\ Home(b, i)  BY DEF Kept
  <2>2. CASE b \in direct
    <3>0. i = 7  BY <1>1, <2>1, <2>2 DEF At
    <3>1. At(b, 1)'  BY <1>0, <1>1, <2>1, <2>2, <3>0 DEF At
    <3>2. chNum'[b] = orgChNum[b]  BY <1>1, <2>2
    <3>3. Home(b, 1)'  BY <2>1, <3>0, <3>2 DEF Home
    <3> QED  BY <3>1, <3>3
  <2>3. CASE b \in bs \ direct
    <3>0. i = 7  BY <1>1, <2>1, <2>3 DEF At
    <3>1. At(b, 8)'  BY <1>0, <1>1, <2>1, <2>3, <3>0 DEF At
    <3>2. Home(b, 8)'  BY <2>1, <3>0 DEF Home
    <3> QED  BY <3>1, <3>2
  <2>4. CASE b \notin bs
    <3>0. b \notin direct /\ i # 8  BY <1>0, <1>1, <2>1, <2>4 DEF At
    <3>1. At(b, i)'  BY <1>0, <1>1, <2>1, <2>4, <3>0 DEF At
    <3>2. chNum'[b] = chNum[b]  BY <1>1, <3>0
    <3>3. Home(b, i)'  BY <2>1, <3>2 DEF Home
    <3> QED  BY <3>1, <3>3
  <2> QED  BY <2>2, <2>3, <2>4
<1> QED  BY <1>2, <1>3 DEF Kept

LEMMA PutGateKept == ASSUME Sorts, Kept, PutGate PROVE Sorts' /\ Kept'
<1> USE DEF PutGate, SelectReturn, selectVars, mergeVars
<1>2. Sorts'  BY DEF Sorts
<1>3. ASSUME NEW b \in Bufs PROVE \E j \in 1..8 : At(b, j)' /\ Home(b, j)'
  <2>1. PICK i \in 1..8 : At(b, i) /\ Home(b, i)  BY DEF Kept
  <2>2. CASE i = 8
    <3>0. b \in putList  BY <2>1, <2>2 DEF At
    <3>1. At(b, 1)'  BY <2>1, <2>2, <3>0 DEF At
    <3>2. chNum'[b] = orgChNum[b]  BY <3>0
    <3>3. Home(b, 1)'  BY <2>1, <2>2, <3>2 DEF Home
    <3> QED  BY <3>1, <3>3
  <2>3. CASE i # 8
    <3>0. b \notin putList  BY <2>1, <2>3 DEF At
    <3>1. At(b, i)'  BY <2>1, <2>3, <3>0 DEF At
    <3>2. chNum'[b] = chNum[b]  BY <3>0
    <3>3. Home(b, i)'  BY <2>1, <3>2 DEF Home
    <3> QED  BY <3>1, <3>3
  <2> QED  BY <2>2, <2>3
<1> QED  BY <1>2, <1>3 DEF Kept

LEMMA RecreateKept == ASSUME Sorts, Kept, Recreate PROVE Sorts' /\ Kept'
<1> USE DEF Recreate
<1>1. inBufList' = {} /\ held' = {} /\ putList' = {}  BY DEF Sorts
<1>2. Sorts'  BY <1>1 DEF Sorts, Ques
<1>3. ASSUME NEW b \in Bufs PROVE At(b, 1)' /\ Home(b, 1)'
  BY <1>1, <1>3 DEF At, Home, Ques
<1>4. 1 \in 1..8  OBVIOUS
<1> QED  BY <1>2, <1>3, <1>4 DEF Kept

LEMMA NextKept == ASSUME Sorts, Kept, [Next]_vars PROVE Sorts' /\ Kept'
<1> USE DEF bufVars, selectVars, gateVars, mergeVars, nextVars, Ques
<1>1. ASSUME NEW q \in {0, 1, 2}, NEW chs \in Lists, SetOutQueChInfo(q, chs)
      PROVE Sorts' /\ Kept'
  BY <1>1, StillKept DEF SetOutQueChInfo
<1>2. CASE SetOn \/ SetOff \/ Poll  BY <1>2, StillKept DEF SetOn, SetOff, Poll
<1>3. CASE MergeTell  BY <1>3, StillKept DEF MergeTell
<1>4. CASE PutCount  BY <1>4, StillKept DEF PutCount
<1>7. CASE HaltCount  BY <1>7, StillKept DEF HaltCount, Counts
<1>5. CASE UNCHANGED vars  BY <1>5, StillKept DEF vars
<1>6. CASE Merge
  BY <1>3, <1>6, <1>7, MergeDirectKept, HaltDirectKept, MergeGateKept, MergeCountKept DEF Merge
<1> QED
  BY <1>1, <1>2, <1>4, <1>5, <1>6, ProduceKept, SelectKept, GateDataKept, TakeKept, PutKept,
     PutGateKept, RecreateKept DEF Next

(* A buffer is in one place, for any number of buffers and channels and any   *)
(* sequence of commands.                                                    *)
THEOREM BuffersConserved == Spec => []BufferConserved
<1>1. Sorts /\ Kept => BufferConserved
  <2> SUFFICES ASSUME Sorts, Kept, NEW b \in Bufs
               PROVE \E i \in DOMAIN Places :
                       \A j \in DOMAIN Places : (b \in Places[j]) <=> (j = i)
    BY DEF BufferConserved
  <2>1. PICK i \in 1..8 : At(b, i)  BY DEF Kept
  <2>2. DOMAIN Places = 1..8  BY DEF Places
  <2>3. /\ Places[1] = srcFree /\ Places[2] = srcFull /\ Places[3] = outFrameQue[0]
        /\ Places[4] = outFrameQue[1] /\ Places[5] = inBufList /\ Places[6] = outBufQue
        /\ Places[7] = held /\ Places[8] = putList
    BY DEF Places
  <2>4. ASSUME NEW j \in 1..8 PROVE (b \in Places[j]) <=> (j = i)
    <3>1. j \in {1, 2, 3, 4, 5, 6, 7, 8}  OBVIOUS
    <3> HIDE DEF Places
    <3> QED  BY <2>1, <2>3, <3>1 DEF At
  <2> QED  BY <2>1, <2>2, <2>4
<1> QED  BY <1>1, InitKept, NextKept, PTL DEF Spec

(* A buffer comes back to the source with the channel it had there.         *)
THEOREM OriginsRestored == Spec => []OriginRestored
<1>1. Sorts /\ Kept => OriginRestored
  <2> SUFFICES ASSUME Sorts, Kept, NEW b \in srcFree \cup srcFull PROVE chNum[b] = ChOf[b]
    BY DEF OriginRestored
  <2>1. b \in Bufs  BY DEF Sorts
  <2>2. PICK i \in 1..8 : At(b, i) /\ Home(b, i)  BY <2>1 DEF Kept
  <2>3. i <= 2  BY <2>2 DEF At
  <2> QED  BY <2>2, <2>3 DEF Home
<1> QED  BY <1>1, InitKept, NextKept, PTL DEF Spec

-----------------------------------------------------------------------------
(* The channel numbers, as long as no list was too long.                    *)
Info == [queId : {0, 1, 2, NotMapped}, outChNum : Nat]
InRange(m, long) ==
  \A c \in InChs : m[c].queId \in Ques \ long => m[c].outChNum < MaxCh(m[c].queId)

Waiting ==
  /\ \A q \in Ques \ longQues : \A b \in outFrameQue[q] : chNum[b] < MaxCh(q)
  /\ mergePc = "count" /\ 1 \notin longQues => \A b \in inBufList : chNum[b] < MaxCh(1)
  /\ HaltedByLongList

Numbers ==
  /\ chNum \in [Bufs -> Nat] /\ orgChNum \in [Bufs -> Nat]
  /\ inChInfo \in [InChs -> Info] /\ longQues \subseteq Ques /\ InRange(inChInfo, longQues)
  /\ prevOutQueChInfo \in [{0, 1, 2} -> Seq(InChs)]
  /\ Waiting

LEMMA LastIn ==
  ASSUME NEW chs \in Seq(InChs), NEW c \in InChs, In(c, chs)
  PROVE  OutChNum(chs, c) \in Nat /\ OutChNum(chs, c) < Len(chs)
<1> DEFINE S == {n \in Nat : \E i \in DOMAIN chs : chs[i] = c /\ n = Len(chs) - i}
<1>1. Len(chs) \in Nat /\ DOMAIN chs = 1 .. Len(chs)  OBVIOUS
<1>2. PICK k \in DOMAIN chs : chs[k] = c  BY DEF In
<1>3. Len(chs) - k \in S  BY <1>1, <1>2
<1>4. PICK x \in S : \A y \in S : ~(<<y, x>> \in OpToRel(<, Nat))
  BY <1>3, WFMin, NatLessThanWellFounded
<1>5. ASSUME NEW y \in S, y < x PROVE FALSE
  <2>1. <<y, x>> \in Nat \X Nat /\ <<y, x>>[1] < <<y, x>>[2]  BY <1>5
  <2> QED  BY <1>4, <2>1, Zenon DEF OpToRel
<1>6. PICK i \in DOMAIN chs : chs[i] = c /\ x = Len(chs) - i  OBVIOUS
<1>7. ASSUME NEW j \in DOMAIN chs, chs[j] = c PROVE j <= i
  <2>1. Len(chs) - j \in S  BY <1>1, <1>7
  <2> QED  BY <1>1, <1>5, <1>6, <2>1
<1> HIDE DEF S
<1> DEFINE last == CHOOSE n \in DOMAIN chs :
                     chs[n] = c /\ \A j \in DOMAIN chs : chs[j] = c => j <= n
<1>8. last \in DOMAIN chs  BY <1>6, <1>7
<1>9. OutChNum(chs, c) = last - 1  BY DEF OutChNum
<1> HIDE DEF last
<1> QED  BY <1>1, <1>8, <1>9

LEMMA SetMapInRange ==
  ASSUME NEW m \in [InChs -> Info], NEW old, NEW q \in {0, 1, 2}, NEW chs \in Seq(InChs),
         NEW long, InRange(m, long), q \in Ques \ long => Len(chs) <= MaxCh(q),
         MaxCh(q) \in Nat \/ q = 2
  PROVE  SetMap(m, old, q, chs) \in [InChs -> Info] /\ InRange(SetMap(m, old, q, chs), long)
<1> DEFINE n == SetMap(m, old, q, chs)
<1>0. Len(chs) \in Nat  OBVIOUS
<1>1. ASSUME NEW c \in InChs
      PROVE n[c] \in Info /\ (n[c].queId \in Ques \ long => n[c].outChNum < MaxCh(n[c].queId))
  <2>1. CASE In(c, chs)
    <3>1. n[c] = [queId |-> q, outChNum |-> OutChNum(chs, c)]  BY <2>1 DEF SetMap
    <3>2. OutChNum(chs, c) \in Nat /\ OutChNum(chs, c) < Len(chs)  BY <2>1, LastIn
    <3>3. n[c] \in Info  BY <3>1, <3>2 DEF Info
    <3>4. q \in Ques \ long => OutChNum(chs, c) < MaxCh(q)  BY <1>0, <3>2 DEF Ques
    <3> QED  BY <3>1, <3>3, <3>4
  <2>2. CASE ~In(c, chs) /\ In(c, old)
    <3>1. n[c] = None  BY <2>2 DEF SetMap
    <3>2. None \in Info /\ None.queId \notin Ques
      BY LinkChainAssumption DEF None, Info, Ques
    <3> QED  BY <3>1, <3>2
  <2>3. CASE ~In(c, chs) /\ ~In(c, old)
    <3>1. n[c] = m[c]  BY <2>3 DEF SetMap
    <3> QED  BY <3>1 DEF InRange
  <2> QED  BY <2>1, <2>2, <2>3
<1>2. n = [c \in InChs |-> n[c]]  BY DEF SetMap
<1> HIDE DEF n
<1> QED  BY <1>1, <1>2 DEF InRange, n

LEMMA CreatedInRange == Created \in [InChs -> Info] /\ InRange(Created, {})
<1> DEFINE m0 == [c \in InChs |-> None]
           m1 == SetMap(m0, <<>>, 0, Chosen[0])
<1>1. \A q \in Ques : Chosen[q] \in Seq(InChs) /\ MaxCh(q) = Len(Chosen[q]) /\ MaxCh(q) \in Nat
  BY LinkChainAssumption DEF MaxCh
<1>2. m0 \in [InChs -> Info] /\ InRange(m0, {})
  BY LinkChainAssumption DEF None, Info, InRange, Ques
<1>3. m1 \in [InChs -> Info] /\ InRange(m1, {})
  <2> HIDE DEF m0
  <2>1. 0 \in {0, 1, 2} /\ 0 \in Ques  BY DEF Ques
  <2>2. Len(Chosen[0]) <= MaxCh(0)  BY <1>1, <2>1
  <2> QED  BY <1>1, <1>2, <2>1, <2>2, SetMapInRange
<1>4. SetMap(m1, <<>>, 1, Chosen[1]) \in [InChs -> Info]
      /\ InRange(SetMap(m1, <<>>, 1, Chosen[1]), {})
  <2> HIDE DEF m1
  <2>1. 1 \in {0, 1, 2} /\ 1 \in Ques  BY DEF Ques
  <2>2. Len(Chosen[1]) <= MaxCh(1)  BY <1>1, <2>1
  <2> QED  BY <1>1, <1>3, <2>1, <2>2, SetMapInRange
<1> QED  BY <1>4 DEF Created

LEMMA MaxChNat == \A q \in Ques : MaxCh(q) = Len(Chosen[q]) /\ MaxCh(q) \in Nat
BY LinkChainAssumption DEF MaxCh

(* What is in an output queue of the select link is nowhere else.           *)
LEMMA Apart ==
  ASSUME Sorts, Kept, NEW q \in Ques, NEW b \in outFrameQue[q]
  PROVE  /\ b \in Bufs
         /\ b \notin srcFree \cup srcFull \cup inBufList \cup outBufQue \cup held \cup putList
         /\ \A p \in Ques : b \in outFrameQue[p] => p = q
<1>1. b \in Bufs  BY DEF Sorts
<1>2. PICK i \in 1..8 : At(b, i)  BY <1>1 DEF Kept
<1>3. q = 0 \/ q = 1  BY DEF Ques
<1> QED  BY <1>1, <1>2, <1>3 DEF At, Ques

(* Nor is what the merge link has fetched.                                  *)
LEMMA FetchedApart ==
  ASSUME Sorts, Kept, NEW b \in inBufList
  PROVE  /\ b \in Bufs
         /\ b \notin srcFree \cup srcFull \cup outFrameQue[0] \cup outFrameQue[1] \cup outBufQue
                     \cup held \cup putList
<1>1. b \in Bufs  BY DEF Sorts
<1>2. PICK i \in 1..8 : At(b, i)  BY <1>1 DEF Kept
<1> QED  BY <1>1, <1>2 DEF At

LEMMA InitNumbers == Init => Numbers
<1> SUFFICES ASSUME Init PROVE Numbers  OBVIOUS
<1>1. chNum \in [Bufs -> Nat] /\ orgChNum \in [Bufs -> Nat]
  BY LinkChainAssumption DEF Init
<1>2. inChInfo \in [InChs -> Info] /\ longQues \subseteq Ques /\ InRange(inChInfo, longQues)
  BY CreatedInRange DEF Init
<1>3. prevOutQueChInfo \in [{0, 1, 2} -> Seq(InChs)]
  BY LinkChainAssumption DEF Init, Ques
<1>4. Waiting  BY DEF Init, Waiting, HaltedByLongList
<1> QED  BY <1>1, <1>2, <1>3, <1>4 DEF Numbers

(* The steps that leave the map alone, and the channels of the frames that    *)
(* stay before the assertion.                                               *)
LEMMA WaitingNumbers ==
  ASSUME Numbers, UNCHANGED <<orgChNum, inChInfo, prevOutQueChInfo, longQues>>,
         chNum' \in [Bufs -> Nat],
         \A q \in Ques : \A b \in outFrameQue'[q] : b \in outFrameQue[q] /\ chNum'[b] = chNum[b],
         mergePc' = "count" =>
           mergePc = "count" /\ \A b \in inBufList' : b \in inBufList /\ chNum'[b] = chNum[b],
         mergePc' \in {"halted0", "halted1"} => mergePc' = mergePc
  PROVE  Numbers'
<1>1. Waiting'
  <2>1. ASSUME NEW q \in Ques \ longQues, NEW b \in outFrameQue'[q] PROVE chNum'[b] < MaxCh(q)
    BY <2>1 DEF Numbers, Waiting
  <2>2. ASSUME mergePc' = "count", 1 \notin longQues, NEW b \in inBufList'
        PROVE chNum'[b] < MaxCh(1)
    BY <2>2 DEF Numbers, Waiting
  <2>3. HaltedByLongList'  BY DEF Numbers, Waiting, HaltedByLongList
  <2> QED  BY <2>1, <2>2, <2>3 DEF Waiting, MaxCh
<1>2. InRange(inChInfo, longQues)'  BY DEF Numbers, InRange, MaxCh
<1> QED  BY <1>1, <1>2 DEF Numbers

LEMMA SelectNumbers == ASSUME Sorts, Kept, Numbers, Select PROVE Numbers'
<1> USE DEF Select
<1>1. ASSUME NEW b \in srcFull
      PROVE b \in Bufs /\ chNum[b] \in InChs /\ inChInfo[chNum[b]] \in Info
  <2>1. b \in Bufs  BY DEF Sorts
  <2>2. PICK i \in 1..8 : At(b, i) /\ Home(b, i)  BY <2>1 DEF Kept
  <2>3. i = 2 /\ chNum[b] = ChOf[b]  BY <2>2 DEF At, Home
  <2> QED  BY <2>1, <2>3, LinkChainAssumption DEF Numbers
<1>2. Routed(0) \subseteq srcFull /\ Routed(1) \subseteq srcFull  BY DEF Routed
<1>3. orgChNum' \in [Bufs -> Nat]  BY DEF Numbers
<1>4. chNum' \in [Bufs -> Nat]
  <2>1. ASSUME NEW b \in Bufs PROVE chNum'[b] \in Nat
    <3>1. CASE b \in Routed(0) \cup Routed(1)
      BY <1>1, <1>2, <3>1 DEF Info
    <3>2. CASE b \notin Routed(0) \cup Routed(1)
      BY <3>2 DEF Numbers
    <3> QED  BY <3>1, <3>2
  <2>2. chNum' = [b \in Bufs |-> chNum'[b]]  OBVIOUS
  <2> QED  BY <2>1, <2>2
<1>5. ASSUME NEW q \in Ques \ longQues, NEW b \in outFrameQue'[q] PROVE chNum'[b] < MaxCh(q)
  <2>1. outFrameQue'[q] = outFrameQue[q] \cup Routed(q)  OBVIOUS
  <2>2. CASE b \in Routed(q)
    <3>1. b \in srcFull /\ inChInfo[chNum[b]].queId = q  BY <2>2 DEF Routed
    <3>2. b \in Routed(0) \cup Routed(1)  BY <2>2 DEF Ques
    <3>3. chNum'[b] = inChInfo[chNum[b]].outChNum  BY <1>1, <3>1, <3>2
    <3> QED  BY <1>1, <3>1, <3>3 DEF Numbers, InRange
  <2>3. CASE b \in outFrameQue[q]
    <3>1. b \in Bufs /\ b \notin srcFull  BY <2>3, Apart
    <3>2. chNum'[b] = chNum[b]  BY <1>2, <3>1
    <3> QED  BY <2>3, <3>2 DEF Numbers, Waiting
  <2> QED  BY <2>1, <2>2, <2>3
<1>6. ASSUME mergePc = "count", 1 \notin longQues, NEW b \in inBufList
      PROVE chNum'[b] < MaxCh(1)
  <2>1. b \in Bufs /\ b \notin srcFull  BY <1>6, FetchedApart
  <2>2. chNum'[b] = chNum[b]  BY <1>2, <2>1
  <2> QED  BY <1>6, <2>2 DEF Numbers, Waiting
<1>7. UNCHANGED <<inChInfo, prevOutQueChInfo, mergePc, inBufList, longQues>>  BY DEF appVars
<1>8. Waiting'  BY <1>5, <1>6, <1>7 DEF Numbers, Waiting, HaltedByLongList, MaxCh
<1>9. InRange(inChInfo, longQues)'  BY <1>7 DEF Numbers, InRange, MaxCh
<1> QED  BY <1>3, <1>4, <1>7, <1>8, <1>9 DEF Numbers

(* A list that is too long puts its queue in longQues.                      *)
LEMMA SetOutQueChInfoNumbers ==
  ASSUME Numbers, NEW q \in {0, 1, 2}, NEW chs \in Lists, SetOutQueChInfo(q, chs)
  PROVE  Numbers'
<1>1. chs \in Seq(InChs) /\ Len(chs) \in Nat  BY LinkChainAssumption
<1>2. MaxCh(q) \in Nat \/ q = 2  BY MaxChNat DEF Ques
<1>3. /\ inChInfo' = SetMap(inChInfo, prevOutQueChInfo[q], q, chs)
      /\ longQues' = longQues \cup {p \in Ques : p = q /\ Len(chs) > MaxCh(p)}
      /\ UNCHANGED <<chNum, orgChNum, outFrameQue, mergePc, inBufList>>
  BY DEF SetOutQueChInfo, bufVars, mergeVars
<1>4. inChInfo' \in [InChs -> Info] /\ InRange(inChInfo', longQues')
  <2>1. q \in Ques \ longQues' => Len(chs) <= MaxCh(q)  BY <1>1, <1>2, <1>3, MaxChNat
  <2>2. inChInfo \in [InChs -> Info] /\ InRange(inChInfo, longQues')
    BY <1>3 DEF Numbers, InRange
  <2> QED  BY <1>1, <1>2, <1>3, <2>1, <2>2, SetMapInRange
<1>5. prevOutQueChInfo' \in [{0, 1, 2} -> Seq(InChs)]  BY <1>1 DEF Numbers, SetOutQueChInfo
<1>6. Waiting'  BY <1>3 DEF Numbers, Waiting, HaltedByLongList, MaxCh
<1>7. InRange(inChInfo, longQues)'  BY <1>4 DEF InRange, MaxCh
<1> QED  BY <1>3, <1>4, <1>5, <1>6, <1>7 DEF Numbers

(* The steps that return some buffers, none of which the merge link has yet to  *)
(* look at.                                                                 *)
LEMMA ReturnNumbers ==
  ASSUME Sorts, Kept, Numbers, NEW bs, SelectReturn(bs), bs \cap inBufList = {},
         UNCHANGED <<orgChNum, inChInfo, prevOutQueChInfo, longQues, mergePc, inBufList>>,
         \A q \in Ques : outFrameQue'[q] \subseteq outFrameQue[q] \ bs
  PROVE  Numbers'
<1>1. chNum' \in [Bufs -> Nat]  BY DEF SelectReturn, Numbers
<1>2. ASSUME NEW q \in Ques, NEW b \in outFrameQue'[q]
      PROVE b \in outFrameQue[q] /\ chNum'[b] = chNum[b]
  <2>1. b \in outFrameQue[q] /\ b \notin bs  BY <1>2
  <2>2. b \in Bufs  BY <2>1, Apart
  <2> QED  BY <2>1, <2>2 DEF SelectReturn
<1>3. ASSUME NEW b \in inBufList PROVE chNum'[b] = chNum[b]
  <2>1. b \in Bufs /\ b \notin bs  BY FetchedApart
  <2> QED  BY <2>1 DEF SelectReturn
<1> QED  BY <1>1, <1>2, <1>3, WaitingNumbers

LEMMA GateDataNumbers == ASSUME Sorts, Kept, Numbers, GateData PROVE Numbers'
<1>0. UNCHANGED <<orgChNum, inChInfo, prevOutQueChInfo, longQues, mergePc, inBufList>>
  BY DEF GateData, appVars
<1>1. CASE opOn
  <2>1. UNCHANGED <<chNum, outFrameQue>>  BY <1>1 DEF GateData
  <2>2. chNum' \in [Bufs -> Nat]  BY <2>1 DEF Numbers
  <2> QED  BY <1>0, <2>1, <2>2, WaitingNumbers
<1>2. CASE ~opOn
  <2>1. ASSUME NEW q \in Ques PROVE outFrameQue'[q] \subseteq outFrameQue[q] \ outFrameQue[1]
    <3>1. CASE q = 1  BY <1>2, <3>1 DEF GateData, Sorts, Ques
    <3>2. CASE q = 0
      <4>1. outFrameQue'[0] = outFrameQue[0]  BY <1>2 DEF GateData, Sorts, Ques
      <4>2. \A b \in outFrameQue[0] : b \notin outFrameQue[1]  BY Apart DEF Ques
      <4> QED  BY <3>2, <4>1, <4>2
    <3> QED  BY <3>1, <3>2 DEF Ques
  <2>2. SelectReturn(outFrameQue[1])  BY <1>2 DEF GateData
  <2>3. outFrameQue[1] \cap inBufList = {}  BY FetchedApart
  <2> QED  BY <1>0, <2>1, <2>2, <2>3, ReturnNumbers
<1> QED  BY <1>1, <1>2

LEMMA PutNumbers ==
  ASSUME Sorts, Kept, Numbers, NEW bs \in SUBSET Bufs, Put(bs) PROVE Numbers'
<1> DEFINE direct == {b \in bs : InQueOf(chNum[b]) = 0}
<1>1. direct \subseteq held  BY DEF Put
<1>2. /\ SelectReturn(direct)
      /\ UNCHANGED <<orgChNum, inChInfo, prevOutQueChInfo, longQues, mergePc, inBufList,
                     outFrameQue>>
  BY DEF Put, selectVars, mergeVars, appVars
<1> HIDE DEF direct
<1>3. \A q \in Ques : outFrameQue'[q] \subseteq outFrameQue[q] \ direct  BY <1>1, <1>2, Apart
<1>4. direct \cap inBufList = {}  BY <1>1, FetchedApart
<1> QED  BY <1>2, <1>3, <1>4, ReturnNumbers

LEMMA PutGateNumbers == ASSUME Sorts, Kept, Numbers, PutGate PROVE Numbers'
<1>1. /\ SelectReturn(putList)
      /\ UNCHANGED <<orgChNum, inChInfo, prevOutQueChInfo, longQues, mergePc, inBufList,
                     outFrameQue>>
  BY DEF PutGate, selectVars, mergeVars, appVars
<1>2. \A q \in Ques : outFrameQue'[q] \subseteq outFrameQue[q] \ putList  BY <1>1, Apart
<1>3. putList \cap inBufList = {}  BY FetchedApart
<1> QED  BY <1>1, <1>2, <1>3, ReturnNumbers

(* The steps of the merge link.                                             *)
LEMMA MergedNumbers ==
  ASSUME Sorts, Kept, Numbers, NEW q \in Ques, NEW bs, Merged(q, bs),
         UNCHANGED <<orgChNum, inChInfo, prevOutQueChInfo, longQues>>,
         mergePc' \in {"gate", "tell"},
         \A p \in Ques : outFrameQue'[p] \subseteq outFrameQue[p] \ bs
  PROVE  Numbers'
<1>1. \A c \in Nat : OutCh(q, c) \in Nat  BY MaxChNat DEF OutCh, Ques
<1>2. chNum' \in [Bufs -> Nat]  BY <1>1 DEF Merged, Numbers
<1>3. ASSUME NEW p \in Ques, NEW b \in outFrameQue'[p]
      PROVE b \in outFrameQue[p] /\ chNum'[b] = chNum[b]
  <2>1. b \in outFrameQue[p] /\ b \notin bs  BY <1>3
  <2>2. b \in Bufs  BY <2>1, Apart
  <2> QED  BY <2>1, <2>2 DEF Merged
<1> QED  BY <1>2, <1>3, WaitingNumbers

LEMMA MergeDirectNumbers == ASSUME Sorts, Kept, Numbers, MergeDirect PROVE Numbers'
<1>1. /\ Merged(0, outFrameQue[0]) /\ mergePc' \in {"gate", "tell"}
      /\ UNCHANGED <<orgChNum, inChInfo, prevOutQueChInfo, longQues>>
      /\ outFrameQue'[0] = {} /\ outFrameQue'[1] = outFrameQue[1]
  BY DEF MergeDirect, Sorts, Ques, appVars
<1>2. \A b \in outFrameQue[1] : b \notin outFrameQue[0]  BY Apart DEF Ques
<1>3. \A p \in Ques : outFrameQue'[p] \subseteq outFrameQue[p] \ outFrameQue[0]
  BY <1>1, <1>2 DEF Ques
<1>4. 0 \in Ques  BY DEF Ques
<1> QED  BY <1>1, <1>3, <1>4, MergedNumbers

LEMMA MergeCountNumbers == ASSUME Sorts, Kept, Numbers, MergeCount PROVE Numbers'
<1>1. /\ Merged(1, inBufList) /\ mergePc' \in {"gate", "tell"}
      /\ UNCHANGED <<orgChNum, inChInfo, prevOutQueChInfo, longQues, outFrameQue>>
  BY DEF MergeCount, selectVars, appVars
<1>2. \A p \in Ques : outFrameQue'[p] \subseteq outFrameQue[p] \ inBufList  BY <1>1, Apart
<1>3. 1 \in Ques  BY DEF Ques
<1> QED  BY <1>1, <1>2, <1>3, MergedNumbers

(* The frames that the merge link fetches are those of queue 1.              *)
LEMMA MergeGateNumbers == ASSUME Sorts, Kept, Numbers, MergeGate PROVE Numbers'
<1>1. /\ UNCHANGED <<chNum, orgChNum, inChInfo, prevOutQueChInfo, longQues>>
      /\ mergePc' \in {"count", "tell"}
      /\ mergePc' = "count" => inBufList' = outFrameQue[1]
      /\ \A p \in Ques : outFrameQue'[p] \subseteq outFrameQue[p]
  BY DEF MergeGate, bufVars, appVars, Sorts, Ques
<1>2. 1 \in Ques  BY DEF Ques
<1>3. Waiting'  BY <1>1, <1>2 DEF Numbers, Waiting, HaltedByLongList, MaxCh
<1>4. InRange(inChInfo, longQues)'  BY <1>1 DEF Numbers, InRange, MaxCh
<1> QED  BY <1>1, <1>3, <1>4 DEF Numbers

(* The assertion fails on a frame out of range, so on one of a long list.     *)
LEMMA HaltNumbers == ASSUME Sorts, Numbers, HaltDirect \/ HaltCount PROVE Numbers'
<1>1. /\ UNCHANGED <<chNum, orgChNum, inChInfo, prevOutQueChInfo, longQues>>
      /\ \A p \in Ques : outFrameQue'[p] \subseteq outFrameQue[p]
  BY DEF HaltDirect, HaltCount, bufVars, selectVars, appVars, Sorts, Ques
<1>2. \/ mergePc' = "halted0" /\ ~Fits(0, outFrameQue[0])
      \/ mergePc' = "halted1" /\ mergePc = "count" /\ ~Fits(1, inBufList)
  BY DEF HaltDirect, HaltCount, Counts
<1>3. mergePc' = "halted0" => 0 \in longQues
  BY <1>2 DEF Fits, Numbers, Waiting, Ques
<1>4. mergePc' = "halted1" => 1 \in longQues
  BY <1>2 DEF Fits, Numbers, Waiting
<1>5. Waiting'  BY <1>1, <1>2, <1>3, <1>4 DEF Numbers, Waiting, HaltedByLongList, MaxCh
<1>6. InRange(inChInfo, longQues)'  BY <1>1 DEF Numbers, InRange, MaxCh
<1> QED  BY <1>1, <1>5, <1>6 DEF Numbers

LEMMA RecreateNumbers == ASSUME Numbers, Recreate PROVE Numbers'
<1>1. chNum' \in [Bufs -> Nat] /\ orgChNum' \in [Bufs -> Nat]
  BY LinkChainAssumption DEF Recreate, Numbers
<1>2. inChInfo' \in [InChs -> Info] /\ longQues' \subseteq Ques /\ InRange(inChInfo', longQues')
  BY CreatedInRange DEF Recreate
<1>3. prevOutQueChInfo' \in [{0, 1, 2} -> Seq(InChs)]
  BY LinkChainAssumption DEF Recreate, Numbers, Ques
<1>4. Waiting'  BY DEF Recreate, Waiting, HaltedByLongList
<1>5. InRange(inChInfo, longQues)'  BY <1>2 DEF InRange, MaxCh
<1> QED  BY <1>1, <1>2, <1>3, <1>4, <1>5 DEF Numbers

(* The steps that touch no frame before the assertion.                      *)
LEMMA AsideNumbers ==
  ASSUME Numbers, UNCHANGED <<chNum, orgChNum, outFrameQue, inBufList, inChInfo,
                              prevOutQueChInfo, longQues>>,
         mergePc' = mergePc \/ mergePc' = "wait"
  PROVE  Numbers'
<1>1. chNum' \in [Bufs -> Nat]  BY DEF Numbers
<1> QED  BY <1>1, WaitingNumbers

LEMMA NextNumbers == ASSUME Sorts, Kept, Numbers, [Next]_vars PROVE Numbers'
<1> USE DEF bufVars, selectVars, gateVars, mergeVars, nextVars, appVars
<1>1. ASSUME NEW b \in Bufs, Produce(b) PROVE Numbers'
  BY <1>1, AsideNumbers DEF Produce
<1>2. CASE SetOn \/ SetOff \/ Poll \/ PutCount \/ Take \/ MergeTell
  BY <1>2, AsideNumbers DEF SetOn, SetOff, Poll, PutCount, Take, MergeTell
<1>3. CASE UNCHANGED vars
  BY <1>3, AsideNumbers DEF vars
<1>4. CASE Merge
  BY <1>2, <1>4, MergeDirectNumbers, MergeGateNumbers, MergeCountNumbers, HaltNumbers DEF Merge
<1> QED
  BY <1>1, <1>2, <1>3, <1>4, SelectNumbers, SetOutQueChInfoNumbers, GateDataNumbers, PutNumbers,
     PutGateNumbers, RecreateNumbers DEF Next

(* The merge link's assertion fails only on an input whose queue was given too  *)
(* long a list, whatever else the application remaps while frames wait.      *)
THEOREM OnlyLongListsHalt == Spec => []HaltedByLongList
<1>1. Sorts /\ Kept /\ Numbers => HaltedByLongList  BY DEF Numbers, Waiting
<1> QED  BY <1>1, InitKept, NextKept, InitNumbers, NextNumbers, PTL DEF Spec

-----------------------------------------------------------------------------
(* The count of the gate link.  Whoever has the lock is about to count.      *)
Counted ==
  /\ bufCount \in Int /\ numBuf \in Nat /\ opOn \in BOOLEAN
  /\ lock \in {0, 1, NoOne}
  /\ lock = 0 <=> mergePc = "count"
  /\ lock = 1 <=> putPc = "count"
  /\ mergePc = "count" => opOn
  /\ CountIsBeyond
  /\ safe => ~opOn /\ bufCount = 0

LEMMA BeyondFinite ==
  ASSUME Sorts
  PROVE  /\ Beyond \subseteq Bufs /\ IsFiniteSet(Beyond) /\ Cardinality(Beyond) \in Nat
         /\ mergePc # "halted0" => inBufList \subseteq Beyond
         /\ \A S \in SUBSET Bufs : IsFiniteSet(S) /\ Cardinality(S) \in Nat
<1>1. \A S \in SUBSET Bufs : IsFiniteSet(S) /\ Cardinality(S) \in Nat
  BY LinkChainAssumption, FS_Subset, FS_CardinalityType
<1>2. Beyond \subseteq Bufs /\ (mergePc # "halted0" => inBufList \subseteq Beyond)
  BY DEF Beyond, Sorts
<1> QED  BY <1>1, <1>2

LEMMA InitCounted == Init => Counted
<1> SUFFICES ASSUME Init PROVE Counted  OBVIOUS
<1>1. Beyond = {}  BY DEF Init, Beyond
<1>2. Cardinality(Beyond) = 0  BY <1>1, FS_EmptySet
<1>3. CountIsBeyond  BY <1>2 DEF Init, CountIsBeyond
<1>4. 0 # NoOne /\ 1 # NoOne  BY LinkChainAssumption DEF Ques
<1> QED  BY <1>3, <1>4 DEF Init, Counted

(* The steps after which the same buffers are beyond the gate, and that the    *)
(* lock, the count and the gate know nothing of.                            *)
LEMMA SameBeyond ==
  ASSUME Counted, Beyond' = Beyond,
         UNCHANGED <<bufCount, lock, opOn, numBuf>>,
         mergePc' = mergePc \/ (mergePc # "count" /\ mergePc' # "count"),
         mergePc = "count" => inBufList' = inBufList,
         putPc' = putPc \/ (putPc # "count" /\ putPc' # "count"),
         safe' => safe \/ (~opOn /\ bufCount = 0)
  PROVE  Counted'
<1>1. CountIsBeyond'  BY DEF Counted, CountIsBeyond
<1> QED  BY <1>1 DEF Counted

(* A buffer that is beyond the gate is in one place there.                  *)
LEMMA BeyondApart ==
  ASSUME Sorts, Kept, NEW b \in Bufs
  PROVE  /\ b \in outBufQue \cup held =>
              b \notin srcFree \cup srcFull \cup outFrameQue[0] \cup outFrameQue[1] \cup inBufList
                       \cup putList
         /\ b \in outBufQue => b \notin held
         /\ b \in putList => b \notin outFrameQue[1] \cup inBufList
         /\ b \in inBufList => b \notin outFrameQue[1]
<1>1. PICK i \in 1..8 : At(b, i)  BY DEF Kept
<1> QED  BY <1>1 DEF At

(* Who writes the channel of buffers that are not with the merge link.       *)
LEMMA BeyondKeeps ==
  ASSUME UNCHANGED <<inBufList, putList, outBufQue, held>>,
         mergePc' = mergePc \/ (mergePc # "halted0" /\ mergePc' # "halted0"),
         \A b \in outBufQue \cup held : chNum'[b] = chNum[b]
  PROVE  Beyond' = Beyond
BY DEF Beyond, InQueOf, MaxCh

LEMMA SelectCounted == ASSUME Sorts, Kept, Counted, Select PROVE Counted'
<1>1. ASSUME NEW b \in outBufQue \cup held PROVE chNum'[b] = chNum[b]
  <2>1. b \in Bufs  BY DEF Sorts
  <2>2. b \notin srcFull  BY <2>1, BeyondApart
  <2>3. b \notin Routed(0) \cup Routed(1)  BY <2>2 DEF Routed
  <2> QED  BY <2>1, <2>3 DEF Select
<1>2. UNCHANGED <<inBufList, putList, outBufQue, held, bufCount, lock, opOn, numBuf, mergePc,
                  putPc, safe>>
  BY DEF Select, nextVars, appVars
<1>3. Beyond' = Beyond  BY <1>1, <1>2, BeyondKeeps
<1> QED  BY <1>2, <1>3, SameBeyond

LEMMA GateDataCounted == ASSUME Sorts, Kept, Counted, GateData PROVE Counted'
<1>1. ASSUME NEW b \in outBufQue \cup held PROVE chNum'[b] = chNum[b]
  <2>1. b \in Bufs  BY DEF Sorts
  <2>2. b \notin outFrameQue[1]  BY <2>1, BeyondApart
  <2> QED  BY <2>1, <2>2 DEF GateData, SelectReturn
<1>2. UNCHANGED <<inBufList, putList, outBufQue, held, bufCount, lock, opOn, numBuf, mergePc,
                  putPc, safe>>
  BY DEF GateData, nextVars, appVars
<1>3. Beyond' = Beyond  BY <1>1, <1>2, BeyondKeeps
<1> QED  BY <1>2, <1>3, SameBeyond

(* The frames of input 0 are below inQueMaxCh[0]: they did not come through    *)
(* the gate.                                                                *)
LEMMA MergeDirectCounted ==
  ASSUME Sorts, Kept, Numbers, Counted, MergeDirect PROVE Counted'
<1>1. outBufQue' = outBufQue \cup outFrameQue[0] /\ UNCHANGED <<inBufList, putList, held>>
      /\ mergePc = "wait" /\ mergePc' = "gate"
  BY DEF MergeDirect, Merged, nextVars
<1>2. ASSUME NEW b \in outFrameQue[0] PROVE InQueOf(chNum'[b]) = 0
  <2>1. b \in Bufs  BY DEF Sorts, Ques
  <2>2. chNum'[b] = chNum[b]  BY <2>1 DEF MergeDirect, Merged, OutCh
  <2>3. chNum[b] < MaxCh(0)  BY DEF MergeDirect, Fits
  <2> QED  BY <2>2, <2>3 DEF InQueOf
<1>3. ASSUME NEW b \in outBufQue \cup held PROVE chNum'[b] = chNum[b]
  <2>1. b \in Bufs  BY DEF Sorts
  <2>2. b \notin outFrameQue[0]  BY <2>1, BeyondApart
  <2> QED  BY <2>1, <2>2 DEF MergeDirect, Merged
<1>4. Beyond' = Beyond
  <2>1. ASSUME NEW b
        PROVE (b \in outBufQue' \cup held' /\ InQueOf(chNum'[b]) = 1)
                <=> (b \in outBufQue \cup held /\ InQueOf(chNum[b]) = 1)
    <3>1. CASE b \in outBufQue \cup held  BY <1>1, <1>3, <3>1
    <3>2. CASE b \notin outBufQue \cup held  BY <1>1, <1>2, <3>2
    <3> QED  BY <3>1, <3>2
  <2> QED  BY <1>1, <2>1 DEF Beyond, InQueOf, MaxCh
<1>5. UNCHANGED <<bufCount, lock, opOn, numBuf, putPc, safe>> /\ mergePc = "wait"
      /\ mergePc' = "gate"
  BY DEF MergeDirect, gateVars, nextVars, appVars
<1> QED  BY <1>4, <1>5, SameBeyond

(* The frames that an assertion holds are beyond the gate if they came through *)
(* it, and counted.                                                         *)
LEMMA HaltDirectCounted == ASSUME Sorts, Counted, HaltDirect PROVE Counted'
<1>1. /\ UNCHANGED <<putList, outBufQue, held, chNum, bufCount, lock, opOn, numBuf, putPc, safe>>
      /\ mergePc = "wait" /\ mergePc' = "halted0" /\ inBufList = {}
  BY DEF HaltDirect, bufVars, gateVars, nextVars, appVars, Sorts
<1>2. Beyond' = Beyond  BY <1>1 DEF Beyond, InQueOf, MaxCh
<1> QED  BY <1>1, <1>2, SameBeyond

LEMMA HaltCountCounted == ASSUME Sorts, Counted, HaltCount PROVE Counted'
<1>1. /\ UNCHANGED <<inBufList, putList, outBufQue, held, chNum, opOn, numBuf, putPc, safe>>
      /\ mergePc = "count" /\ mergePc' = "halted1" /\ lock' = NoOne
      /\ bufCount' = bufCount + Cardinality(inBufList)
  BY DEF HaltCount, Counts, bufVars, nextVars, appVars
<1>2. Beyond' = Beyond  BY <1>1, BeyondKeeps
<1>3. Cardinality(inBufList) \in Nat /\ Cardinality(Beyond) \in Nat
  BY BeyondFinite DEF Sorts
<1>4. CountIsBeyond'  BY <1>1, <1>2, <1>3 DEF Counted, CountIsBeyond
<1>5. 0 # NoOne /\ 1 # NoOne  BY LinkChainAssumption DEF Ques
<1>6. safe => Cardinality(inBufList) = 0  BY <1>1 DEF Counted
<1> QED  BY <1>1, <1>3, <1>4, <1>5, <1>6 DEF Counted

LEMMA MergeGateCounted == ASSUME Sorts, Kept, Counted, MergeGate PROVE Counted'
<1>1. CASE ~opOn
  <2>1. UNCHANGED <<inBufList, putList, outBufQue, held, chNum, bufCount, lock, opOn, numBuf,
                    putPc, safe>> /\ mergePc = "gate" /\ mergePc' = "tell"
    BY <1>1 DEF MergeGate, bufVars, nextVars, appVars
  <2>2. Beyond' = Beyond  BY <2>1, BeyondKeeps
  <2> QED  BY <2>1, <2>2, SameBeyond
<1>2. CASE opOn
  <2>1. /\ inBufList = {} /\ inBufList' = outFrameQue[1] /\ outFrameQue[1] \subseteq Bufs
        /\ mergePc = "gate" /\ mergePc' = "count" /\ lock = NoOne /\ lock' = 0
        /\ UNCHANGED <<putList, outBufQue, held, chNum, bufCount, opOn, numBuf, putPc, safe>>
    BY <1>2 DEF MergeGate, bufVars, nextVars, appVars, Sorts, Ques
  <2>2. Beyond' = Beyond \cup outFrameQue[1]  BY <2>1 DEF Beyond, InQueOf, MaxCh
  <2>3. Beyond \cap outFrameQue[1] = {}
    <3>1. ASSUME NEW b \in Beyond, b \in outFrameQue[1] PROVE FALSE
      BY <3>1, BeyondFinite, BeyondApart DEF Beyond
    <3> QED  BY <3>1
  <2>4. Cardinality(Beyond') = Cardinality(Beyond) + Cardinality(outFrameQue[1])
    <3>1. Cardinality(Beyond \cap outFrameQue[1]) = 0  BY <2>3, FS_EmptySet
    <3>2. /\ IsFiniteSet(Beyond) /\ IsFiniteSet(outFrameQue[1])
          /\ Cardinality(Beyond) \in Nat /\ Cardinality(outFrameQue[1]) \in Nat
      BY <2>1, BeyondFinite
    <3>3. Cardinality(Beyond \cup outFrameQue[1])
            = Cardinality(Beyond) + Cardinality(outFrameQue[1])
                - Cardinality(Beyond \cap outFrameQue[1])
      BY <3>2, FS_Union
    <3> QED  BY <2>2, <3>1, <3>2, <3>3
  <2>5. CountIsBeyond'
    <3>1. Cardinality(outFrameQue[1]) \in Nat /\ Cardinality(Beyond) \in Nat
      BY <2>1, BeyondFinite
    <3> QED  BY <2>1, <2>4, <3>1 DEF Counted, CountIsBeyond
  <2>6. 0 # NoOne /\ 1 # NoOne  BY LinkChainAssumption DEF Ques
  <2> QED  BY <1>2, <2>1, <2>5, <2>6 DEF Counted
<1> QED  BY <1>1, <1>2

(* The frames of input 1 are at or above inQueMaxCh[0] from here on.         *)
LEMMA MergeCountCounted ==
  ASSUME Sorts, Kept, Numbers, Counted, MergeCount PROVE Counted'
<1>1. /\ outBufQue' = outBufQue \cup inBufList /\ inBufList' = {} /\ UNCHANGED <<putList, held>>
      /\ mergePc = "count" /\ mergePc' = "tell" /\ lock' = NoOne
      /\ bufCount' = bufCount + Cardinality(inBufList)
      /\ UNCHANGED <<opOn, numBuf, putPc, safe>>
  BY DEF MergeCount, Counts, Merged, nextVars, appVars
<1>2. ASSUME NEW b \in inBufList PROVE InQueOf(chNum'[b]) = 1
  <2>1. b \in Bufs  BY DEF Sorts
  <2>2. chNum'[b] = MaxCh(0) + chNum[b]  BY <2>1 DEF MergeCount, Merged, OutCh
  <2>3. MaxCh(0) \in Nat /\ chNum[b] \in Nat  BY <2>1, MaxChNat DEF Numbers, Ques
  <2> QED  BY <2>2, <2>3 DEF InQueOf
<1>3. ASSUME NEW b \in outBufQue \cup held PROVE chNum'[b] = chNum[b]
  <2>1. b \in Bufs  BY DEF Sorts
  <2>2. b \notin inBufList  BY <2>1, BeyondApart
  <2> QED  BY <2>1, <2>2 DEF MergeCount, Merged
<1>4. Beyond' = Beyond
  <2>1. ASSUME NEW b PROVE b \in Beyond' <=> b \in Beyond
    <3>0. InQueOf(chNum'[b]) = InQueOf(chNum[b])'  BY DEF InQueOf, MaxCh
    <3>1. CASE b \in outBufQue \cup held
      <4>1. b \notin inBufList  BY <3>1, BeyondApart DEF Sorts
      <4>2. b \in outBufQue' \cup held' /\ chNum'[b] = chNum[b]  BY <1>1, <1>3, <3>1
      <4>3. InQueOf(chNum[b])' = InQueOf(chNum[b])  BY <3>0, <4>2
      <4> QED  BY <1>1, <3>1, <4>1, <4>2, <4>3 DEF Beyond
    <3>2. CASE b \notin outBufQue \cup held
      BY <1>1, <1>2, <3>0, <3>2 DEF Beyond
    <3> QED  BY <3>1, <3>2
  <2> QED  BY <2>1
<1>5. Cardinality(inBufList) \in Nat /\ Cardinality(Beyond) \in Nat
  BY BeyondFinite DEF Sorts
<1>6. CountIsBeyond'  BY <1>1, <1>4, <1>5 DEF Counted, CountIsBeyond
<1>7. 0 # NoOne /\ 1 # NoOne  BY LinkChainAssumption DEF Ques
<1> QED  BY <1>1, <1>5, <1>6, <1>7 DEF Counted

LEMMA TakeCounted == ASSUME Counted, Take PROVE Counted'
<1>1. /\ held' = held \cup outBufQue /\ outBufQue' = {}
      /\ UNCHANGED <<inBufList, putList, chNum, bufCount, lock, opOn, numBuf, mergePc, putPc, safe>>
  BY DEF Take, bufVars, gateVars, appVars
<1>2. Beyond' = Beyond  BY <1>1 DEF Beyond, InQueOf, MaxCh
<1> QED  BY <1>1, <1>2, SameBeyond

(* A buffer that goes to the select link directly did not come through the gate. *)
LEMMA PutCounted ==
  ASSUME Sorts, Kept, Counted, NEW bs \in SUBSET Bufs, Put(bs) PROVE Counted'
<1> DEFINE direct == {b \in bs : InQueOf(chNum[b]) = 0}
<1>1. /\ putPc = "idle" /\ putPc' # "count" /\ bs \subseteq held
      /\ held' = held \ bs /\ putList = {} /\ putList' = bs \ direct
      /\ chNum' = [b \in Bufs |-> IF b \in direct THEN orgChNum[b] ELSE chNum[b]]
      /\ UNCHANGED <<inBufList, outBufQue, bufCount, lock, opOn, numBuf, mergePc, safe>>
  BY DEF Put, SelectReturn, gateVars, mergeVars, appVars, Sorts
<1>2. ASSUME NEW b \in Bufs PROVE b \in Beyond' <=> b \in Beyond
  <2>1. b \in held => b \notin outBufQue /\ b \notin inBufList  BY BeyondApart
  <2>2. CASE b \in bs
    <3>1. InQueOf(chNum[b]) \in {0, 1}  BY DEF InQueOf
    <3>2. b \in Beyond' <=> b \notin direct  BY <1>1, <2>1, <2>2 DEF Beyond
    <3>3. b \in Beyond <=> InQueOf(chNum[b]) = 1  BY <1>1, <2>1, <2>2 DEF Beyond
    <3> QED  BY <2>2, <3>1, <3>2, <3>3
  <2>3. CASE b \notin bs
    <3>1. chNum'[b] = chNum[b]  BY <1>1, <2>3
    <3> QED  BY <1>1, <2>3, <3>1 DEF Beyond, InQueOf, MaxCh
  <2> QED  BY <2>2, <2>3
<1>3. Beyond \subseteq Bufs /\ Beyond' \subseteq Bufs
  <2>1. Sorts'  BY PutKept
  <2> QED  BY <1>1, <2>1 DEF Sorts, Beyond
<1>4. Beyond' = Beyond  BY <1>2, <1>3
<1> HIDE DEF direct
<1> QED  BY <1>1, <1>4, SameBeyond

LEMMA PutGateCounted == ASSUME Sorts, Kept, Counted, PutGate PROVE Counted'
<1>1. /\ putPc = "gate" /\ putPc' = "count" /\ lock = NoOne /\ lock' = 1
      /\ numBuf' = Cardinality(putList) /\ putList' = {} /\ putList \subseteq Bufs
      /\ UNCHANGED <<inBufList, outBufQue, held, bufCount, opOn, mergePc, safe>>
  BY DEF PutGate, mergeVars, appVars, Sorts
<1>2. ASSUME NEW b \in outBufQue \cup held PROVE chNum'[b] = chNum[b] /\ b \notin putList
  <2>1. b \in Bufs  BY DEF Sorts
  <2>2. b \notin putList  BY <2>1, BeyondApart
  <2> QED  BY <2>1, <2>2 DEF PutGate, SelectReturn
<1>3. Beyond = Beyond' \cup putList
  <2>1. \A b \in outBufQue \cup held : InQueOf(chNum[b])' = InQueOf(chNum[b])
    BY <1>2 DEF InQueOf, MaxCh
  <2> QED  BY <1>1, <2>1 DEF Beyond
<1>4. Beyond' \cap putList = {}
  <2>1. ASSUME NEW b \in Beyond', b \in putList PROVE FALSE
    BY <1>1, <1>2, <2>1, BeyondApart DEF Beyond
  <2> QED  BY <2>1
<1>5. /\ Cardinality(Beyond) = Cardinality(Beyond') + Cardinality(putList)
      /\ Cardinality(Beyond') \in Nat /\ Cardinality(putList) \in Nat
      /\ Cardinality(inBufList) \in Nat
  <2>1. /\ IsFiniteSet(Beyond') /\ IsFiniteSet(putList)
        /\ Cardinality(Beyond') \in Nat /\ Cardinality(putList) \in Nat
        /\ Cardinality(inBufList) \in Nat
    <3>1. Beyond' \subseteq Bufs  BY <1>3, BeyondFinite
    <3> QED  BY <1>1, <3>1, BeyondFinite DEF Sorts
  <2>2. Cardinality(Beyond' \cap putList) = 0  BY <1>4, FS_EmptySet
  <2>3. Cardinality(Beyond' \cup putList)
          = Cardinality(Beyond') + Cardinality(putList) - Cardinality(Beyond' \cap putList)
    BY <2>1, FS_Union
  <2> QED  BY <1>3, <2>1, <2>2, <2>3
<1>6. CountIsBeyond'  BY <1>1, <1>5 DEF Counted, CountIsBeyond
<1>7. 0 # NoOne /\ 1 # NoOne  BY LinkChainAssumption DEF Ques
<1> QED  BY <1>1, <1>5, <1>6, <1>7 DEF Counted

(* After a poll that gave 0 nothing is left to be counted.                  *)
LEMMA PutCountCounted == ASSUME Sorts, Counted, PutCount PROVE Counted'
<1>1. /\ putPc = "count" /\ putPc' = "idle" /\ lock' = NoOne /\ lock = 1
      /\ bufCount' = bufCount - numBuf /\ numBuf' = 0
      /\ UNCHANGED <<inBufList, outBufQue, held, putList, chNum, opOn, mergePc, safe>>
  BY DEF PutCount, bufVars, mergeVars, appVars, Counted
<1>2. Beyond' = Beyond  BY <1>1, BeyondKeeps
<1>3. Cardinality(Beyond) \in Nat /\ Cardinality(inBufList) \in Nat
  BY BeyondFinite DEF Sorts
<1>4. CountIsBeyond'  BY <1>1, <1>2, <1>3 DEF Counted, CountIsBeyond
<1>5. safe => bufCount' = 0
  <2> SUFFICES ASSUME safe PROVE bufCount' = 0  OBVIOUS
  <2>1. ~opOn /\ bufCount = 0  BY DEF Counted
  <2>2. mergePc # "count"  BY <2>1 DEF Counted
  <2>3. bufCount = Cardinality(Beyond) + numBuf
    BY <1>1, <1>3, <2>1, <2>2 DEF Counted, CountIsBeyond
  <2> QED  BY <1>1, <1>3, <2>1, <2>3 DEF Counted
<1>6. 0 # NoOne /\ 1 # NoOne  BY LinkChainAssumption DEF Ques
<1> QED  BY <1>1, <1>4, <1>5, <1>6 DEF Counted

LEMMA RecreateCounted == ASSUME Sorts, Counted, Recreate PROVE Counted'
<1>1. /\ bufCount' = 0 /\ opOn' = FALSE /\ safe' = FALSE /\ mergePc = "wait" /\ putPc = "idle"
      /\ inBufList' = {} /\ putList' = {} /\ outBufQue' = {} /\ held' = {}
      /\ UNCHANGED <<lock, numBuf, mergePc, putPc>>
  BY DEF Recreate, Sorts
<1>2. Beyond' = {}  BY <1>1 DEF Beyond
<1>3. Cardinality(Beyond') = 0  BY <1>2, FS_EmptySet
<1>4. CountIsBeyond'  BY <1>1, <1>3 DEF CountIsBeyond
<1>5. opOn' \in BOOLEAN /\ ~safe'  BY <1>1, Zenon
<1> QED  BY <1>1, <1>4, <1>5 DEF Counted

LEMMA NextCounted == ASSUME Sorts, Kept, Numbers, Counted, [Next]_vars PROVE Counted'
<1> USE DEF bufVars, selectVars, gateVars, mergeVars, nextVars, appVars
<1>1. ASSUME NEW b \in Bufs, Produce(b) PROVE Counted'
  BY <1>1, SameBeyond, BeyondKeeps DEF Produce
<1>2. ASSUME NEW q \in {0, 1, 2}, NEW chs \in Lists, SetOutQueChInfo(q, chs) PROVE Counted'
  BY <1>2, SameBeyond, BeyondKeeps DEF SetOutQueChInfo
<1>3. CASE MergeTell
  <2>1. UNCHANGED <<inBufList, putList, outBufQue, held, chNum, bufCount, lock, opOn, numBuf,
                    putPc, safe>> /\ mergePc = "tell" /\ mergePc' = "wait"
    BY <1>3 DEF MergeTell
  <2>2. Beyond' = Beyond  BY <2>1, BeyondKeeps
  <2> QED  BY <2>1, <2>2, SameBeyond
<1>4. CASE Poll  BY <1>4, SameBeyond, BeyondKeeps DEF Poll
<1>5. CASE UNCHANGED vars  BY <1>5, SameBeyond, BeyondKeeps DEF vars
<1>6. CASE SetOn \/ SetOff
  <2>1. /\ lock = NoOne
        /\ UNCHANGED <<inBufList, putList, outBufQue, held, chNum, bufCount, lock, numBuf,
                       mergePc, putPc>>
    BY <1>6 DEF SetOn, SetOff
  <2>5. opOn' \in BOOLEAN /\ (safe' => safe /\ ~opOn')
    <3>1. CASE SetOn  BY <3>1, Zenon DEF SetOn
    <3>2. CASE SetOff  BY <3>2, Zenon DEF SetOff
    <3> QED  BY <1>6, <3>1, <3>2
  <2>2. Beyond' = Beyond  BY <2>1, BeyondKeeps
  <2>3. CountIsBeyond'  BY <2>1, <2>2 DEF Counted, CountIsBeyond
  <2>4. 0 # NoOne  BY LinkChainAssumption DEF Ques
  <2> QED  BY <2>1, <2>3, <2>4, <2>5 DEF Counted
<1>7. CASE Merge
  BY <1>3, <1>7, MergeDirectCounted, MergeGateCounted, MergeCountCounted, HaltDirectCounted,
     HaltCountCounted DEF Merge
<1> QED
  BY <1>1, <1>2, <1>4, <1>5, <1>6, <1>7, SelectCounted, GateDataCounted, TakeCounted,
     PutCounted, PutGateCounted, PutCountCounted, RecreateCounted DEF Next

(* bufCount is the number of buffers to be released, in every interleaving of   *)
(* the merge link, of what returns buffers and of the commands.             *)
THEOREM CountsBeyond == Spec => []CountIsBeyond
<1>1. Counted => CountIsBeyond  BY DEF Counted
<1> QED
  BY <1>1, InitKept, NextKept, InitNumbers, NextNumbers, InitCounted, NextCounted, PTL DEF Spec

(* What the application relies on when it deletes links behind the gate.     *)
THEOREM SafeToDelete == Spec => []PollSafe
<1>1. ASSUME Sorts, Counted PROVE PollSafe
  <2> SUFFICES ASSUME safe PROVE Beyond = {}  BY DEF PollSafe
  <2>1. bufCount = 0 /\ mergePc # "count"  BY <1>1 DEF Counted
  <2>2. IsFiniteSet(Beyond) /\ Cardinality(Beyond) \in Nat  BY <1>1, BeyondFinite
  <2>3. Cardinality(Beyond) = 0
    BY <1>1, <2>1, <2>2 DEF Counted, CountIsBeyond
  <2> QED  BY <2>2, <2>3, FS_EmptySet
<1> QED
  BY <1>1, InitKept, NextKept, InitNumbers, NextNumbers, InitCounted, NextCounted, PTL DEF Spec

-----------------------------------------------------------------------------
(* The rest of the types.                                                   *)
Modes ==
  /\ selMsg \in BOOLEAN /\ gateMsg \in BOOLEAN /\ mergeMsg \in BOOLEAN
  /\ fresh \in BOOLEAN /\ nextMsg \in BOOLEAN /\ safe \in BOOLEAN
  /\ mergePc \in {"wait", "gate", "count", "tell", "halted0", "halted1"}
  /\ putPc \in {"idle", "gate", "count"}
  /\ cmds \in Nat

LEMMA NextModes == ASSUME Modes, [Next]_vars PROVE Modes'
<1> USE DEF Modes, bufVars, selectVars, gateVars, mergeVars, nextVars, appVars
<1>1. ASSUME NEW b \in Bufs, Produce(b) PROVE Modes'  BY <1>1 DEF Produce
<1>2. CASE Select  BY <1>2 DEF Select
<1>3. ASSUME NEW q \in {0, 1, 2}, NEW chs \in Lists, SetOutQueChInfo(q, chs) PROVE Modes'
  BY <1>3, LinkChainAssumption DEF SetOutQueChInfo
<1>4. CASE GateData  BY <1>4 DEF GateData
<1>5. CASE SetOn
  <2>1. safe' \in BOOLEAN  BY <1>5, Zenon DEF SetOn
  <2> QED  BY <1>5, <2>1, LinkChainAssumption DEF SetOn
<1>6. CASE SetOff  BY <1>6, LinkChainAssumption DEF SetOff
<1>7. CASE Poll  BY <1>7 DEF Poll
<1>8. CASE MergeDirect  BY <1>8 DEF MergeDirect
<1>9. CASE MergeGate  BY <1>9 DEF MergeGate
<1>10. CASE MergeCount  BY <1>10, LinkChainAssumption DEF MergeCount, Counts
<1>18. CASE HaltDirect \/ HaltCount  BY <1>18, LinkChainAssumption DEF HaltDirect, HaltCount, Counts
<1>11. CASE MergeTell  BY <1>11 DEF MergeTell
<1>12. CASE Take  BY <1>12 DEF Take
<1>13. ASSUME NEW bs \in SUBSET Bufs, Put(bs) PROVE Modes'  BY <1>13 DEF Put
<1>14. CASE PutGate  BY <1>14 DEF PutGate
<1>15. CASE PutCount  BY <1>15 DEF PutCount
<1>16. CASE Recreate  BY <1>16 DEF Recreate
<1>17. CASE UNCHANGED vars  BY <1>17 DEF vars
<1> QED
  BY <1>1, <1>2, <1>3, <1>4, <1>5, <1>6, <1>7, <1>8, <1>9, <1>10, <1>11, <1>12, <1>13, <1>14,
     <1>15, <1>16, <1>17, <1>18 DEF Next, Merge

(* With the types: the assertion bufCount >= 0 of gateLink_tsk.c:223.         *)
THEOREM Typed == Spec => []TypeOK
<1>1. Init => Modes  BY DEF Init, Modes
<1>2. ASSUME Sorts, Numbers, Counted, Modes PROVE TypeOK
  <2>1. bufCount \in Nat
    <3>1. /\ Cardinality(Beyond) \in Nat /\ Cardinality(inBufList) \in Nat
          /\ mergePc = "count" => Cardinality(inBufList) <= Cardinality(Beyond)
      BY <1>2, BeyondFinite, FS_Subset DEF Sorts
    <3> QED  BY <1>2, <3>1 DEF Counted, CountIsBeyond
  <2>2. inChInfo \in [InChs -> [queId : {0, 1, 2, NotMapped}, outChNum : Nat]]
    BY <1>2 DEF Numbers, Info
  <2> QED  BY <1>2, <2>1, <2>2 DEF TypeOK, Sorts, Numbers, Counted, Modes
<1> QED
  BY <1>1, <1>2, InitKept, NextKept, InitNumbers, NextNumbers, InitCounted, NextCounted,
     NextModes, PTL DEF Spec

-----------------------------------------------------------------------------
(* Nothing is forgotten: each link that has frames to hand on was told of      *)
(* them, or its task is past the point where it was.                        *)
Told ==
  /\ srcFull # {} => selMsg
  /\ outFrameQue[0] # {} => mergeMsg
  /\ outBufQue # {} => nextMsg \/ fresh
  /\ mergePc = "wait" => ~fresh

LEMMA ToldKeeps == ASSUME Sorts, Counted, Modes, Told, [Next]_vars PROVE Told'
<1> USE DEF Told, bufVars, selectVars, gateVars, mergeVars, nextVars, appVars
<1>1. ASSUME NEW b \in Bufs, Produce(b) PROVE Told'  BY <1>1 DEF Produce
<1>2. CASE Select
  <2>1. /\ outFrameQue'[0] = outFrameQue[0] \cup Routed(0)
        /\ mergeMsg' = (mergeMsg \/ Routed(0) # {}) /\ srcFull' = {}
    BY <1>2 DEF Select, Ques
  <2>2. UNCHANGED <<outBufQue, nextMsg, fresh, mergePc>>  BY <1>2 DEF Select
  <2> QED  BY <2>1, <2>2
<1>3. ASSUME NEW q \in {0, 1, 2}, NEW chs \in Lists, SetOutQueChInfo(q, chs) PROVE Told'
  BY <1>3 DEF SetOutQueChInfo
<1>4. CASE GateData
  <2>1. outFrameQue'[0] = outFrameQue[0]  BY <1>4 DEF GateData, Sorts, Ques
  <2>2. /\ UNCHANGED <<srcFull, selMsg, outBufQue, nextMsg, fresh, mergePc>>
        /\ mergeMsg => mergeMsg'
    BY <1>4 DEF GateData
  <2> QED  BY <2>1, <2>2
<1>5. CASE SetOn \/ SetOff \/ Poll  BY <1>5 DEF SetOn, SetOff, Poll
<1>6. CASE MergeDirect
  <2>1. outFrameQue'[0] = {} /\ mergePc' = "gate"  BY <1>6 DEF MergeDirect, Sorts, Ques
  <2>2. /\ UNCHANGED <<srcFull, selMsg, nextMsg>> /\ mergePc = "wait"
        /\ fresh' = (outFrameQue[0] # {}) /\ outBufQue' = outBufQue \cup outFrameQue[0]
    BY <1>6 DEF MergeDirect, Merged
  <2>3. outBufQue # {} => nextMsg  BY <2>2
  <2> QED  BY <2>1, <2>2, <2>3
<1>7. CASE MergeGate
  <2>1. outFrameQue'[0] = outFrameQue[0]  BY <1>7 DEF MergeGate, Sorts, Ques
  <2>2. /\ UNCHANGED <<srcFull, selMsg, mergeMsg, outBufQue, nextMsg, fresh>>
        /\ mergePc' # "wait"
    BY <1>7 DEF MergeGate
  <2> QED  BY <2>1, <2>2
<1>8. CASE MergeCount
  <2>1. /\ UNCHANGED <<srcFull, selMsg, outFrameQue, mergeMsg, nextMsg>>
        /\ outBufQue' = outBufQue \cup inBufList /\ fresh' = (fresh \/ inBufList # {})
        /\ mergePc' = "tell"
    BY <1>8 DEF MergeCount, Merged
  <2> QED  BY <2>1
<1>9. CASE MergeTell  BY <1>9 DEF MergeTell
<1>15. CASE HaltDirect
  <2>1. outFrameQue'[0] = {}  BY <1>15 DEF HaltDirect, Sorts, Ques
  <2> QED  BY <1>15, <2>1 DEF HaltDirect
<1>16. CASE HaltCount  BY <1>16 DEF HaltCount, Counts
<1>10. CASE Take  BY <1>10 DEF Take
<1>11. ASSUME NEW bs \in SUBSET Bufs, Put(bs) PROVE Told'  BY <1>11 DEF Put
<1>12. CASE PutGate \/ PutCount  BY <1>12 DEF PutGate, PutCount
<1>13. CASE Recreate
  <2>1. outFrameQue'[0] = {}  BY <1>13 DEF Recreate, Ques
  <2> QED  BY <1>13, <2>1 DEF Recreate
<1>14. CASE UNCHANGED vars  BY <1>14 DEF vars
<1> QED
  BY <1>1, <1>2, <1>3, <1>4, <1>5, <1>6, <1>7, <1>8, <1>9, <1>10, <1>11, <1>12, <1>13, <1>14,
     <1>15, <1>16
  DEF Next, Merge

(* Somebody has b, and was told of it or is about to be.                    *)
Moving(b) ==
  \/ b \in srcFull /\ selMsg
  \/ b \in outFrameQue[0] /\ mergeMsg /\ ~Halted
  \/ b \in outFrameQue[1] /\ (gateMsg \/ (opOn /\ (mergeMsg \/ mergePc = "gate") /\ ~Halted))
  \/ b \in inBufList /\ mergePc = "count"
  \/ b \in outBufQue /\ (nextMsg \/ (fresh /\ mergePc # "wait" /\ ~Halted))
  \/ b \in held
  \/ b \in putList /\ putPc = "gate"

(* A frame is back at the source, on its way, behind the closed gate, or waits  *)
(* for the task that an assertion halted.                                   *)
Awaited == \A b \in Bufs : b \in srcFree \/ Moving(b) \/ Stranded(b) \/ LeftBehind(b)

(* Only OFF leaves a frame behind the gate with nobody to take it.            *)
OffStrands == [][\A b \in Bufs : Stranded(b)' /\ ~Stranded(b) => SetOff]_vars

LEMMA OnlyOff ==
  ASSUME Sorts, Modes, [Next]_vars, ~SetOff, NEW b \in Bufs, Stranded(b)'
  PROVE  Stranded(b)
<1> USE DEF Stranded, Halted, bufVars, selectVars, gateVars, mergeVars, nextVars, appVars
<1>0. b \in outFrameQue'[1] /\ ~gateMsg'
      /\ (~opOn' \/ (~mergeMsg' /\ mergePc' \notin {"gate", "halted0", "halted1"}))
  OBVIOUS
<1>1. CASE Select
  <2>1. /\ outFrameQue'[1] = outFrameQue[1] \cup Routed(1)
        /\ gateMsg' = (gateMsg \/ Routed(1) # {}) /\ mergeMsg' = (mergeMsg \/ Routed(0) # {})
        /\ opOn' = opOn /\ mergePc' = mergePc
    BY <1>1 DEF Select, Ques
  <2> QED  BY <1>0, <2>1
<1>2. CASE GateData
  <2>1. ~opOn => outFrameQue'[1] = {}  BY <1>2 DEF GateData, Sorts, Ques
  <2>2. opOn  BY <1>0, <2>1
  <2>3. opOn' /\ mergeMsg'  BY <1>2, <2>2 DEF GateData
  <2> QED  BY <1>0, <2>3
<1>3. CASE SetOn
  <2>1. opOn' /\ UNCHANGED <<gateMsg, mergeMsg, mergePc, outFrameQue>>  BY <1>3 DEF SetOn
  <2> QED  BY <1>0, <2>1
<1>4. CASE MergeDirect
  <2>1. outFrameQue'[1] = outFrameQue[1] /\ mergePc' = "gate" /\ UNCHANGED <<gateMsg, opOn>>
    BY <1>4 DEF MergeDirect, Sorts, Ques
  <2> QED  BY <1>0, <2>1
<1>5. CASE MergeGate
  <2>1. opOn => outFrameQue'[1] = {}  BY <1>5 DEF MergeGate, Sorts, Ques
  <2>2. ~opOn /\ gateMsg' = gateMsg  BY <1>0, <1>5, <2>1 DEF MergeGate
  <2>3. outFrameQue' = outFrameQue  BY <1>5, <2>2 DEF MergeGate
  <2> QED  BY <1>0, <2>2, <2>3
<1>6. CASE MergeCount \/ MergeTell
  <2>1. /\ UNCHANGED <<gateMsg, opOn, mergeMsg, outFrameQue>> /\ mergePc \in {"count", "tell"}
    BY <1>6 DEF MergeCount, Counts, MergeTell
  <2> QED  BY <1>0, <2>1
<1>9. CASE HaltDirect \/ HaltCount
  <2>1. /\ UNCHANGED <<gateMsg, opOn>> /\ outFrameQue'[1] = outFrameQue[1]
        /\ mergePc' \in {"halted0", "halted1"}
    BY <1>9 DEF HaltDirect, HaltCount, Sorts, Ques
  <2> QED  BY <1>0, <2>1
<1>7. CASE Recreate
  <2>1. outFrameQue'[1] = {}  BY <1>7 DEF Recreate, Ques
  <2> QED  BY <1>0, <2>1
<1>8. ASSUME \/ \E c \in Bufs : Produce(c)
             \/ \E q \in {0, 1, 2}, chs \in Lists : SetOutQueChInfo(q, chs)
             \/ Poll \/ Take \/ (\E bs \in SUBSET Bufs : Put(bs)) \/ PutGate \/ PutCount
             \/ UNCHANGED vars
      PROVE  UNCHANGED <<gateMsg, opOn, mergeMsg, mergePc, outFrameQue>>
  BY <1>8 DEF Produce, SetOutQueChInfo, Poll, Take, Put, PutGate, PutCount, vars
<1> QED
  BY <1>0, <1>1, <1>2, <1>3, <1>4, <1>5, <1>6, <1>7, <1>8, <1>9 DEF Next, Merge

(* The safety half of FrameReturned: no NEW_DATA is lost between the links,   *)
(* and the command OFF alone strands a frame, by coming between the NEW_DATA  *)
(* that the gate forwards and the merge link's call for the frame.           *)
THEOREM FramesAwaited == Spec => []Awaited /\ OffStrands
<1>1. Init => Told  BY DEF Init, Told, Ques
<1>2. Sorts /\ Counted /\ Modes /\ Told /\ [Next]_vars => Told'  BY ToldKeeps
<1>3. ASSUME Sorts, Kept, Told PROVE Awaited
  <2> SUFFICES ASSUME NEW b \in Bufs
               PROVE b \in srcFree \/ Moving(b) \/ Stranded(b) \/ LeftBehind(b)
    BY DEF Awaited
  <2>1. PICK i \in 1..8 : At(b, i)  BY <1>3 DEF Kept
  <2>2. \/ b \in srcFree \/ b \in srcFull \/ b \in outFrameQue[0] \/ b \in outFrameQue[1]
        \/ b \in inBufList \/ b \in outBufQue \/ b \in held \/ b \in putList
    BY <2>1 DEF At
  <2> QED  BY <1>3, <2>2 DEF Told, Sorts, Moving, Stranded, LeftBehind, Halted
<1>4. ASSUME Sorts, Modes, [Next]_vars
      PROVE  [\A b \in Bufs : Stranded(b)' /\ ~Stranded(b) => SetOff]_vars
  BY <1>4, OnlyOff
<1>5. Init => Modes  BY DEF Init, Modes
<1> QED
  BY <1>1, <1>2, <1>3, <1>4, <1>5, InitKept, NextKept, InitNumbers, NextNumbers, InitCounted,
     NextCounted, NextModes, PTL DEF Spec, OffStrands
=============================================================================
