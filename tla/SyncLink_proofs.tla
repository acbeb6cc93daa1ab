--------------------------- MODULE SyncLink_proofs ---------------------------
(***************************************************************************)
(* Proofs about the sync link, for every number of channels, of buffers and  *)
(* of composites, every syncDelta, and whatever the average was taken of.    *)
(***************************************************************************)
EXTENDS SyncLink, FiniteSetTheorems, WellFoundedInduction, TLAPS

(* A set of numbers has a least one.                                        *)
LEMMA LeastNat ==
  ASSUME NEW S \in SUBSET Nat, S # {}
  PROVE  \E x \in S : \A y \in S : x <= y
  <1>2. PICK x \in S : \A y \in S : ~(<<y, x>> \in OpToRel(<, Nat))
    BY WFMin, NatLessThanWellFounded
  <1>3. ASSUME NEW y \in S, y < x PROVE FALSE
    <2>1. <<y, x>> \in Nat \X Nat /\ <<y, x>>[1] < <<y, x>>[2]
      BY <1>3
    <2> QED
      BY <1>2, <2>1, Zenon DEF OpToRel
  <1> QED
    BY <1>3

(* The least of some times is one of them.                                  *)
LEMMA MinIn ==
  ASSUME NEW S \in SUBSET Times, S # {}
  PROVE  Min(S) \in S
  <1>1. S \in SUBSET Nat
    BY DEF Times
  <1>2. \E x \in S : \A y \in S : x <= y
    BY <1>1, LeastNat
  <1> QED
    BY <1>2 DEF Min

(* The ms of a time in us: rounded down, and in the order of the times.       *)
LEMMA MsIs ==
  ASSUME NEW t \in Nat
  PROVE  /\ Ms(t) \in Nat /\ Ms(t) <= t
         /\ Ms(t) * Kilo <= t /\ t < Ms(t) * Kilo + Kilo
  <1>1. Ms(t) \in Nat /\ Ms(t) * Kilo <= t /\ t < Ms(t) * Kilo + Kilo
    BY SyncLinkAssumption DEF Ms
  <1>2. \A x \in Nat : x <= x * Kilo
    BY SyncLinkAssumption
  <1>3. Ms(t) * Kilo \in Nat
    BY <1>1, SyncLinkAssumption
  <1> QED
    BY <1>1, <1>2, <1>3

LEMMA MsOrder ==
  ASSUME NEW t \in Nat, NEW u \in Nat, t <= u
  PROVE  Ms(t) <= Ms(u)
  <1>1. Ms(t) \in Nat /\ Ms(u) \in Nat
    BY MsIs
  <1>2. CASE Ms(u) + 1 <= Ms(t)
    <2>1. \A x, y \in Nat : x <= y => x * Kilo <= y * Kilo
      BY SyncLinkAssumption
    <2>2. (Ms(u) + 1) * Kilo <= Ms(t) * Kilo
      BY <1>1, <1>2, <2>1
    <2>3. (Ms(u) + 1) * Kilo = Ms(u) * Kilo + Kilo
      BY <1>1, SyncLinkAssumption
    <2>4. Ms(t) * Kilo \in Nat /\ Ms(u) * Kilo \in Nat
      BY <1>1, SyncLinkAssumption
    <2> QED
      BY <2>2, <2>3, <2>4, MsIs, SyncLinkAssumption
  <1> QED
    BY <1>1, <1>2

(* What InSync rests on: the channels are channels, and a local queue holds   *)
(* times, so that a composite can be told from an empty entry.               *)
IInv ==
  /\ syncList \in SUBSET Chans
  /\ localQue \in [Chans -> SUBSET Times]
  /\ InSync

(* The heads that the decision accepts are near enough.                     *)
LEMMA AcceptedNear ==
  ASSUME IInv, Ready, NEW m \in Masters, Synced(m), Checked,
         NEW c \in syncList, NEW d \in syncList
  PROVE  Ms(Head(c)) - Ms(Head(d)) <= 2 * SyncDelta
  <1>1. m \in 0 .. Word - 1
    BY Zenon DEF Masters
  <1>2. Ms(Head(c)) \in Nat /\ Ms(Head(d)) \in Nat
    <2>1. Head(c) \in Nat /\ Head(d) \in Nat
      BY MinIn DEF IInv, Ready, Head, Times
    <2> QED
      BY <2>1, MsIs
  <1>3. ~(Ms(Head(d)) < Lower(m)) /\ ~(Ms(Head(c)) > Higher(m))
    BY DEF Synced, Low, High
  <1>4. Higher(m) \in Int /\ Higher(m) <= m + SyncDelta
    BY <1>1, SyncLinkAssumption DEF Higher, Capped
  <1> QED
    BY <1>1, <1>2, <1>3, <1>4, SyncLinkAssumption DEF Lower

LEMMA InitInv == Init => IInv
  BY SyncLinkAssumption DEF Init, IInv, InSync

(* Nothing but a round of the loop makes a composite.                       *)
LEMMA NothingMade ==
  ASSUME IInv, syncList' = syncList, localQue' \in [Chans -> SUBSET Times],
         fullQue' \cup held' \subseteq fullQue \cup held
  PROVE  IInv'
  BY DEF IInv, InSync, Checked

LEMMA ComposeInv ==
  ASSUME IInv, Ready, NEW m \in Masters, Compose(m)
  PROVE  IInv'
  <1> DEFINE k == [orig |-> [c \in Chans |-> IF c \in syncList THEN Head(c) ELSE 0],
                   stamp |-> Stamp(m)]
  <1>1. CASE emptyQue > 0
    <2>1. \A c \in syncList : c \in Chans /\ Head(c) \in Times
      BY MinIn DEF IInv, Ready, Head
    <2>2. syncList' = syncList /\ localQue' \in [Chans -> SUBSET Times]
      BY <1>1 DEF IInv, Compose, linkVars
    <2>3. fullQue' \cup held' = fullQue \cup held \cup {k}
      BY <1>1 DEF Compose, nextVars
    <2>4. {c \in Chans : k.orig[c] # 0} = syncList
      BY <2>1 DEF Times, IInv
    <2>5. Checked => \A c, d \in syncList : Ms(k.orig[c]) - Ms(k.orig[d]) <= 2 * SyncDelta
      BY <2>1, AcceptedNear DEF Compose, IInv
    <2> HIDE DEF k
    <2> QED
      BY <2>2, <2>3, <2>4, <2>5 DEF IInv, InSync, Checked
  <1>2. CASE ~(emptyQue > 0)
    <2>1. syncList' = syncList /\ localQue' \in [Chans -> SUBSET Times]
      BY <1>2 DEF IInv, Compose, GiveBack, linkVars
    <2>2. fullQue' \cup held' = fullQue \cup held
      BY <1>2 DEF Compose, nextVars
    <2> QED
      BY <2>1, <2>2, NothingMade
  <1> QED
    BY <1>1, <1>2

LEMMA NextInv == IInv /\ [Next]_vars => IInv'
  <1> SUFFICES ASSUME IInv, [Next]_vars PROVE IInv'
    OBVIOUS
  <1> USE DEF linkVars, nextVars
  <1>1. CASE Tick
    BY <1>1, NothingMade DEF Tick, IInv
  <1>2. ASSUME NEW c \in Chans, NEW t \in Times, Produce(c, t) PROVE IInv'
    BY <1>2, NothingMade DEF Produce, IInv
  <1>3. CASE Timer
    BY <1>3, NothingMade DEF Timer, IInv
  <1>4. CASE Start \/ Stop
    BY <1>4, NothingMade DEF Start, Stop, IInv
  <1>5. CASE Recreate
    BY <1>5, NothingMade DEF Recreate, IInv
  <1>6. CASE DropStale
    BY <1>6, NothingMade DEF DropStale, GiveBack, IInv
  <1>7. CASE Fill
    <2>1. localQue' \in [Chans -> SUBSET Times]
      BY <1>7 DEF Fill, IInv
    <2> QED
      BY <1>7, <2>1, NothingMade DEF Fill
  <1>8. CASE NoSet
    BY <1>8, NothingMade DEF NoSet, IInv
  <1>9. ASSUME Ready, NEW m \in Masters, DropUnsynced(m) PROVE IInv'
    BY <1>9, NothingMade DEF DropUnsynced, GiveBack, IInv
  <1>10. CASE Take
    BY <1>10, NothingMade DEF Take, IInv
  <1>11. ASSUME NEW ks \in SUBSET held, ReturnFrames(ks) PROVE IInv'
    BY <1>11, NothingMade DEF ReturnFrames, IInv
  <1>12. CASE ReturnComposites
    BY <1>12, NothingMade DEF ReturnComposites, IInv
  <1>13. CASE UNCHANGED vars
    BY <1>13, NothingMade DEF vars, IInv
  <1> QED
    BY <1>1, <1>2, <1>3, <1>4, <1>5, <1>6, <1>7, <1>8, <1>9, <1>10, <1>11, <1>12, <1>13,
       ComposeInv DEF Next, Process, Returns

(* Every composite has exactly the active channels' frames, and no two of     *)
(* them are further apart than twice syncDelta.                             *)
THEOREM CompositesInSync == Spec => []InSync
  <1>1. IInv => InSync
    BY DEF IInv
  <1> QED
    BY <1>1, InitInv, NextInv, PTL DEF Spec

-----------------------------------------------------------------------------
(* Where the frames and the composites are.                                 *)

Waiting(c) == {f \in prevFull : f[1] = c}
Made(c)    == {k \in fullQue : k.orig[c] # 0}
Sent(c)    == {k \in held : k.orig[c] # 0}

(* The type invariant without the bounds on what is counted.                *)
Sorts ==
  /\ syncList \in (SUBSET Chans) \ {{}}
  /\ state \in {"CREATED", "RUNNING"} /\ starts \in 0 .. MaxStarts
  /\ now \in Nat /\ last \in [Chans -> 0 .. MaxTime]
  /\ prevFree \in [Chans -> Nat] /\ prevFull \subseteq Chans \X Times
  /\ newData \in BOOLEAN /\ pc \in {"wait", "fill", "decide"}
  /\ localQue \in [Chans -> SUBSET Times]
  /\ emptyQue \in Nat /\ fullQue \subseteq Composites
  /\ told \in BOOLEAN /\ held \subseteq Composites /\ returning \in Nat

Finite == IsFiniteSet(prevFull) /\ IsFiniteSet(fullQue) /\ IsFiniteSet(held)

(* A frame is in one place, and none is newer than the last of its channel.   *)
Placed ==
  /\ \A c \in Chans, t \in Times : <<c, t>> \in prevFull =>
       /\ t <= last[c] /\ t \notin localQue[c]
       /\ \A k \in fullQue \cup held : k.orig[c] # t
  /\ \A c \in Chans : \A t \in localQue[c] :
       /\ t <= last[c]
       /\ \A k \in fullQue \cup held : k.orig[c] # t
  /\ \A c \in Chans : \A k \in fullQue \cup held : k.orig[c] <= last[c]
  /\ fullQue \cap held = {}

CompositeConserved ==
  emptyQue + Cardinality(fullQue) + Cardinality(held) + returning = Comps

Books ==
  /\ InSync /\ Sorts /\ Finite /\ Placed
  /\ BufferConserved /\ CompositeConserved /\ returning <= B

LEMMA SomeActive == Sorts => syncList \subseteq Chans /\ \E c \in Chans : c \in syncList
  <1> SUFFICES ASSUME Sorts PROVE syncList \subseteq Chans /\ \E c \in Chans : c \in syncList
    OBVIOUS
  <1>1. syncList \in SUBSET Chans /\ syncList \notin {{}}
    BY DEF Sorts
  <1>2. syncList # {}
    BY <1>1
  <1> QED
    BY <1>1, <1>2

LEMMA TimesFinite ==
  ASSUME NEW S \in SUBSET Times
  PROVE  IsFiniteSet(S) /\ Cardinality(S) \in Nat
  <1>1. IsFiniteSet(Times)
    BY FS_Interval, SyncLinkAssumption DEF Times
  <1> QED
    BY <1>1, FS_Subset, FS_CardinalityType

(* The frames of a channel in the queue of the previous link are as many as   *)
(* their timestamps.                                                        *)
LEMMA WaitingTimes ==
  ASSUME Sorts, Finite, NEW c \in Chans
  PROVE  Cardinality(Waiting(c)) = Cardinality({t \in Times : <<c, t>> \in prevFull})
  <1> DEFINE T == {t \in Times : <<c, t>> \in prevFull}
             f == [t \in T |-> <<c, t>>]
  <1>1. \A t \in T : f[t] \in Waiting(c)
    BY DEF Waiting
  <1>2. \A t, u \in T : f[t] = f[u] => t = u
    OBVIOUS
  <1>3. ASSUME NEW w \in Waiting(c) PROVE \E t \in T : f[t] = w
    <2>1. w \in Chans \X Times /\ w \in prevFull /\ w[1] = c
      BY DEF Waiting, Sorts
    <2>2. w = <<c, w[2]>> /\ w[2] \in T
      BY <2>1
    <2> QED
      BY <2>2
  <1>4. f \in Bijection(T, Waiting(c))
    BY <1>1, <1>2, <1>3 DEF Bijection, Injection, Surjection, IsInjective
  <1>5. IsFiniteSet(T)
    BY TimesFinite
  <1>6. ExistsBijection(T, Waiting(c))
    BY <1>4 DEF ExistsBijection
  <1> HIDE DEF T, f
  <1>7. Cardinality(Waiting(c)) = Cardinality(T)
    BY <1>5, <1>6, FS_Bijection
  <1> QED
    BY <1>7 DEF T

(* What is counted is counted with natural numbers.                         *)
LEMMA Counts ==
  ASSUME Sorts, Finite, NEW c \in Chans
  PROVE  /\ Cardinality(Waiting(c)) \in Nat /\ Cardinality(localQue[c]) \in Nat
         /\ Cardinality(Made(c)) \in Nat /\ Cardinality(Sent(c)) \in Nat
         /\ IsFiniteSet(Waiting(c)) /\ IsFiniteSet(Made(c)) /\ IsFiniteSet(Sent(c))
         /\ Cardinality(fullQue) \in Nat /\ Cardinality(held) \in Nat
  <1>1. Waiting(c) \in SUBSET prevFull /\ Made(c) \in SUBSET fullQue /\ Sent(c) \in SUBSET held
    BY DEF Waiting, Made, Sent
  <1>2. IsFiniteSet(Waiting(c)) /\ IsFiniteSet(Made(c)) /\ IsFiniteSet(Sent(c))
    BY <1>1, FS_Subset DEF Finite
  <1>3. localQue[c] \in SUBSET Times
    BY DEF Sorts
  <1> QED
    BY <1>2, <1>3, TimesFinite, FS_CardinalityType DEF Finite

Total(c) == prevFree[c] + Cardinality(Waiting(c)) + Cardinality(localQue[c])
              + Cardinality(Made(c)) + Cardinality(Sent(c))

LEMMA Conserved == BufferConserved <=> \A c \in Chans : Total(c) = B
  BY DEF BufferConserved, Total, Waiting, Made, Sent

(* The type invariant follows from the books.                               *)
LEMMA BooksType == Books => TypeOK
  <1> SUFFICES ASSUME Books PROVE TypeOK
    OBVIOUS
  <1>1. \A c \in Chans : prevFree[c] \in 0 .. B
    BY Counts, Conserved, SyncLinkAssumption DEF Books, Sorts, Total
  <1>2. PICK c \in Chans : c \in syncList
    BY SomeActive DEF Books
  <1>3. emptyQue \in 0 .. Comps /\ returning \in 0 .. Comps
    BY Counts, <1>2, SyncLinkAssumption DEF Books, Sorts, CompositeConserved
  <1> QED
    BY <1>1, <1>3 DEF Books, Sorts, TypeOK

LEMMA InitBooks == Init => Books
  <1> SUFFICES ASSUME Init PROVE Books
    OBVIOUS
  <1>0. InSync
    BY InitInv DEF IInv
  <1>s. Sorts
    <2>1. syncList \in (SUBSET Chans) \ {{}}
      BY DEF Init
    <2>2. /\ [c \in Chans |-> B] \in [Chans -> Nat] /\ [c \in Chans |-> 0] \in [Chans -> 0 .. MaxTime]
          /\ [c \in Chans |-> {}] \in [Chans -> SUBSET Times]
          /\ 0 \in 0 .. MaxStarts
      BY SyncLinkAssumption
    <2> QED
      BY <2>1, <2>2, SyncLinkAssumption DEF Init, Sorts
  <1>1. Placed
    BY SyncLinkAssumption DEF Init, Placed
  <1>2. Finite
    BY FS_EmptySet DEF Init, Finite
  <1>3. \A c \in Chans : Waiting(c) = {} /\ Made(c) = {} /\ Sent(c) = {} /\ localQue[c] = {}
                         /\ prevFree[c] = B
    BY DEF Init, Waiting, Made, Sent
  <1>4. BufferConserved
    BY <1>3, Conserved, FS_EmptySet, SyncLinkAssumption DEF Total
  <1>5. CompositeConserved /\ returning <= B
    BY FS_EmptySet, SyncLinkAssumption DEF Init, CompositeConserved
  <1> QED
    BY <1>0, <1>s, <1>1, <1>2, <1>4, <1>5 DEF Books

(* ------------------------------------------------------------------------ *)
(* What GiveBack gives back is neither lost nor counted twice.               *)
LEMMA GaveBack ==
  ASSUME Sorts, NEW gone, \A c \in Chans : gone[c] \in SUBSET localQue[c], GiveBack(gone)
  PROVE  /\ localQue' \in [Chans -> SUBSET Times] /\ prevFree' \in [Chans -> Nat]
         /\ \A c \in Chans :
              /\ localQue'[c] \subseteq localQue[c]
              /\ prevFree'[c] + Cardinality(localQue'[c])
                   = prevFree[c] + Cardinality(localQue[c])
  <1>1. ASSUME NEW c \in Chans
        PROVE  /\ localQue'[c] = localQue[c] \ gone[c]
               /\ prevFree'[c] = prevFree[c] + Cardinality(gone[c])
               /\ Cardinality(gone[c]) \in Nat
               /\ Cardinality(localQue'[c]) = Cardinality(localQue[c]) - Cardinality(gone[c])
               /\ Cardinality(localQue[c]) \in Nat
    <2>1. localQue[c] \in SUBSET Times /\ gone[c] \in SUBSET Times
      BY DEF Sorts
    <2>2. /\ localQue'[c] = localQue[c] \ gone[c]
          /\ prevFree'[c] = prevFree[c] + Cardinality(gone[c])
      BY DEF GiveBack
    <2>3. localQue[c] \cap gone[c] = gone[c]
      OBVIOUS
    <2>4. IsFiniteSet(localQue[c]) /\ Cardinality(gone[c]) \in Nat
          /\ Cardinality(localQue[c]) \in Nat
      BY <2>1, TimesFinite
    <2>5. Cardinality(localQue[c] \ gone[c])
            = Cardinality(localQue[c]) - Cardinality(localQue[c] \cap gone[c])
      BY <2>4, FS_Difference
    <2> QED
      BY <2>2, <2>3, <2>4, <2>5
  <1>2. localQue' \in [Chans -> SUBSET Times]
    BY DEF GiveBack, Sorts
  <1>3. prevFree' \in [Chans -> Nat]
    <2>1. \A c \in Chans : prevFree[c] + Cardinality(gone[c]) \in Nat
      BY <1>1 DEF Sorts
    <2> QED
      BY <2>1 DEF GiveBack
  <1>4. ASSUME NEW c \in Chans
        PROVE  prevFree'[c] + Cardinality(localQue'[c]) = prevFree[c] + Cardinality(localQue[c])
    <2>1. prevFree[c] \in Nat
      BY DEF Sorts
    <2> QED
      BY <1>1, <2>1
  <1> QED
    BY <1>1, <1>2, <1>3, <1>4

(* A step that only gives back frames of the local queues.                  *)
LEMMA GivenBooks ==
  ASSUME Books, InSync', Sorts', UNCHANGED <<syncList, last, prevFull, emptyQue, fullQue, held, returning>>,
         \A c \in Chans :
              /\ localQue'[c] \subseteq localQue[c]
              /\ prevFree'[c] + Cardinality(localQue'[c])
                   = prevFree[c] + Cardinality(localQue[c])
  PROVE  Books'
  <1>1. Finite' /\ CompositeConserved' /\ (returning <= B)'
    BY DEF Books, Finite, CompositeConserved
  <1>2. Placed'
    BY DEF Books, Placed
  <1>3. ASSUME NEW c \in Chans PROVE Total(c)' = Total(c)
    <2>1. Waiting(c)' = Waiting(c) /\ Made(c)' = Made(c) /\ Sent(c)' = Sent(c)
      BY DEF Waiting, Made, Sent
    <2>2. /\ prevFree[c] \in Nat /\ prevFree'[c] \in Nat
          /\ Cardinality(Waiting(c)) \in Nat /\ Cardinality(localQue[c]) \in Nat
          /\ Cardinality(Made(c)) \in Nat /\ Cardinality(Sent(c)) \in Nat
      BY Counts DEF Books, Sorts
    <2>3. Cardinality(localQue'[c]) \in Nat
      BY TimesFinite DEF Sorts
    <2> QED
      BY <2>1, <2>2, <2>3 DEF Total
  <1>4. BufferConserved'
    <2>1. \A c \in Chans : Total(c) = B
      BY Conserved DEF Books
    <2>2. \A c \in Chans : Total(c)' = B
      BY <2>1, <1>3
    <2> QED
      BY <2>2 DEF Total, BufferConserved, Waiting, Made, Sent
  <1> QED
    BY <1>1, <1>2, <1>4 DEF Books

(* The heads are frames of the local queues.                                *)
LEMMA HeadIn ==
  ASSUME Sorts, Ready, NEW c \in syncList
  PROVE  c \in Chans /\ Head(c) \in localQue[c] /\ Head(c) \in Times
  <1>1. c \in Chans /\ localQue[c] \in SUBSET Times /\ localQue[c] # {}
    BY DEF Sorts, Ready
  <1> QED
    BY <1>1, MinIn DEF Head

LEMMA StampIn ==
  ASSUME NEW m \in Masters
  PROVE  Stamp(m) \in 0 .. Word - 1
  <1>1. m \in 0 .. Word - 1
    BY Zenon DEF Masters
  <1>2. m * Kilo \in Int
    BY <1>1, SyncLinkAssumption
  <1>3. \A x \in Int : x % Word \in 0 .. Word - 1
    BY SyncLinkAssumption
  <1> QED
    BY <1>2, <1>3 DEF Stamp

LEMMA InvOfBooks == Books => IInv
  BY DEF Books, Sorts, IInv

-----------------------------------------------------------------------------
(* The steps, one by one.                                                   *)

LEMMA ProduceBooks ==
  ASSUME Books, InSync', NEW c \in Chans, NEW t \in Times, Produce(c, t)
  PROVE  Books'
  <1>1. /\ prevFree' = [prevFree EXCEPT ![c] = @ - 1] /\ prevFull' = prevFull \cup {<<c, t>>}
        /\ last' = [last EXCEPT ![c] = t] /\ prevFree[c] > 0 /\ last[c] < t
        /\ UNCHANGED <<localQue, fullQue, held, emptyQue, returning>>
    BY DEF Produce, nextVars
  <1>2. Sorts'
    <2>1. prevFree[c] - 1 \in Nat /\ t \in 0 .. MaxTime
      BY <1>1, SyncLinkAssumption DEF Books, Sorts, Times
    <2>2. prevFree' \in [Chans -> Nat] /\ last' \in [Chans -> 0 .. MaxTime]
          /\ prevFull' \subseteq Chans \X Times
      BY <1>1, <2>1 DEF Books, Sorts
    <2>3. newData' \in BOOLEAN
      BY Zenon DEF Produce
    <2> QED
      BY <2>2, <2>3 DEF Produce, linkVars, nextVars, Books, Sorts
  <1>3. <<c, t>> \notin prevFull
    BY <1>1 DEF Books, Placed, Sorts, Times
  <1>4. Finite' /\ CompositeConserved' /\ (returning <= B)'
    BY <1>1, FS_AddElement DEF Books, Finite, CompositeConserved
  <1>5. Placed'
    <2>1. \A d \in Chans : last[d] \in 0 .. MaxTime /\ last'[d] \in 0 .. MaxTime /\ last[d] <= last'[d]
      BY <1>1, <1>2 DEF Books, Sorts, Times
    <2>2. last'[c] = t
      BY <1>1 DEF Books, Sorts
    <2>3. \A k \in fullQue \cup held : \A d \in Chans : k.orig[d] \in 0 .. MaxTime
      BY DEF Books, Sorts, Composites
    <2>4. \A d \in Chans : \A u \in localQue[d] : u \in Times
      BY DEF Books, Sorts
    <2>5. ASSUME NEW d \in Chans, NEW u \in Times, <<d, u>> \in prevFull'
          PROVE  /\ u <= last'[d] /\ u \notin localQue[d]
                 /\ \A k \in fullQue \cup held : k.orig[d] # u
      <3>1. CASE <<d, u>> \in prevFull
        <4>1. u <= last[d] /\ u \notin localQue[d] /\ \A k \in fullQue \cup held : k.orig[d] # u
          BY <3>1 DEF Books, Placed
        <4>2. u <= last'[d]
          BY <4>1, <2>1 DEF Times
        <4> QED
          BY <4>1, <4>2
      <3>2. CASE d = c /\ u = t
        <4>1. t \notin localQue[c]
          BY <1>1, <2>1, <2>4 DEF Books, Placed, Times
        <4>2. \A k \in fullQue \cup held : k.orig[c] <= last[c]
          BY DEF Books, Placed
        <4>3. \A k \in fullQue \cup held : k.orig[c] # t
          BY <4>2, <1>1, <2>1, <2>3 DEF Times
        <4> QED
          BY <3>2, <2>2, <4>1, <4>3 DEF Times
      <3> QED
        BY <2>5, <3>1, <3>2, <1>1
    <2>6. ASSUME NEW d \in Chans, NEW u \in localQue[d]
          PROVE  u <= last'[d] /\ \A k \in fullQue \cup held : k.orig[d] # u
      <3>1. u <= last[d] /\ \A k \in fullQue \cup held : k.orig[d] # u
        BY DEF Books, Placed
      <3> QED
        BY <3>1, <2>1, <2>4 DEF Times
    <2>7. ASSUME NEW d \in Chans, NEW k \in fullQue \cup held
          PROVE  k.orig[d] <= last'[d]
      <3>1. k.orig[d] <= last[d]
        BY DEF Books, Placed
      <3> QED
        BY <3>1, <2>1, <2>3
    <2>8. fullQue \cap held = {}
      BY DEF Books, Placed
    <2> QED
      BY <1>1, <2>5, <2>6, <2>7, <2>8 DEF Placed
  <1>6. ASSUME NEW d \in Chans PROVE Total(d)' = Total(d)
    <2>1. Made(d)' = Made(d) /\ Sent(d)' = Sent(d)
      BY <1>1 DEF Made, Sent
    <2>2. /\ prevFree[d] \in Nat /\ prevFree'[d] \in Nat
          /\ Cardinality(Waiting(d)) \in Nat /\ Cardinality(localQue[d]) \in Nat
          /\ Cardinality(Made(d)) \in Nat /\ Cardinality(Sent(d)) \in Nat
          /\ IsFiniteSet(Waiting(d))
      BY Counts, <1>2 DEF Books, Sorts
    <2>3. CASE d = c
      <3>1. Waiting(c)' = Waiting(c) \cup {<<c, t>>} /\ <<c, t>> \notin Waiting(c)
        BY <1>1, <1>3 DEF Waiting
      <3>2. Cardinality(Waiting(c)') = Cardinality(Waiting(c)) + 1
        BY <2>2, <2>3, <3>1, FS_AddElement
      <3>3. prevFree'[c] = prevFree[c] - 1
        BY <1>1 DEF Books, Sorts
      <3> QED
        BY <1>1, <2>1, <2>2, <2>3, <3>2, <3>3 DEF Total
    <2>4. CASE d # c
      <3>1. Waiting(d)' = Waiting(d)
        BY <1>1, <2>4 DEF Waiting
      <3>2. prevFree'[d] = prevFree[d]
        BY <1>1, <2>4 DEF Books, Sorts
      <3> QED
        BY <1>1, <2>1, <3>1, <3>2 DEF Total
    <2> QED
      BY <2>3, <2>4
  <1>7. BufferConserved'
    <2>1. \A d \in Chans : Total(d)' = B
      BY <1>6, Conserved DEF Books
    <2> QED
      BY <2>1 DEF Total, BufferConserved, Waiting, Made, Sent
  <1> QED
    BY <1>2, <1>4, <1>5, <1>7 DEF Books

(* The conclusion of each lemma from the totals.                            *)
LEMMA TotalsBooks ==
  ASSUME Books, \A c \in Chans : Total(c)' = Total(c)
  PROVE  BufferConserved'
  <1>1. \A c \in Chans : Total(c)' = B
    BY Conserved DEF Books
  <1> QED
    BY <1>1 DEF Total, BufferConserved, Waiting, Made, Sent

LEMMA FillBooks ==
  ASSUME Books, InSync', Fill
  PROVE  Books'
  <1> DEFINE new == [c \in Chans |-> {t \in Times : <<c, t>> \in prevFull}]
  <1>1. /\ localQue' = [c \in Chans |-> IF c \in syncList THEN localQue[c] \cup new[c]
                                                            ELSE localQue[c]]
        /\ prevFree' = [c \in Chans |-> IF c \in syncList THEN prevFree[c]
                                       ELSE prevFree[c] + Cardinality(new[c])]
        /\ prevFull' = {} /\ pc' = "decide"
        /\ UNCHANGED <<syncList, last, fullQue, held, emptyQue, returning>>
    BY DEF Fill, linkVars, timeVars, nextVars
  <1>2. \A c \in Chans : /\ new[c] \in SUBSET Times /\ IsFiniteSet(new[c])
                         /\ Cardinality(new[c]) \in Nat
                         /\ Cardinality(new[c]) = Cardinality(Waiting(c))
    BY TimesFinite, WaitingTimes DEF Books
  <1>3. \A c \in Chans : \A t \in new[c] :
          /\ t <= last[c] /\ t \notin localQue[c]
          /\ \A k \in fullQue \cup held : k.orig[c] # t
    BY DEF Books, Placed
  <1>4. /\ localQue' \in [Chans -> SUBSET Times] /\ prevFree' \in [Chans -> Nat]
        /\ \A c \in Chans :
             /\ localQue'[c] = IF c \in syncList THEN localQue[c] \cup new[c] ELSE localQue[c]
             /\ prevFree'[c] = IF c \in syncList THEN prevFree[c]
                                                 ELSE prevFree[c] + Cardinality(new[c])
    <2> HIDE DEF new
    <2>1. \A c \in Chans : localQue[c] \in SUBSET Times /\ prevFree[c] \in Nat
      BY DEF Books, Sorts
    <2> QED
      BY <1>1, <1>2, <2>1
  <1> HIDE DEF new
  <1>5. Sorts'
    BY <1>1, <1>4 DEF Fill, linkVars, timeVars, nextVars, Books, Sorts
  <1>6. Finite' /\ CompositeConserved' /\ (returning <= B)'
    BY <1>1, FS_EmptySet DEF Books, Finite, CompositeConserved
  <1>7. Placed'
    BY <1>1, <1>3, <1>4 DEF Books, Placed
  <1>8. ASSUME NEW c \in Chans PROVE Total(c)' = Total(c)
    <2>1. Made(c)' = Made(c) /\ Sent(c)' = Sent(c) /\ Waiting(c)' = {}
      BY <1>1 DEF Made, Sent, Waiting
    <2>2. /\ prevFree[c] \in Nat /\ Cardinality(Waiting(c)) \in Nat
          /\ Cardinality(localQue[c]) \in Nat
          /\ Cardinality(Made(c)) \in Nat /\ Cardinality(Sent(c)) \in Nat
      BY Counts DEF Books, Sorts
    <2>3. Cardinality({}) = 0
      BY FS_EmptySet
    <2>4. CASE c \in syncList
      <3>1. IsFiniteSet(localQue[c])
        BY TimesFinite DEF Books, Sorts
      <3>2. localQue[c] \cap new[c] = {}
        BY <1>3
      <3>3. Cardinality(localQue[c] \cup new[c])
              = Cardinality(localQue[c]) + Cardinality(new[c]) - Cardinality(localQue[c] \cap new[c])
        BY <1>2, <3>1, FS_Union
      <3>4. Cardinality(localQue'[c]) = Cardinality(localQue[c]) + Cardinality(Waiting(c))
        <4>1. localQue'[c] = localQue[c] \cup new[c]
          BY <1>4, <2>4
        <4>2. Cardinality(localQue'[c]) = Cardinality(localQue[c]) + Cardinality(new[c]) - 0
          BY <4>1, <2>3, <3>2, <3>3
        <4> QED
          BY <4>2, <1>2, <2>2
      <3>5. prevFree'[c] = prevFree[c]
        BY <1>4, <2>4
      <3> QED
        BY <2>1, <2>2, <2>3, <3>4, <3>5 DEF Total
    <2>5. CASE c \notin syncList
      <3>1. localQue'[c] = localQue[c] /\ prevFree'[c] = prevFree[c] + Cardinality(Waiting(c))
        BY <1>2, <1>4, <2>5
      <3> QED
        BY <2>1, <2>2, <2>3, <3>1 DEF Total
    <2> QED
      BY <2>4, <2>5
  <1> QED
    BY <1>5, <1>6, <1>7, <1>8, TotalsBooks DEF Books

LEMMA ComposeBooks ==
  ASSUME Books, InSync', Ready, NEW m \in Masters, Compose(m)
  PROVE  Books'
  <1> DEFINE k == [orig |-> [c \in Chans |-> IF c \in syncList THEN Head(c) ELSE 0],
                   stamp |-> Stamp(m)]
  <1>s. Sorts
    BY DEF Books
  <1>h. \A c \in syncList : c \in Chans /\ Head(c) \in localQue[c] /\ Head(c) \in Times
    BY <1>s, HeadIn
  <1>1. CASE emptyQue > 0
    <2>1. /\ emptyQue' = emptyQue - 1 /\ fullQue' = fullQue \cup {k}
          /\ localQue' = [c \in Chans |-> IF c \in syncList THEN localQue[c] \ {Head(c)}
                                                            ELSE localQue[c]]
          /\ told' = TRUE
          /\ UNCHANGED <<prevFree, syncList, last, prevFull, held, returning>>
      BY <1>1 DEF Compose, linkVars, timeVars, nextVars
    <2>2. /\ k \in Composites
          /\ \A c \in Chans : k.orig[c] = IF c \in syncList THEN Head(c) ELSE 0
      <3>1. \A c \in Chans : (IF c \in syncList THEN Head(c) ELSE 0) \in 0 .. MaxTime
        BY <1>h, SyncLinkAssumption DEF Times
      <3> QED
        BY <3>1, StampIn DEF Composites
    <2> HIDE DEF k
    <2>3. \A c \in Chans : \A j \in fullQue \cup held : \A t \in localQue[c] : j.orig[c] # t
      BY DEF Books, Placed
    <2>4. k \notin fullQue /\ k \notin held
      <3>1. PICK c \in Chans : c \in syncList
        BY <1>s, SomeActive
      <3>2. k.orig[c] \in localQue[c]
        BY <1>h, <2>2, <3>1
      <3> QED
        BY <2>3, <3>1, <3>2
    <2>5. /\ localQue' \in [Chans -> SUBSET Times]
          /\ \A c \in Chans : localQue'[c] = IF c \in syncList THEN localQue[c] \ {Head(c)}
                                                              ELSE localQue[c]
      BY <2>1, <1>s DEF Sorts
    <2>6. Sorts'
      BY <1>1, <1>s, <2>1, <2>2, <2>5 DEF Compose, linkVars, timeVars, nextVars, Sorts
    <2>7. Finite' /\ Cardinality(fullQue') = Cardinality(fullQue) + 1
      BY <2>1, <2>4, FS_AddElement DEF Books, Finite
    <2>8. CompositeConserved' /\ (returning <= B)'
      <3>1. Cardinality(fullQue) \in Nat /\ Cardinality(held) \in Nat
        BY FS_CardinalityType DEF Books, Finite
      <3> QED
        BY <1>s, <2>1, <2>7, <3>1 DEF Books, CompositeConserved, Sorts
    <2>9. Placed'
      <3>1. ASSUME NEW c \in Chans, NEW t \in Times, <<c, t>> \in prevFull
            PROVE  /\ t <= last[c] /\ t \notin localQue'[c]
                   /\ \A j \in fullQue' \cup held : j.orig[c] # t
        <4>1. /\ t <= last[c] /\ t \notin localQue[c]
              /\ \A j \in fullQue \cup held : j.orig[c] # t
          BY <3>1 DEF Books, Placed
        <4>2. k.orig[c] # t
          BY <1>h, <2>2, <4>1 DEF Times
        <4> QED
          BY <2>1, <2>5, <4>1, <4>2
      <3>2. ASSUME NEW c \in Chans, NEW t \in localQue'[c]
            PROVE  t <= last[c] /\ \A j \in fullQue' \cup held : j.orig[c] # t
        <4>1. t \in localQue[c] /\ t \in Times /\ (c \in syncList => t # Head(c))
          BY <2>5, <1>s DEF Sorts
        <4>2. t <= last[c] /\ \A j \in fullQue \cup held : j.orig[c] # t
          BY <4>1 DEF Books, Placed
        <4>3. k.orig[c] # t
          BY <2>2, <4>1 DEF Times
        <4> QED
          BY <2>1, <4>2, <4>3
      <3>3. ASSUME NEW c \in Chans PROVE \A j \in fullQue' \cup held : j.orig[c] <= last[c]
        <4>1. \A j \in fullQue \cup held : j.orig[c] <= last[c]
          BY DEF Books, Placed
        <4>2. \A t \in localQue[c] : t <= last[c]
          BY DEF Books, Placed
        <4>3. last[c] \in 0 .. MaxTime
          BY <1>s DEF Sorts
        <4>4. k.orig[c] <= last[c]
          BY <1>h, <2>2, <4>2, <4>3
        <4> QED
          BY <2>1, <4>1, <4>4
      <3>4. fullQue' \cap held = {}
        BY <2>1, <2>4 DEF Books, Placed
      <3> QED
        BY <2>1, <3>1, <3>2, <3>3, <3>4 DEF Placed
    <2>10. ASSUME NEW c \in Chans PROVE Total(c)' = Total(c)
      <3>1. Sent(c)' = Sent(c) /\ Waiting(c)' = Waiting(c) /\ prevFree'[c] = prevFree[c]
        BY <2>1 DEF Sent, Waiting
      <3>2. /\ prevFree[c] \in Nat /\ Cardinality(Waiting(c)) \in Nat
            /\ Cardinality(localQue[c]) \in Nat /\ IsFiniteSet(Made(c))
            /\ Cardinality(Made(c)) \in Nat /\ Cardinality(Sent(c)) \in Nat
        BY Counts DEF Books, Sorts
      <3>3. CASE c \in syncList
        <4>1. IsFiniteSet(localQue[c])
          BY <1>s, TimesFinite DEF Sorts
        <4>2. Cardinality(localQue'[c]) = Cardinality(localQue[c]) - 1
          BY <1>h, <2>5, <3>3, <4>1, FS_RemoveElement
        <4>3. k.orig[c] # 0
          BY <1>h, <2>2, <3>3 DEF Times
        <4>4. Made(c)' = Made(c) \cup {k} /\ k \notin Made(c)
          BY <2>1, <2>4, <4>3 DEF Made
        <4>5. Cardinality(Made(c)') = Cardinality(Made(c)) + 1
          BY <3>2, <4>4, FS_AddElement
        <4> QED
          BY <3>1, <3>2, <4>2, <4>5 DEF Total
      <3>4. CASE c \notin syncList
        <4>1. localQue'[c] = localQue[c]
          BY <2>5, <3>4
        <4>2. Made(c)' = Made(c)
          BY <2>1, <2>2, <3>4 DEF Made
        <4> QED
          BY <3>1, <4>1, <4>2 DEF Total
      <3> QED
        BY <3>3, <3>4
    <2> QED
      BY <2>6, <2>7, <2>8, <2>9, <2>10, TotalsBooks DEF Books
  <1>2. CASE ~(emptyQue > 0)
    <2> DEFINE gone == [c \in Chans |-> IF c \in syncList THEN {Head(c)} ELSE {}]
    <2>1. GiveBack(gone) /\ UNCHANGED <<syncList, last, prevFull, emptyQue, fullQue, told, held, returning>>
      BY <1>2 DEF Compose, linkVars, timeVars, nextVars
    <2>2. \A c \in Chans : gone[c] \in SUBSET localQue[c]
      BY <1>h
    <2> HIDE DEF gone
    <2>3. /\ localQue' \in [Chans -> SUBSET Times] /\ prevFree' \in [Chans -> Nat]
          /\ \A c \in Chans :
               /\ localQue'[c] \subseteq localQue[c]
               /\ prevFree'[c] + Cardinality(localQue'[c])
                    = prevFree[c] + Cardinality(localQue[c])
      BY <1>s, <2>1, <2>2, GaveBack
    <2>4. Sorts'
      BY <1>s, <2>1, <2>3 DEF Compose, linkVars, timeVars, nextVars, Sorts
    <2> QED
      BY <2>1, <2>3, <2>4, GivenBooks
  <1> QED
    BY <1>1, <1>2

LEMMA TakeBooks ==
  ASSUME Books, InSync', Take
  PROVE  Books'
  <1>s. Sorts
    BY DEF Books
  <1>1. /\ held' = held \cup fullQue /\ fullQue' = {}
        /\ UNCHANGED <<syncList, last, prevFree, prevFull, localQue, emptyQue, returning>>
    BY DEF Take, linkVars, timeVars
  <1>2. Sorts'
    <2>1. told' \in BOOLEAN
      BY Zenon DEF Take
    <2> QED
      BY <1>s, <1>1, <2>1 DEF Take, linkVars, timeVars, Sorts
  <1>3. fullQue \cap held = {}
    BY DEF Books, Placed
  <1>4. Finite' /\ Cardinality(held') = Cardinality(held) + Cardinality(fullQue)
    <2>1. IsFiniteSet(held \cup fullQue) /\ Cardinality(held \cup fullQue)
            = Cardinality(held) + Cardinality(fullQue) - Cardinality(held \cap fullQue)
      BY FS_Union DEF Books, Finite
    <2>2. Cardinality(held \cap fullQue) = 0
      BY <1>3, FS_EmptySet
    <2>3. Cardinality(held) \in Nat /\ Cardinality(fullQue) \in Nat
      BY FS_CardinalityType DEF Books, Finite
    <2> QED
      BY <1>1, <2>1, <2>2, <2>3, FS_EmptySet DEF Books, Finite
  <1>5. CompositeConserved' /\ (returning <= B)'
    <2>1. Cardinality(fullQue) \in Nat /\ Cardinality(held) \in Nat /\ Cardinality({}) = 0
      BY FS_CardinalityType, FS_EmptySet DEF Books, Finite
    <2> QED
      BY <1>s, <1>1, <1>4, <2>1 DEF Books, CompositeConserved, Sorts
  <1>6. Placed'
    BY <1>1 DEF Books, Placed
  <1>7. ASSUME NEW c \in Chans PROVE Total(c)' = Total(c)
    <2>1. /\ prevFree[c] \in Nat /\ Cardinality(Waiting(c)) \in Nat
          /\ Cardinality(localQue[c]) \in Nat /\ IsFiniteSet(Made(c)) /\ IsFiniteSet(Sent(c))
          /\ Cardinality(Made(c)) \in Nat /\ Cardinality(Sent(c)) \in Nat
      BY Counts DEF Books, Sorts
    <2>2. /\ Waiting(c)' = Waiting(c) /\ Made(c)' = {} /\ Sent(c)' = Sent(c) \cup Made(c)
          /\ Sent(c) \cap Made(c) = {}
      BY <1>1, <1>3 DEF Waiting, Made, Sent
    <2>3. Cardinality(Sent(c) \cup Made(c))
            = Cardinality(Sent(c)) + Cardinality(Made(c)) - Cardinality(Sent(c) \cap Made(c))
      BY <2>1, FS_Union
    <2>4. Cardinality({}) = 0
      BY FS_EmptySet
    <2>5. Cardinality(Sent(c)') = Cardinality(Sent(c)) + Cardinality(Made(c)) - 0
      BY <2>2, <2>3, <2>4
    <2> QED
      BY <1>1, <2>1, <2>2, <2>4, <2>5 DEF Total
  <1> QED
    BY <1>2, <1>4, <1>5, <1>6, <1>7, TotalsBooks DEF Books

(* The composites with a frame of an active channel are all of them.         *)
LEMMA SentAll ==
  ASSUME Books, NEW c \in syncList
  PROVE  c \in Chans /\ Sent(c) = held /\ Made(c) = fullQue
  BY SomeActive DEF Books, InSync, Sent, Made

LEMMA ReturnFramesBooks ==
  ASSUME Books, InSync', NEW ks \in SUBSET held, ReturnFrames(ks)
  PROVE  Books'
  <1>s. Sorts
    BY DEF Books
  <1>1. /\ returning = 0 /\ held' = held \ ks /\ returning' = Cardinality(ks)
        /\ prevFree' = [c \in Chans |-> prevFree[c] + Cardinality({k \in ks : k.orig[c] # 0})]
        /\ UNCHANGED <<syncList, last, prevFull, localQue, emptyQue, fullQue>>
    BY DEF ReturnFrames, linkVars, timeVars
  <1>2. /\ IsFiniteSet(ks) /\ Cardinality(ks) \in Nat
        /\ IsFiniteSet(held \ ks) /\ Cardinality(held \ ks) = Cardinality(held) - Cardinality(ks)
    <2>1. IsFiniteSet(held) /\ held \cap ks = ks
      BY DEF Books, Finite
    <2> QED
      BY <2>1, FS_Subset, FS_CardinalityType, FS_Difference
  <1> DEFINE back(c) == {k \in ks : k.orig[c] # 0}
  <1>3. ASSUME NEW c \in Chans
        PROVE  /\ Cardinality(back(c)) \in Nat
               /\ Sent(c)' = Sent(c) \ back(c)
               /\ Cardinality(Sent(c)') = Cardinality(Sent(c)) - Cardinality(back(c))
    <2>1. IsFiniteSet(back(c))
      BY <1>2, FS_Subset
    <2>2. Sent(c)' = Sent(c) \ back(c) /\ Sent(c) \cap back(c) = back(c)
      BY <1>1 DEF Sent
    <2>3. IsFiniteSet(Sent(c))
      BY <1>s, Counts DEF Books
    <2> HIDE DEF back
    <2> QED
      BY <2>1, <2>2, <2>3, FS_Difference, FS_CardinalityType
  <1>4. prevFree' \in [Chans -> Nat] /\ \A c \in Chans : prevFree'[c] = prevFree[c] + Cardinality(back(c))
    <2>1. ASSUME NEW c \in Chans PROVE prevFree[c] + Cardinality(back(c)) \in Nat
      <3>1. Cardinality(back(c)) \in Nat
        BY <1>3
      <3>2. prevFree[c] \in Nat
        BY <1>s DEF Sorts
      <3> HIDE DEF back
      <3> QED
        BY <3>1, <3>2
    <2> QED
      BY <1>1, <2>1
  <1> HIDE DEF back
  <1>5. Sorts'
    BY <1>s, <1>1, <1>2, <1>4 DEF ReturnFrames, linkVars, timeVars, Sorts
  <1>6. Finite'
    BY <1>1, <1>2 DEF Books, Finite
  <1>7. CompositeConserved'
    <2>1. Cardinality(fullQue) \in Nat /\ Cardinality(held) \in Nat
      BY FS_CardinalityType DEF Books, Finite
    <2> QED
      BY <1>s, <1>1, <1>2, <2>1 DEF Books, CompositeConserved, Sorts
  <1>8. returning' <= B
    <2>1. PICK c \in syncList : TRUE
      BY <1>s, SomeActive
    <2>2. c \in Chans /\ Sent(c) = held
      BY SentAll
    <2>3. Cardinality(ks) <= Cardinality(held)
      BY FS_Subset DEF Books, Finite
    <2>4. Total(c) = B
      BY <2>2, Conserved DEF Books
    <2>5. /\ prevFree[c] \in Nat /\ Cardinality(Waiting(c)) \in Nat
          /\ Cardinality(localQue[c]) \in Nat
          /\ Cardinality(Made(c)) \in Nat /\ Cardinality(Sent(c)) \in Nat
      BY <2>2, Counts DEF Books, Sorts
    <2> QED
      BY <1>1, <1>2, <2>2, <2>3, <2>4, <2>5, SyncLinkAssumption DEF Total
  <1>9. Placed'
    BY <1>1 DEF Books, Placed
  <1>10. ASSUME NEW c \in Chans PROVE Total(c)' = Total(c)
    <2>1. Waiting(c)' = Waiting(c) /\ Made(c)' = Made(c)
      BY <1>1 DEF Waiting, Made
    <2>2. /\ prevFree[c] \in Nat /\ Cardinality(Waiting(c)) \in Nat
          /\ Cardinality(localQue[c]) \in Nat
          /\ Cardinality(Made(c)) \in Nat /\ Cardinality(Sent(c)) \in Nat
      BY Counts DEF Books, Sorts
    <2> QED
      BY <1>1, <1>3, <1>4, <2>1, <2>2 DEF Total
  <1> QED
    BY <1>5, <1>6, <1>7, <1>8, <1>9, <1>10, TotalsBooks DEF Books

LEMMA ReturnCompositesBooks ==
  ASSUME Books, InSync', ReturnComposites
  PROVE  Books'
  <1>s. Sorts
    BY DEF Books
  <1>1. /\ returning' = 0 /\ emptyQue' = emptyQue + returning
        /\ UNCHANGED <<syncList, last, prevFree, prevFull, localQue, fullQue, held>>
    BY DEF ReturnComposites, linkVars, timeVars
  <1>2. Sorts'
    BY <1>s, <1>1 DEF ReturnComposites, linkVars, timeVars, Sorts
  <1>3. CompositeConserved' /\ (returning <= B)'
    <2>1. Cardinality(fullQue) \in Nat /\ Cardinality(held) \in Nat
      BY FS_CardinalityType DEF Books, Finite
    <2> QED
      BY <1>s, <1>1, <2>1, SyncLinkAssumption DEF Books, CompositeConserved, Sorts
  <1>4. Finite' /\ Placed'
    BY <1>1 DEF Books, Finite, Placed
  <1>5. \A c \in Chans : Total(c)' = Total(c)
    BY <1>1 DEF Total, Waiting, Made, Sent
  <1> QED
    BY <1>2, <1>3, <1>4, <1>5, TotalsBooks DEF Books

LEMMA RecreateBooks ==
  ASSUME Books, InSync', Recreate
  PROVE  Books'
  <1>s. Sorts
    BY DEF Books
  <1>1. /\ prevFree' = [c \in Chans |-> B] /\ prevFull' = {} /\ localQue' = [c \in Chans |-> {}]
        /\ emptyQue' = Comps /\ fullQue' = {} /\ held = {} /\ returning = 0
        /\ UNCHANGED <<syncList, last, held, returning>>
    BY DEF Recreate, linkVars, timeVars, nextVars
  <1>2. Sorts'
    <2>1. newData' \in BOOLEAN /\ told' \in BOOLEAN
      BY Zenon DEF Recreate
    <2>2. [c \in Chans |-> B] \in [Chans -> Nat] /\ [c \in Chans |-> {}] \in [Chans -> SUBSET Times]
      BY SyncLinkAssumption
    <2> QED
      BY <1>s, <1>1, <2>1, <2>2, SyncLinkAssumption DEF Recreate, linkVars, timeVars, nextVars, Sorts
  <1>3. Finite'
    BY <1>1, FS_EmptySet DEF Finite
  <1>4. CompositeConserved' /\ (returning <= B)'
    BY <1>1, FS_EmptySet, SyncLinkAssumption DEF CompositeConserved
  <1>5. Placed'
    BY <1>1 DEF Placed
  <1>6. ASSUME NEW c \in Chans PROVE Total(c)' = Total(c)
    <2>1. Waiting(c)' = {} /\ Made(c)' = {} /\ Sent(c)' = {} /\ localQue'[c] = {} /\ prevFree'[c] = B
      BY <1>1 DEF Waiting, Made, Sent
    <2>2. Total(c) = B
      BY Conserved DEF Books
    <2> QED
      BY <2>1, <2>2, FS_EmptySet, SyncLinkAssumption DEF Total
  <1> QED
    BY <1>2, <1>3, <1>4, <1>5, <1>6, TotalsBooks DEF Books

(* The remaining steps leave all counts alone.                              *)
LEMMA UncountedBooks ==
  ASSUME Books, InSync', Sorts',
         UNCHANGED <<syncList, last, prevFree, prevFull, localQue, emptyQue, fullQue, held, returning>>
  PROVE  Books'
  BY GivenBooks

LEMMA NextBooks == Books /\ [Next]_vars => Books'
  <1> SUFFICES ASSUME Books, [Next]_vars PROVE Books'
    OBVIOUS
  <1>i. InSync'
    BY InvOfBooks, NextInv DEF IInv
  <1>s. Sorts
    BY DEF Books
  <1>1. CASE Tick
    <2>1. now' \in Nat
      BY <1>1, <1>s DEF Tick, Sorts
    <2>2. Sorts'
      BY <1>1, <1>s, <2>1 DEF Tick, linkVars, nextVars, Sorts
    <2> QED
      BY <1>1, <1>i, <2>2, UncountedBooks DEF Tick, linkVars, nextVars
  <1>2. ASSUME NEW c \in Chans, NEW t \in Times, Produce(c, t) PROVE Books'
    BY <1>2, <1>i, ProduceBooks
  <1>3. CASE Timer
    <2>1. newData' \in BOOLEAN
      BY <1>3, Zenon DEF Timer
    <2>2. Sorts'
      BY <1>3, <1>s, <2>1 DEF Timer, linkVars, timeVars, nextVars, Sorts
    <2> QED
      BY <1>3, <1>i, <2>2, UncountedBooks DEF Timer, linkVars, timeVars, nextVars
  <1>4. CASE Start \/ Stop
    <2>1. starts' \in 0 .. MaxStarts /\ state' \in {"CREATED", "RUNNING"}
      BY <1>4, <1>s, SyncLinkAssumption DEF Start, Stop, Sorts
    <2>2. UNCHANGED <<syncList, timeVars, prevFree, prevFull, newData, pc, localQue, emptyQue,
                      fullQue, told, nextVars>>
      BY <1>4 DEF Start, Stop
    <2>3. Sorts'
      BY <1>s, <2>1, <2>2 DEF timeVars, nextVars, Sorts
    <2> QED
      BY <1>i, <2>2, <2>3, UncountedBooks DEF timeVars, nextVars
  <1>5. CASE Recreate
    BY <1>5, <1>i, RecreateBooks
  <1>6. CASE DropStale
    <2>1. newData' \in BOOLEAN
      BY <1>6, Zenon DEF DropStale
    <2>2. UNCHANGED <<linkVars, timeVars, prevFull, emptyQue, fullQue, told, nextVars>>
      BY <1>6 DEF DropStale
    <2>3. CASE state = "RUNNING"
      <3> DEFINE gone == [c \in Chans |-> Stale(c)]
      <3>1. pc' = "fill" /\ GiveBack(gone)
        BY <1>6, <2>3 DEF DropStale
      <3>2. \A c \in Chans : gone[c] \in SUBSET localQue[c]
        BY DEF Stale
      <3> HIDE DEF gone
      <3>3. /\ localQue' \in [Chans -> SUBSET Times] /\ prevFree' \in [Chans -> Nat]
            /\ \A c \in Chans :
                 /\ localQue'[c] \subseteq localQue[c]
                 /\ prevFree'[c] + Cardinality(localQue'[c])
                      = prevFree[c] + Cardinality(localQue[c])
        BY <1>s, <3>1, <3>2, GaveBack
      <3>4. Sorts'
        BY <1>s, <2>1, <2>2, <3>1, <3>3 DEF linkVars, timeVars, nextVars, Sorts
      <3> QED
        BY <1>i, <2>2, <3>3, <3>4, GivenBooks DEF linkVars, timeVars, nextVars
    <2>4. CASE state # "RUNNING"
      <3>1. UNCHANGED <<pc, localQue, prevFree>>
        BY <1>6, <2>4 DEF DropStale
      <3>2. Sorts'
        BY <1>s, <2>1, <2>2, <3>1 DEF linkVars, timeVars, nextVars, Sorts
      <3> QED
        BY <1>i, <2>2, <3>1, <3>2, UncountedBooks DEF linkVars, timeVars, nextVars
    <2> QED
      BY <2>3, <2>4
  <1>7. CASE Fill
    BY <1>7, <1>i, FillBooks
  <1>8. CASE NoSet
    <2>1. Sorts'
      BY <1>8, <1>s DEF NoSet, linkVars, timeVars, nextVars, Sorts
    <2> QED
      BY <1>8, <1>i, <2>1, UncountedBooks DEF NoSet, linkVars, timeVars, nextVars
  <1>9. ASSUME Ready, NEW m \in Masters, DropUnsynced(m) PROVE Books'
    <2> DEFINE gone == [c \in Chans |-> IF c \in Dropped(m) THEN {Head(c)} ELSE {}]
    <2>1. GiveBack(gone) /\ UNCHANGED <<linkVars, timeVars, prevFull, newData, pc, emptyQue,
                                        fullQue, told, nextVars>>
      BY <1>9 DEF DropUnsynced
    <2>2. Dropped(m) \subseteq syncList
      BY DEF Dropped, Low
    <2>3. \A c \in Chans : gone[c] \in SUBSET localQue[c]
      BY <1>9, <1>s, <2>2, HeadIn
    <2> HIDE DEF gone
    <2>4. /\ localQue' \in [Chans -> SUBSET Times] /\ prevFree' \in [Chans -> Nat]
          /\ \A c \in Chans :
               /\ localQue'[c] \subseteq localQue[c]
               /\ prevFree'[c] + Cardinality(localQue'[c])
                    = prevFree[c] + Cardinality(localQue[c])
      BY <1>s, <2>1, <2>3, GaveBack
    <2>5. Sorts'
      BY <1>s, <2>1, <2>4 DEF linkVars, timeVars, nextVars, Sorts
    <2> QED
      BY <1>i, <2>1, <2>4, <2>5, GivenBooks DEF linkVars, timeVars, nextVars
  <1>10. ASSUME Ready, NEW m \in Masters, Compose(m) PROVE Books'
    BY <1>10, <1>i, ComposeBooks
  <1>11. CASE Take
    BY <1>11, <1>i, TakeBooks
  <1>12. ASSUME NEW ks \in SUBSET held, ReturnFrames(ks) PROVE Books'
    BY <1>12, <1>i, ReturnFramesBooks
  <1>13. CASE ReturnComposites
    BY <1>13, <1>i, ReturnCompositesBooks
  <1>14. CASE UNCHANGED vars
    <2>1. Sorts'
      BY <1>14, <1>s DEF vars, linkVars, timeVars, nextVars, Sorts
    <2> QED
      BY <1>14, <1>i, <2>1, UncountedBooks DEF vars, linkVars, timeVars, nextVars
  <1> QED
    BY <1>1, <1>2, <1>3, <1>4, <1>5, <1>6, <1>7, <1>8, <1>9, <1>10, <1>11, <1>12, <1>13, <1>14
       DEF Next, Process, Returns

LEMMA BooksKept == Spec => []Books
  BY InitBooks, NextBooks, PTL DEF Spec

(* The type invariant.                                                      *)
THEOREM TypeCorrect == Spec => []TypeOK
  BY BooksKept, BooksType, PTL

(* No buffer of the previous link is lost or returned twice.                *)
THEOREM BuffersConserved == Spec => []BufferConserved
  <1>1. Books => BufferConserved
    BY DEF Books
  <1> QED
    BY <1>1, BooksKept, PTL

(* The comment of syncLink_tsk.c:879-881: twice as many composites as the     *)
(* previous link has buffers of a channel are enough; the others are on their *)
(* way back without their frames.                                           *)
THEOREM CompositesSuffice ==
  ASSUME Comps >= 2 * B
  PROVE  Spec => []CompositeAvailable
  <1>1. ASSUME Books, pc = "decide", Ready PROVE emptyQue > 0
    <2>1. PICK c \in syncList : TRUE
      BY <1>1, SomeActive DEF Books
    <2>2. c \in Chans /\ Sent(c) = held /\ Made(c) = fullQue
      BY <1>1, SentAll
    <2>3. Total(c) = B
      BY <1>1, <2>2, Conserved DEF Books
    <2>4. Cardinality(localQue[c]) > 0
      <3>1. localQue[c] # {} /\ localQue[c] \in SUBSET Times
        BY <1>1, <2>2 DEF Ready, Books, Sorts
      <3> QED
        BY <3>1, TimesFinite, FS_EmptySet
    <2>5. /\ prevFree[c] \in Nat /\ Cardinality(Waiting(c)) \in Nat
          /\ Cardinality(localQue[c]) \in Nat
          /\ Cardinality(fullQue) \in Nat /\ Cardinality(held) \in Nat
      BY <1>1, <2>2, Counts DEF Books, Sorts
    <2>6. Cardinality(fullQue) + Cardinality(held) < B
      BY <2>2, <2>3, <2>4, <2>5, SyncLinkAssumption DEF Total
    <2>7. emptyQue + Cardinality(fullQue) + Cardinality(held) + returning = Comps
          /\ returning <= B /\ emptyQue \in Nat /\ returning \in Nat
      BY <1>1 DEF Books, CompositeConserved, Sorts
    <2> QED
      BY <2>5, <2>6, <2>7, SyncLinkAssumption
  <1>2. Books => CompositeAvailable
    BY <1>1 DEF CompositeAvailable
  <1> QED
    BY <1>2, BooksKept, PTL

-----------------------------------------------------------------------------
(* The average of the heads: the sum of a function over a set takes out one   *)
(* element after the other.  Each of its sums obeys that recursion, which an  *)
(* induction on the size of the set shows first.                             *)

Pick(s) == CHOOSE x \in s : TRUE
Unroll(f, S, g) == [s \in SUBSET S |-> IF s = {} THEN 0 ELSE f[Pick(s)] + g[s \ {Pick(s)}]]

LEMMA Smaller ==
  ASSUME NEW S, IsFiniteSet(S), NEW s \in SUBSET S, s # {}
  PROVE  /\ Pick(s) \in s /\ s \ {Pick(s)} \in SUBSET S
         /\ Cardinality(s) \in Nat
         /\ Cardinality(s \ {Pick(s)}) = Cardinality(s) - 1
  <1>1. Pick(s) \in s
    BY DEF Pick
  <1>2. IsFiniteSet(s)
    BY FS_Subset
  <1> QED
    BY <1>1, <1>2, FS_RemoveElement, FS_CardinalityType

(* A function on the subsets of S that obeys the recursion up to size n.    *)
Upto(f, S, n, g) ==
  /\ g = [s \in SUBSET S |-> g[s]]
  /\ \A s \in SUBSET S : Cardinality(s) <= n => g[s] = Unroll(f, S, g)[s]

LEMMA UptoNext ==
  ASSUME NEW f, NEW S, IsFiniteSet(S), NEW n \in Nat, NEW g, Upto(f, S, n, g)
  PROVE  Upto(f, S, n + 1, Unroll(f, S, g))
  <1> DEFINE h == Unroll(f, S, g)
  <1>1. h = [s \in SUBSET S |-> h[s]]
    BY DEF Unroll
  <1>2. ASSUME NEW s \in SUBSET S, Cardinality(s) <= n + 1
        PROVE  h[s] = Unroll(f, S, h)[s]
    <2>1. CASE s = {}
      BY <2>1 DEF Unroll
    <2>2. CASE s # {}
      <3> DEFINE r == s \ {Pick(s)}
      <3>1. r \in SUBSET S /\ Cardinality(r) <= n
        BY <1>2, <2>2, Smaller
      <3>2. g[r] = h[r]
        BY <3>1 DEF Upto
      <3>3. h[s] = f[Pick(s)] + g[r]
        BY <2>2 DEF Unroll
      <3>4. Unroll(f, S, h)[s] = f[Pick(s)] + h[r]
        BY <2>2 DEF Unroll
      <3> QED
        BY <3>2, <3>3, <3>4
    <2> QED
      BY <2>1, <2>2
  <1> QED
    BY <1>1, <1>2 DEF Upto

LEMMA UptoAll ==
  ASSUME NEW f, NEW S, IsFiniteSet(S), NEW n \in Nat
  PROVE  \E g : Upto(f, S, n, g)
  <1> DEFINE Bad == {k \in Nat : ~ \E g : Upto(f, S, k, g)}
  <1>1. ASSUME Bad # {} PROVE FALSE
    <2>1. PICK k \in Bad : \A y \in Bad : k <= y
      BY <1>1, LeastNat
    <2>2. CASE k = 0
      <3> DEFINE g == [s \in SUBSET S |-> 0]
      <3>1. \A s \in SUBSET S : Cardinality(s) <= 0 => s = {}
        BY FS_Subset, FS_EmptySet, FS_CardinalityType
      <3>2. Upto(f, S, 0, g)
        BY <3>1 DEF Upto, Unroll
      <3> QED
        BY <2>1, <2>2, <3>2
    <2>3. CASE k # 0
      <3>1. k - 1 \in Nat /\ k - 1 \notin Bad
        BY <2>1, <2>3
      <3>2. PICK g : Upto(f, S, k - 1, g)
        BY <3>1
      <3>3. Upto(f, S, (k - 1) + 1, Unroll(f, S, g))
        BY <3>1, <3>2, UptoNext
      <3>4. (k - 1) + 1 = k
        BY <2>1
      <3>5. \E h : Upto(f, S, k, h)
        BY <3>3, <3>4
      <3> QED
        BY <2>1, <3>5
    <2> QED
      BY <2>2, <2>3
  <1> QED
    BY <1>1

(* The sum of a function over a set is given by such a function.            *)
LEMMA SumIs ==
  ASSUME NEW f, NEW S, IsFiniteSet(S)
  PROVE  \E g : g = Unroll(f, S, g) /\ SumFunctionOnSet(f, S) = g[S]
  <1>1. Cardinality(S) \in Nat
    BY FS_CardinalityType
  <1>2. PICK g : Upto(f, S, Cardinality(S), g)
    BY <1>1, UptoAll
  <1>3. \A s \in SUBSET S : Cardinality(s) <= Cardinality(S)
    BY FS_Subset
  <1>4. \A s \in SUBSET S : g[s] = Unroll(f, S, g)[s]
    BY <1>2, <1>3 DEF Upto
  <1>5. g = [s \in SUBSET S |-> g[s]]
    BY <1>2 DEF Upto
  <1>6. g = Unroll(f, S, g)
    BY <1>4, <1>5 DEF Unroll
  <1> QED
    BY <1>6 DEF SumFunctionOnSet, FoldFunctionOnSet, MapThenFoldSet, Unroll, Pick

(* The sum of n numbers between two bounds is between n times the bounds.    *)
LEMMA SumBetween ==
  ASSUME NEW f, NEW S, IsFiniteSet(S), NEW lo \in Int, NEW hi \in Int,
         \A x \in S : f[x] \in Int /\ lo <= f[x] /\ f[x] <= hi
  PROVE  /\ SumFunctionOnSet(f, S) \in Int
         /\ Cardinality(S) * lo <= SumFunctionOnSet(f, S)
         /\ SumFunctionOnSet(f, S) <= Cardinality(S) * hi
  <1>1. PICK g : g = Unroll(f, S, g) /\ SumFunctionOnSet(f, S) = g[S]
    BY SumIs
  <1> DEFINE Within(s) == /\ g[s] \in Int
                         /\ Cardinality(s) * lo <= g[s] /\ g[s] <= Cardinality(s) * hi
             Bad == {k \in Nat : \E s \in SUBSET S : Cardinality(s) = k /\ ~ Within(s)}
  <1>2. ASSUME Bad # {} PROVE FALSE
    <2>1. PICK k \in Bad : \A y \in Bad : k <= y
      BY <1>2, LeastNat
    <2>2. PICK s \in SUBSET S : Cardinality(s) = k /\ ~ Within(s)
      BY <2>1
    <2>3. g[s] = IF s = {} THEN 0 ELSE f[Pick(s)] + g[s \ {Pick(s)}]
      BY <1>1 DEF Unroll
    <2>4. CASE s = {}
      BY <2>2, <2>3, <2>4, FS_EmptySet
    <2>5. CASE s # {}
      <3> DEFINE r == s \ {Pick(s)}
      <3>1. /\ r \in SUBSET S /\ Cardinality(r) = k - 1
            /\ k \in Nat /\ k - 1 \in Nat /\ Pick(s) \in S
        <4>1. Pick(s) \in s /\ r \in SUBSET S /\ Cardinality(r) = Cardinality(s) - 1
          BY <2>5, Smaller
        <4>2. Cardinality(r) \in Nat
          BY <4>1, FS_Subset, FS_CardinalityType
        <4> QED
          BY <2>1, <2>2, <4>1, <4>2
      <3>2. Within(r)
        BY <2>1, <3>1
      <3>3. g[s] = f[Pick(s)] + g[r]
        BY <2>3, <2>5
      <3>4. f[Pick(s)] \in Int /\ lo <= f[Pick(s)] /\ f[Pick(s)] <= hi
        BY <3>1
      <3>5. (k - 1) * lo = k * lo - lo /\ (k - 1) * hi = k * hi - hi
            /\ k * lo \in Int /\ k * hi \in Int
        BY <3>1
      <3> HIDE DEF r
      <3>6. Within(s)
        BY <2>2, <3>1, <3>2, <3>3, <3>4, <3>5
      <3> QED
        BY <2>2, <3>6
    <2> QED
      BY <2>4, <2>5
  <1>3. Cardinality(S) \in Nat /\ S \in SUBSET S
    BY FS_CardinalityType
  <1>4. Within(S)
    BY <1>2, <1>3
  <1> QED
    BY <1>1, <1>4

(* The average of n numbers that are all above, or all below, m is not m.    *)
LEMMA AverageAbove ==
  ASSUME NEW n \in Nat \ {0}, NEW s \in Int, NEW m \in Int, n * (m + 1) <= s
  PROVE  s \div n > m
  OBVIOUS

LEMMA AverageBelow ==
  ASSUME NEW n \in Nat \ {0}, NEW s \in Int, NEW m \in Int, s <= n * (m - 1)
  PROVE  s \div n < m
  OBVIOUS

(* The heads are times, and their ms are at most those of the last time.      *)
LEMMA HeadMs ==
  ASSUME Sorts, AllActive, Ready
  PROVE  \A c \in Chans : /\ Head(c) \in Nat /\ Head(c) <= MaxTime
                          /\ Ms(Head(c)) \in Nat /\ Ms(Head(c)) <= Ms(MaxTime)
                          /\ Ms(Head(c)) <= MaxTime
  <1>1. \A c \in Chans : Head(c) \in Nat /\ Head(c) <= MaxTime
    BY HeadIn DEF AllActive, Times
  <1>2. MaxTime \in Nat
    BY SyncLinkAssumption
  <1>3. ASSUME NEW c \in Chans
        PROVE  Ms(Head(c)) \in Nat /\ Ms(Head(c)) <= Head(c) /\ Ms(Head(c)) <= Ms(MaxTime)
    BY <1>1, <1>2, MsIs, MsOrder
  <1> QED
    BY <1>1, <1>2, <1>3

(* The average of the heads, in ms, is between two of them.                   *)
LEMMA MasterBetween ==
  ASSUME Sorts, AllActive, Ready, Ms(MaxTime) < Word, NEW m \in Masters
  PROVE  /\ \E c \in Chans : Ms(Head(c)) <= m
         /\ \E c \in Chans : m <= Ms(Head(c))
  <1>0. PICK f : f = [c \in Chans |-> Ms(Head(c))]
    OBVIOUS
  <1> DEFINE s == SumFunctionOnSet(f, Chans)
  <1>7. Ms(MaxTime) \in Nat
    BY MsIs, SyncLinkAssumption
  <1>1. \A c \in Chans : Ms(Head(c)) \in Nat /\ Ms(Head(c)) <= Ms(MaxTime)
    BY HeadMs
  <1>2. m = s \div NumCh
    <2>1. PICK g : m = FoldFunction(+, 0, [c \in Chans |-> IF c \in syncList THEN Ms(Head(c)) % Word ELSE g[c]])
                        \div NumCh
      BY Zenon DEF Masters
    <2>2. \A c \in Chans : (IF c \in syncList THEN Ms(Head(c)) % Word ELSE g[c]) = Ms(Head(c))
      <3>1. \A x \in Nat : x < Word => x % Word = x
        BY SyncLinkAssumption
      <3> QED
        BY <1>1, <1>7, <3>1, SyncLinkAssumption DEF AllActive
    <2>3. [c \in Chans |-> IF c \in syncList THEN Ms(Head(c)) % Word ELSE g[c]] = f
      BY <1>0, <2>2
    <2>4. DOMAIN f = Chans
      BY <1>0
    <2> QED
      BY <2>1, <2>3, <2>4 DEF FoldFunction, SumFunctionOnSet, FoldFunctionOnSet, MapThenFoldSet
  <1>3. IsFiniteSet(Chans) /\ Cardinality(Chans) = NumCh
    BY FS_Interval, SyncLinkAssumption DEF Chans
  <1>4. s \in Int /\ m \in Int
    <2>1. \A c \in Chans : f[c] \in Int /\ 0 <= f[c] /\ f[c] <= Ms(MaxTime)
      BY <1>0, <1>1
    <2>2. s \in Int
      BY <1>3, <1>7, <2>1, SumBetween
    <2>3. m \in 0 .. Word - 1
      BY Zenon DEF Masters
    <2> QED
      BY <2>2, <2>3, SyncLinkAssumption
  <1>5. ASSUME \A c \in Chans : ~(Ms(Head(c)) <= m) PROVE FALSE
    <2>1. \A c \in Chans : f[c] \in Int /\ m + 1 <= f[c] /\ f[c] <= Ms(MaxTime)
      BY <1>0, <1>1, <1>4, <1>5
    <2>3. m + 1 \in Int /\ Ms(MaxTime) \in Int
      BY <1>4, <1>7
    <2>2. NumCh * (m + 1) <= s
      BY <1>3, <2>1, <2>3, SumBetween
    <2> HIDE DEF s
    <2> QED
      BY <1>2, <1>4, <2>2, AverageAbove, SyncLinkAssumption
  <1>6. ASSUME \A c \in Chans : ~(m <= Ms(Head(c))) PROVE FALSE
    <2>1. \A c \in Chans : f[c] \in Int /\ 0 <= f[c] /\ f[c] <= m - 1
      BY <1>0, <1>1, <1>4, <1>6
    <2>3. m - 1 \in Int
      BY <1>4
    <2>2. s <= NumCh * (m - 1)
      BY <1>3, <2>1, <2>3, SumBetween
    <2> HIDE DEF s
    <2> QED
      BY <1>2, <1>4, <2>2, AverageBelow, SyncLinkAssumption
  <1> QED
    BY <1>5, <1>6

-----------------------------------------------------------------------------
(* The timestamps of the composites.                                        *)

(* The product with 1000 does not wrap around if the last time does not.      *)
LEMMA StampBetween ==
  ASSUME Sorts, AllActive, Ready, MaxTime < Word, NEW m \in Masters
  PROVE  /\ \E c \in Chans : Head(c) < Stamp(m) + Kilo
         /\ \E c \in Chans : Stamp(m) <= Head(c)
  <1>1. \A c \in Chans : /\ Head(c) \in Nat /\ Head(c) <= MaxTime
                         /\ Ms(Head(c)) \in Nat
    BY HeadMs
  <1>2. PICK c \in Chans, d \in Chans : Ms(Head(c)) <= m /\ m <= Ms(Head(d))
    <2>1. Ms(MaxTime) \in Nat /\ Ms(MaxTime) <= MaxTime
      BY MsIs, SyncLinkAssumption
    <2> QED
      BY <2>1, MasterBetween, SyncLinkAssumption
  <1>3. m \in Nat
    <2>1. m \in 0 .. Word - 1
      BY Zenon DEF Masters
    <2> QED
      BY <2>1, SyncLinkAssumption
  <1>4. \A x, y \in Nat : x <= y => x * Kilo <= y * Kilo /\ x * Kilo \in Nat
    BY SyncLinkAssumption
  <1>5. Ms(Head(c)) * Kilo <= m * Kilo /\ m * Kilo <= Ms(Head(d)) * Kilo
    BY <1>1, <1>2, <1>3, <1>4
  <1>6. Ms(Head(d)) * Kilo <= Head(d) /\ Head(c) < Ms(Head(c)) * Kilo + Kilo
    BY <1>1, MsIs
  <1>7. /\ m * Kilo \in Nat /\ Ms(Head(c)) * Kilo \in Nat
        /\ Ms(Head(d)) * Kilo \in Nat
    BY <1>1, <1>3, <1>4
  <1>8. m * Kilo <= Head(d) /\ Head(c) < m * Kilo + Kilo
    BY <1>1, <1>5, <1>6, <1>7, SyncLinkAssumption
  <1>9. Stamp(m) = m * Kilo
    <2>1. \A x \in Nat : x < Word => x % Word = x
      BY SyncLinkAssumption
    <2>2. m * Kilo < Word
      BY <1>1, <1>7, <1>8, SyncLinkAssumption
    <2> QED
      BY <1>7, <2>1, <2>2 DEF Stamp
  <1> QED
    BY <1>8, <1>9

(* No other step makes a composite or activates a channel.                  *)
LEMMA StampsKept ==
  ASSUME StampWithin, syncList' = syncList, fullQue' \cup held' \subseteq fullQue \cup held
  PROVE  StampWithin'
  BY DEF StampWithin, AllActive

LEMMA ComposeStamps ==
  ASSUME Sorts, StampWithin, MaxTime < Word, Ready, NEW m \in Masters, Compose(m)
  PROVE  StampWithin'
  <1>1. CASE emptyQue > 0
    <2> DEFINE k == [orig |-> [c \in Chans |-> IF c \in syncList THEN Head(c) ELSE 0],
                     stamp |-> Stamp(m)]
    <2>1. syncList' = syncList /\ fullQue' \cup held' = fullQue \cup held \cup {k}
      BY <1>1 DEF Compose, linkVars, nextVars
    <2>2. AllActive => \A c \in Chans : k.orig[c] = Head(c)
      BY DEF AllActive
    <2>3. k.stamp = Stamp(m)
      OBVIOUS
    <2> HIDE DEF k
    <2>4. AllActive => /\ \E c \in Chans : k.orig[c] < k.stamp + Kilo
                       /\ \E c \in Chans : k.stamp <= k.orig[c]
      BY <2>2, <2>3, StampBetween
    <2> QED
      BY <2>1, <2>4 DEF StampWithin, AllActive
  <1>2. CASE ~(emptyQue > 0)
    BY <1>2, StampsKept DEF Compose, linkVars, nextVars
  <1> QED
    BY <1>1, <1>2

LEMMA NextStamps ==
  ASSUME MaxTime < Word
  PROVE  Books /\ StampWithin /\ [Next]_vars => StampWithin'
  <1> SUFFICES ASSUME Sorts, StampWithin, [Next]_vars PROVE StampWithin'
    BY DEF Books
  <1> USE DEF linkVars, nextVars
  <1>1. CASE Tick
    BY <1>1, StampsKept DEF Tick
  <1>2. ASSUME NEW c \in Chans, NEW t \in Times, Produce(c, t) PROVE StampWithin'
    BY <1>2, StampsKept DEF Produce
  <1>3. CASE Timer
    BY <1>3, StampsKept DEF Timer
  <1>4. CASE Start \/ Stop
    BY <1>4, StampsKept DEF Start, Stop
  <1>5. CASE Recreate
    BY <1>5, StampsKept DEF Recreate
  <1>6. CASE DropStale
    BY <1>6, StampsKept DEF DropStale
  <1>7. CASE Fill
    BY <1>7, StampsKept DEF Fill
  <1>8. CASE NoSet
    BY <1>8, StampsKept DEF NoSet
  <1>9. ASSUME Ready, NEW m \in Masters, DropUnsynced(m) PROVE StampWithin'
    BY <1>9, StampsKept DEF DropUnsynced
  <1>10. CASE Take
    BY <1>10, StampsKept DEF Take
  <1>11. ASSUME NEW ks \in SUBSET held, ReturnFrames(ks) PROVE StampWithin'
    BY <1>11, StampsKept DEF ReturnFrames
  <1>12. CASE ReturnComposites
    BY <1>12, StampsKept DEF ReturnComposites
  <1>13. CASE UNCHANGED vars
    BY <1>13, StampsKept DEF vars
  <1> QED
    BY <1>1, <1>2, <1>3, <1>4, <1>5, <1>6, <1>7, <1>8, <1>9, <1>10, <1>11, <1>12, <1>13,
       ComposeStamps DEF Next, Process, Returns

(* With every channel active, the timestamp of a composite is less than a ms   *)
(* before the first of its frames and not after the last, as long as a time in *)
(* us is a UInt32.                                                          *)
THEOREM StampsWithin ==
  ASSUME MaxTime < Word
  PROVE  Spec => []StampWithin
  <1>1. Init => StampWithin
    BY DEF Init, StampWithin
  <1> QED
    BY <1>1, NextStamps, BooksKept, PTL DEF Spec

(* The upper bound of the heads that are kept does not wrap around.          *)
LEMMA HigherIs ==
  ASSUME Sorts, AllActive, Ready, Ms(MaxTime) + SyncDelta <= Word - 2, NEW m \in Masters
  PROVE  m \in Nat /\ m <= Ms(MaxTime) /\ Higher(m) = m + SyncDelta
  <1>0. Ms(MaxTime) \in Nat
    BY MsIs, SyncLinkAssumption
  <1>1. \A c \in Chans : Ms(Head(c)) \in Nat /\ Ms(Head(c)) <= Ms(MaxTime)
    BY HeadMs
  <1>2. PICK d \in Chans : m <= Ms(Head(d))
    BY <1>0, MasterBetween, SyncLinkAssumption
  <1>3. m \in Nat /\ m <= Ms(MaxTime)
    <2>1. m \in 0 .. Word - 1
      BY Zenon DEF Masters
    <2> QED
      BY <1>0, <1>1, <1>2, <2>1, SyncLinkAssumption
  <1>4. (m + SyncDelta) % Word = m + SyncDelta /\ m + SyncDelta \in Nat
    <2>1. \A x \in Nat : x < Word => x % Word = x
      BY SyncLinkAssumption
    <2> QED
      BY <1>0, <1>3, <2>1, SyncLinkAssumption
  <1> QED
    BY <1>0, <1>3, <1>4, SyncLinkAssumption DEF Higher, Capped

(* Heads no further apart than syncDelta are in sync.                        *)
LEMMA NearSynced ==
  ASSUME Sorts, AllActive, Ready, Ms(MaxTime) + SyncDelta <= Word - 2, NEW m \in Masters,
         \A c, d \in Chans : Ms(Head(c)) - Ms(Head(d)) <= SyncDelta
  PROVE  Synced(m)
  <1>0. Ms(MaxTime) \in Nat
    BY MsIs, SyncLinkAssumption
  <1>1. \A c \in Chans : Ms(Head(c)) \in Nat
    BY HeadMs
  <1>2. PICK c \in Chans, d \in Chans : Ms(Head(c)) <= m /\ m <= Ms(Head(d))
    BY <1>0, MasterBetween, SyncLinkAssumption
  <1>3. m \in Nat /\ Higher(m) = m + SyncDelta
    BY HigherIs
  <1>4. ASSUME NEW e \in Chans PROVE ~(Ms(Head(e)) < Lower(m)) /\ ~(Ms(Head(e)) > Higher(m))
    <2>1. Ms(Head(d)) - Ms(Head(e)) <= SyncDelta /\ Ms(Head(e)) - Ms(Head(c)) <= SyncDelta
      OBVIOUS
    <2> QED
      BY <1>1, <1>2, <1>3, <2>1, SyncLinkAssumption DEF Lower
  <1>5. syncList \subseteq Chans
    BY DEF AllActive
  <1> QED
    BY <1>4, <1>5 DEF Synced, Low, High

(* What MatchKept says of a step.                                           *)
Matched ==
  AllActive /\ pc = "decide" /\ Ready /\ emptyQue > 0
    /\ (\A c, d \in Chans : Ms(Head(c)) - Ms(Head(d)) <= SyncDelta)
    => \A c \in Chans : Head(c) \in localQue'[c] \/ \E k \in fullQue' : k.orig[c] = Head(c)

LEMMA StayMatched ==
  ASSUME Sorts, localQue' = localQue
  PROVE  Matched
  BY HeadIn DEF Matched, AllActive

LEMMA NextMatched ==
  ASSUME Ms(MaxTime) + SyncDelta <= Word - 2
  PROVE  Books /\ [Next]_vars => [Matched]_vars
  <1> SUFFICES ASSUME Sorts, [Next]_vars, pc = "decide" PROVE Matched
    BY DEF Books, Matched
  <1>1. CASE Tick
    BY <1>1, StayMatched DEF Tick
  <1>2. ASSUME NEW c \in Chans, NEW t \in Times, Produce(c, t) PROVE Matched
    BY <1>2, StayMatched DEF Produce
  <1>3. CASE Timer
    BY <1>3, StayMatched DEF Timer
  <1>4. CASE Start \/ Stop \/ Recreate \/ DropStale \/ Fill
    BY <1>4 DEF Start, Stop, Recreate, DropStale, Fill
  <1>5. CASE NoSet
    BY <1>5, StayMatched DEF NoSet
  <1>6. ASSUME Ready, NEW m \in Masters, DropUnsynced(m) PROVE Matched
    BY <1>6, NearSynced DEF DropUnsynced, Matched
  <1>7. ASSUME Ready, NEW m \in Masters, Compose(m) PROVE Matched
    <2> SUFFICES ASSUME AllActive, emptyQue > 0, NEW c \in Chans
                 PROVE  \E k \in fullQue' : k.orig[c] = Head(c)
      BY DEF Matched
    <2> DEFINE k == [orig |-> [e \in Chans |-> IF e \in syncList THEN Head(e) ELSE 0],
                     stamp |-> Stamp(m)]
    <2>1. k \in fullQue'
      BY <1>7 DEF Compose
    <2>2. k.orig[c] = Head(c)
      BY DEF AllActive
    <2> QED
      BY <2>1, <2>2
  <1>8. CASE Take
    BY <1>8, StayMatched DEF Take
  <1>9. ASSUME NEW ks \in SUBSET held, ReturnFrames(ks) PROVE Matched
    BY <1>9, StayMatched DEF ReturnFrames
  <1>10. CASE ReturnComposites
    BY <1>10, StayMatched DEF ReturnComposites
  <1>11. CASE UNCHANGED vars
    BY <1>11, StayMatched DEF vars
  <1> QED
    BY <1>1, <1>2, <1>3, <1>4, <1>5, <1>6, <1>7, <1>8, <1>9, <1>10, <1>11
       DEF Next, Process, Returns

(* Frames near enough to each other are put in a composite and not returned   *)
(* one by one, as long as no bound on a time goes beyond a UInt32.           *)
THEOREM MatchesKept ==
  ASSUME Ms(MaxTime) + SyncDelta <= Word - 2
  PROVE  Spec => MatchKept
  <1>1. Books /\ [Next]_vars => [Matched]_vars
    BY NextMatched
  <1>2. Spec => [][Matched]_vars
    BY <1>1, BooksKept, PTL DEF Spec
  <1> QED
    BY <1>2, PTL DEF MatchKept, Matched

-----------------------------------------------------------------------------
(* The loop of SyncLink_drvProcessData.                                     *)

(* There is an average, and what is not in sync loses a frame.               *)
RoundDrops ==
  AllActive /\ pc = "decide" /\ Ready =>
    Masters # {} /\ \A m \in Masters : Synced(m) \/ Dropped(m) # {}

(* The frames in the local queues.                                          *)
Frames == {f \in Chans \X Times : f[2] \in localQue[f[1]]}

RoundShortens ==
  pc = "decide" => UNCHANGED localQue \/ Cardinality(Frames)' < Cardinality(Frames)

LEMMA SomeMaster ==
  ASSUME Sorts, AllActive, Ready, Ms(MaxTime) < Word
  PROVE  Masters # {}
  <1>0. Ms(MaxTime) \in Nat
    BY MsIs, SyncLinkAssumption
  <1>1. PICK f : f = [c \in Chans |-> Ms(Head(c))]
    OBVIOUS
  <1> DEFINE s == SumFunctionOnSet(f, Chans)
  <1>2. \A c \in Chans : Ms(Head(c)) \in Nat /\ Ms(Head(c)) <= Ms(MaxTime)
    BY HeadMs
  <1>3. IsFiniteSet(Chans) /\ Cardinality(Chans) = NumCh
    BY FS_Interval, SyncLinkAssumption DEF Chans
  <1>4. s \in Int /\ NumCh * 0 <= s /\ s <= NumCh * Ms(MaxTime)
    <2>1. \A c \in Chans : f[c] \in Int /\ 0 <= f[c] /\ f[c] <= Ms(MaxTime)
      BY <1>1, <1>2
    <2>2. 0 \in Int /\ Ms(MaxTime) \in Int
      BY <1>0
    <2> QED
      BY <1>3, <2>1, <2>2, SumBetween
  <1>5. PICK g \in [Chans \ syncList -> Stack] : TRUE
    <2>1. [c \in {} |-> 0] \in [Chans \ syncList -> Stack]
      BY DEF AllActive
    <2> QED
      BY <2>1
  <1>6. s = FoldFunction(+, 0, [c \in Chans |-> IF c \in syncList THEN Ms(Head(c)) % Word ELSE g[c]])
    <2>1. \A x \in Nat : x < Word => x % Word = x
      BY SyncLinkAssumption
    <2>2. \A c \in Chans : (IF c \in syncList THEN Ms(Head(c)) % Word ELSE g[c]) = Ms(Head(c))
      BY <1>0, <1>2, <2>1, SyncLinkAssumption DEF AllActive
    <2>3. [c \in Chans |-> IF c \in syncList THEN Ms(Head(c)) % Word ELSE g[c]] = f /\ DOMAIN f = Chans
      BY <1>1, <2>2
    <2> QED
      BY <2>3 DEF FoldFunction, SumFunctionOnSet, FoldFunctionOnSet, MapThenFoldSet
  <1>7. s \div NumCh \in 0 .. Word - 1
    <2> HIDE DEF s
    <2>1. s \div NumCh > -1
      BY <1>4, AverageAbove, SyncLinkAssumption
    <2>2. s \div NumCh < Ms(MaxTime) + 1
      <3>1. PICK x \in Nat : x = Ms(MaxTime)
        BY <1>0
      <3>2. s <= NumCh * ((x + 1) - 1) /\ x + 1 \in Int
        BY <1>4, <3>1
      <3> QED
        BY <1>4, <3>1, <3>2, AverageBelow, SyncLinkAssumption
    <2>3. s \div NumCh \in Int
      BY <1>4, SyncLinkAssumption
    <2> QED
      BY <1>0, <2>1, <2>2, <2>3, SyncLinkAssumption
  <1>8. s \div NumCh \in Masters
    BY <1>5, <1>6, <1>7, Zenon DEF Masters
  <1> QED
    BY <1>8

LEMMA DropsSome ==
  ASSUME Sorts, AllActive, Ready, Ms(MaxTime) + SyncDelta <= Word - 2, NEW m \in Masters, ~Synced(m)
  PROVE  Dropped(m) # {}
  <1>1. PICK c \in Chans : Ms(Head(c)) <= m
    <2>1. Ms(MaxTime) \in Nat
      BY MsIs, SyncLinkAssumption
    <2> QED
      BY <2>1, MasterBetween, SyncLinkAssumption
  <1>2. c \notin High(m)
    <2>1. Ms(Head(c)) \in Nat
      BY HeadMs
    <2> QED
      BY <1>1, <2>1, HigherIs, SyncLinkAssumption DEF High
  <1>3. c \in syncList
    BY DEF AllActive
  <1> QED
    BY <1>2, <1>3 DEF Dropped, Synced

LEMMA FramesFinite == IsFiniteSet(Frames) /\ Cardinality(Frames) \in Nat
  <1>1. IsFiniteSet(Chans) /\ IsFiniteSet(Times)
    BY FS_Interval, SyncLinkAssumption DEF Chans, Times
  <1>2. IsFiniteSet(Chans \X Times)
    BY <1>1, FS_Product
  <1>3. Frames \in SUBSET (Chans \X Times)
    BY DEF Frames
  <1> QED
    BY <1>2, <1>3, FS_Subset, FS_CardinalityType

(* Taking frames out of the local queues makes them fewer.                   *)
LEMMA FewerFrames ==
  ASSUME Sorts, localQue' \in [Chans -> SUBSET Times], \A c \in Chans : localQue'[c] \subseteq localQue[c]
  PROVE  UNCHANGED localQue \/ Cardinality(Frames)' < Cardinality(Frames)
  <1> SUFFICES ASSUME localQue' # localQue PROVE Cardinality(Frames)' < Cardinality(Frames)
    OBVIOUS
  <1>1. localQue \in [Chans -> SUBSET Times]
    BY DEF Sorts
  <1>2. PICK c \in Chans : localQue'[c] # localQue[c]
    BY <1>1
  <1>3. PICK t \in Times : t \in localQue[c] /\ t \notin localQue'[c]
    BY <1>1, <1>2
  <1>4. PICK g, h : g = Frames /\ h = Frames'
    OBVIOUS
  <1>5. h \in SUBSET g /\ <<c, t>> \in g /\ <<c, t>> \notin h
    BY <1>3, <1>4 DEF Frames
  <1>6. IsFiniteSet(g) /\ Cardinality(g) \in Nat
    BY <1>4, FramesFinite
  <1>7. IsFiniteSet(h) /\ Cardinality(h) <= Cardinality(g) /\ Cardinality(h) # Cardinality(g)
    BY <1>5, <1>6, FS_Subset
  <1>8. Cardinality(h) \in Nat
    BY <1>7, FS_CardinalityType
  <1>9. Cardinality(h) < Cardinality(g)
    BY <1>6, <1>7, <1>8
  <1> QED
    BY <1>4, <1>9

LEMMA NextShortens == Books /\ [Next]_vars => RoundShortens
  <1> SUFFICES ASSUME Sorts, Books', [Next]_vars, pc = "decide"
               PROVE  UNCHANGED localQue \/ Cardinality(Frames)' < Cardinality(Frames)
    BY NextBooks DEF Books, RoundShortens
  <1>1. localQue' \in [Chans -> SUBSET Times]
    BY DEF Books, Sorts
  <1>2. UNCHANGED localQue \/ \A c \in Chans : localQue'[c] \subseteq localQue[c]
    <2>1. ASSUME NEW m \in Masters, DropUnsynced(m) \/ Compose(m)
          PROVE  \A c \in Chans : localQue'[c] \subseteq localQue[c]
      BY <2>1 DEF DropUnsynced, Compose, GiveBack
    <2> QED
      BY <2>1 DEF Next, Process, Returns, Tick, Produce, Timer, Start, Stop, Recreate, DropStale, Fill,
                  NoSet, Take, ReturnFrames, ReturnComposites, vars
  <1> QED
    BY <1>1, <1>2, FewerFrames

(* With every channel active the loop comes to an end: as long as it goes on   *)
(* each round takes a frame out of a local queue, and nothing puts one there. *)
(* An average below all heads, or above all, would make it go on for ever.   *)
THEOREM LoopShortens ==
  ASSUME Ms(MaxTime) + SyncDelta <= Word - 2
  PROVE  Spec => []RoundDrops /\ [][RoundShortens]_vars
  <1>1. ASSUME Sorts PROVE RoundDrops
    <2>1. Ms(MaxTime) < Word
      BY MsIs, SyncLinkAssumption
    <2> QED
      BY <1>1, <2>1, SomeMaster, DropsSome DEF RoundDrops
  <1>2. Books => RoundDrops
    BY <1>1 DEF Books
  <1>3. Books /\ [Next]_vars => [RoundShortens]_vars
    BY NextShortens
  <1> QED
    BY <1>2, <1>3, BooksKept, PTL DEF Spec
=============================================================================
