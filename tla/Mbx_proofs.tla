----------------------------- MODULE Mbx_proofs -----------------------------
(***************************************************************************)
(* Proofs about the mailboxes of a CPU, for any number of links, priorities, *)
(* senders and controllers, and any sizes of the pool and of the queues:     *)
(* that no message of the pool is lost, that an acknowledgement reaches who  *)
(* waits for it, and that a message loses its trigger in one way only.       *)
(***************************************************************************)
EXTENDS Mbx, SequenceTheorems, FiniteSetTheorems, WellFoundedInduction, NaturalsInduction, TLAPS

Labels  == {"idle", "alloc", "put", "trigger", "post", "sent", "acked"}
Placing == {"trigger", "post", "sent"}
Serving == {"handle", "flush", "process"}

-----------------------------------------------------------------------------
(* The inductive invariant.                                                 *)

(* The types of the variables that are not counters.                        *)
Sorts ==
  /\ recvQue \in [Links -> Seq(Messages)] /\ ackQue \in [Slots -> Seq(Messages)]
  /\ inUse \in [Slots -> BOOLEAN]
  /\ trigger \in [Pris -> Seq(Sharing)] /\ semTskPend \in {0, 1}
  /\ pc \in [Threads -> Labels] /\ to \in [Threads -> Links \cup {NoOne}]
  /\ slot \in [Controllers -> 0 .. AckMax] /\ ack \in [Controllers -> BOOLEAN]
  /\ tpc \in [Tasks -> {"wait", "scan"} \cup Serving]
  /\ cur \in [Tasks -> Links \cup {NoOne}]
  /\ hand \in [Tasks -> Messages \cup {NoMsg}] /\ pri \in Pris

(* What a call and a task in progress know.                                 *)
Calls ==
  /\ \A t \in Threads :
       /\ pc[t] # "idle" => to[t] \in Links
       /\ pc[t] = "trigger" => to[t] \in Sharing
  /\ \A t \in Tasks :
       /\ tpc[t] \in Serving => cur[t] \in Links
       /\ tpc[t] # "handle" => hand[t] = NoMsg

(* A controller has an ack queue of its own for the time of its call.        *)
Kept ==
  \A c \in Controllers : /\ pc[c] = "idle" <=> slot[c] = 0
                         /\ slot[c] # 0 => inUse[slot[c]]
Alone == \A c, d \in Controllers : slot[c] = slot[d] /\ slot[c] # 0 => c = d
Owned == Kept /\ Alone

Shape == Sorts /\ Calls /\ Owned

(* The message of controller c that asks for an acknowledgement: in a         *)
(* mailbox, in the hand of a task, or in an ack queue.                      *)
Asks(c, m)     == m.slot # 0 /\ m.from = c
InMbx(c, l, i) == i \in DOMAIN recvQue[l] /\ Asks(c, recvQue[l][i])
InHand(c, t)   == Asks(c, hand[t])
InAck(c, k, i) == i \in DOMAIN ackQue[k] /\ ackQue[k][i].from = c

(* Its place: nowhere (0), the i-th in the mailbox of l (1), with task t (2), *)
(* the i-th in the ack queue of c (3).                                      *)
At(c, n, l, t, i) ==
  /\ \A m \in Links, j \in Nat : InMbx(c, m, j) <=> (n = 1 /\ m = l /\ j = i)
  /\ \A u \in Tasks : InHand(c, u) <=> (n = 2 /\ u = t)
  /\ \A k \in Slots, j \in Nat : InAck(c, k, j) <=> (n = 3 /\ k = slot[c] /\ j = i)
  /\ n = 1 => recvQue[l][i].slot = slot[c]
  /\ n = 2 => hand[t].slot = slot[c]

Awaited(c) == ack[c] /\ pc[c] \in Placing

Somewhere(c) ==
  \E n \in 0 .. 3, l \in Links, t \in Tasks, i \in Nat :
     At(c, n, l, t, i) /\ (n # 0 <=> Awaited(c))

Placed ==
  /\ \A c \in Controllers : Somewhere(c)
  /\ \A k \in Slots : \A i \in DOMAIN ackQue[k] : ackQue[k][i].from \in Controllers

(* The multi-mailbox task left no trigger behind, or is woken.               *)
Awake == semTskPend = 1 \/ \E t \in Threads : pc[t] = "post"

Swept ==
  /\ tpc[Multi] = "wait" => pri = Min(Pris) /\ ((\A p \in Pris : trigger[p] = << >>) \/ Awake)
  /\ tpc[Multi] # "wait" => (\A p \in Pris : p < pri => trigger[p] = << >>) \/ Awake

-----------------------------------------------------------------------------
(* Facts about the operators.                                               *)

LEMMA LeastOf ==
  ASSUME NEW S \in SUBSET Nat, S # {}
  PROVE  Min(S) \in S /\ \A y \in S : Min(S) <= y
  <1>1. PICK x \in S : \A y \in S : ~(<<y, x>> \in OpToRel(<, Nat))
    BY WFMin, NatLessThanWellFounded
  <1>2. ASSUME NEW y \in S, y < x PROVE FALSE
    <2>1. <<y, x>> \in Nat \X Nat /\ <<y, x>>[1] < <<y, x>>[2]
      BY <1>2
    <2> QED
      BY <1>1, <2>1, Zenon DEF OpToRel
  <1>3. \A y \in S : x <= y
    BY <1>2
  <1> QED
    BY <1>3 DEF Min

LEMMA PrisOrder == Pris \in SUBSET Nat /\ Pris # {} /\ \A l \in Sharing : Pri[l] \in Pris
  BY MbxAssumption DEF Pris

LEMMA Kinds ==
  /\ Multi \in Tasks /\ Multi \notin Links /\ Own \subseteq Tasks /\ Own \subseteq Links
  /\ Sharing \subseteq Links /\ Senders \subseteq Threads /\ Controllers \subseteq Threads
  /\ \A t \in Threads : t \notin Senders => t \in Controllers
  /\ \A c \in Controllers : c \notin Senders
  BY MbxAssumption DEF Tasks, Links, Threads

LEMMA MessageIs ==
  /\ NewData \in Messages /\ NoMsg.slot = 0 /\ NewData.slot = 0
  /\ \A c \in Controllers, k \in 0 .. AckMax :
       Control(c, k) \in Messages /\ Control(c, k).from = c /\ Control(c, k).slot = k
  /\ \A m \in Messages : m.cmd = "NEW_DATA" => m.slot = 0
  /\ \A m \in Messages : m.slot # 0 => m.from \in Controllers /\ m.slot \in Slots
  BY MbxAssumption DEF Messages, NewData, Control, NoMsg, Slots

LEMMA FirstOf ==
  ASSUME NEW M, NEW q \in Seq(M), q # << >>
  PROVE  /\ Head(q) \in M /\ Head(q) = q[1] /\ 1 \in DOMAIN q /\ Tail(q) \in Seq(M)
         /\ \A j \in Nat : j \in DOMAIN Tail(q) <=> (j # 0 /\ j + 1 \in DOMAIN q)
         /\ \A j \in DOMAIN Tail(q) : Tail(q)[j] = q[j + 1]
  BY EmptySeq, HeadTailProperties, LenProperties

LEMMA LastOf ==
  ASSUME NEW M, NEW q \in Seq(M), NEW x \in M
  PROVE  /\ Append(q, x) \in Seq(M) /\ Len(q) + 1 \in Nat /\ Len(q) + 1 \notin DOMAIN q
         /\ \A j \in Nat : j \in DOMAIN Append(q, x) <=> (j \in DOMAIN q \/ j = Len(q) + 1)
         /\ \A j \in DOMAIN q : Append(q, x)[j] = q[j]
         /\ Append(q, x)[Len(q) + 1] = x
  <1>1. /\ Append(q, x) \in Seq(M) /\ Len(Append(q, x)) = Len(q) + 1
        /\ \A j \in 1 .. Len(q) : Append(q, x)[j] = q[j]
        /\ Append(q, x)[Len(q) + 1] = x
    BY AppendProperties
  <1>2. Len(q) \in Nat /\ DOMAIN q = 1 .. Len(q)
    BY LenProperties
  <1>3. DOMAIN Append(q, x) = 1 .. Len(q) + 1
    BY <1>1, LenProperties
  <1> QED
    BY <1>1, <1>2, <1>3

LEMMA ElementOf ==
  ASSUME NEW M, NEW q \in Seq(M), NEW j \in DOMAIN q
  PROVE  q[j] \in M /\ j \in Nat /\ j # 0 /\ q # << >> /\ 1 \in DOMAIN q
  BY LenProperties, ElementOfSeq

-----------------------------------------------------------------------------
(* Types, and what calls and tasks know.                                    *)

LEMMA InitShape == Init => Shape
  <1> SUFFICES ASSUME Init PROVE Shape
    OBVIOUS
  <1>1. Min(Pris) \in Pris
    BY PrisOrder, LeastOf
  <1>2. Sorts
    BY <1>1, MbxAssumption DEF Init, Sorts, Labels
  <1>3. Calls
    BY DEF Init, Calls, Serving
  <1>4. Owned
    BY Kinds DEF Init, Owned, Kept, Alone
  <1> QED
    BY <1>2, <1>3, <1>4 DEF Shape

(* A step of a thread that keeps its ack queue.                             *)
LEMMA ThreadShape ==
  ASSUME Shape, NEW t \in Threads, NEW label \in Labels \ {"idle"},
         pc[t] # "idle", Goto(t, label), to' = to, slot' = slot, ack' = ack, inUse' = inUse,
         label = "trigger" => to[t] \in Sharing,
         recvQue' \in [Links -> Seq(Messages)], ackQue' \in [Slots -> Seq(Messages)],
         trigger' \in [Pris -> Seq(Sharing)], semTskPend' \in {0, 1},
         UNCHANGED taskVars
  PROVE  Shape'
  <1> USE DEF Shape, Goto, taskVars
  <1>1. pc'[t] = label /\ \A u \in Threads : u # t => pc'[u] = pc[u]
    BY DEF Sorts
  <1>2. Sorts'
    BY DEF Sorts
  <1>3. Calls'
    BY <1>1 DEF Calls
  <1>4. Owned'
    <2>1. \A c \in Controllers : pc'[c] = "idle" <=> pc[c] = "idle"
      BY <1>1, Kinds
    <2> HIDE DEF Goto
    <2> QED
      BY <2>1 DEF Owned, Kept, Alone
  <1> QED
    BY <1>2, <1>3, <1>4

(* A step of a sender that ends its call.                                   *)
LEMMA EndShape ==
  ASSUME Shape, NEW t \in Senders, Goto(t, "idle"), to' = [to EXCEPT ![t] = NoOne],
         UNCHANGED <<slot, ack, inUse, ackQue, trigger>>,
         recvQue' \in [Links -> Seq(Messages)], semTskPend' \in {0, 1},
         UNCHANGED taskVars
  PROVE  Shape'
  <1> USE Kinds DEF Shape, Goto, taskVars
  <1>1. pc'[t] = "idle" /\ \A u \in Threads : u # t => pc'[u] = pc[u] /\ to'[u] = to[u]
    BY DEF Sorts
  <1>2. Sorts'
    BY DEF Sorts, Labels
  <1>3. Calls'
    BY <1>1 DEF Calls
  <1>4. Owned'
    <2>1. \A c \in Controllers : pc'[c] = pc[c]
      BY <1>1
    <2> HIDE DEF Goto
    <2> QED
      BY <2>1 DEF Owned, Kept, Alone
  <1> QED
    BY <1>2, <1>3, <1>4

LEMMA ProduceShape ==
  ASSUME Shape, NEW s \in Senders, NEW l \in Links, Produce(s, l)
  PROVE  Shape'
  <1> USE Kinds DEF Shape, Goto, taskVars, Produce
  <1>1. pc'[s] = "alloc" /\ to'[s] = l
        /\ \A u \in Threads : u # s => pc'[u] = pc[u] /\ to'[u] = to[u]
    BY DEF Sorts
  <1>2. Sorts'
    BY DEF Sorts, Labels
  <1>3. Calls'
    BY <1>1 DEF Calls
  <1>4. Owned'
    <2>1. (\A c \in Controllers : pc'[c] = pc[c]) /\ slot' = slot /\ inUse' = inUse
      BY <1>1
    <2> HIDE DEF Produce
    <2> QED
      BY <2>1 DEF Owned, Kept, Alone
  <1> QED
    BY <1>2, <1>3, <1>4

LEMMA AskShape ==
  ASSUME Shape, NEW c \in Controllers, NEW l \in Links, NEW a \in BOOLEAN, Ask(c, l, a)
  PROVE  Shape'
  <1> USE Kinds DEF Shape, Goto, taskVars
  <1>1. PICK k \in Slots : k = Min({j \in Slots : ~inUse[j]}) /\ ~inUse[k]
    <2>1. {j \in Slots : ~inUse[j]} \in SUBSET Nat /\ {j \in Slots : ~inUse[j]} # {}
      BY DEF Ask, Slots
    <2> QED
      BY <2>1, LeastOf
  <1>2. /\ slot' = [slot EXCEPT ![c] = k] /\ inUse' = [inUse EXCEPT ![k] = TRUE]
        /\ pc' = [pc EXCEPT ![c] = "alloc"] /\ to' = [to EXCEPT ![c] = l]
        /\ ack' = [ack EXCEPT ![c] = a] /\ pc[c] = "idle"
        /\ UNCHANGED <<recvQue, ackQue, trigger, semTskPend, taskVars>>
    BY <1>1 DEF Ask
  <1>3. k \in 1 .. AckMax /\ k # 0
    BY <1>1 DEF Slots
  <1>4. Sorts'
    BY <1>1, <1>2, <1>3, MbxAssumption DEF Sorts, Labels
  <1>5. /\ pc'[c] = "alloc" /\ to'[c] = l /\ slot'[c] = k /\ inUse'[k]
        /\ \A u \in Threads : u # c => pc'[u] = pc[u] /\ to'[u] = to[u]
        /\ \A d \in Controllers : d # c => slot'[d] = slot[d]
        /\ \A j \in Slots : inUse[j] => inUse'[j]
    BY <1>1, <1>2 DEF Sorts
  <1>6. Calls'
    BY <1>2, <1>5 DEF Calls
  <1>7. Owned'
    <2>1. \A d \in Controllers : d # c => slot[d] # k
      BY <1>1, <1>3 DEF Owned, Kept, Alone
    <2>2. \A d \in Controllers : slot[d] # 0 => slot[d] \in Slots
      BY DEF Sorts, Slots
    <2>3. Kept'
      <3>1. ASSUME NEW d \in Controllers, slot'[d] # 0 PROVE inUse'[slot'[d]]
        <4>1. CASE d = c
          BY <1>5, <4>1, Zenon
        <4>2. CASE d # c
          <5>1. slot'[d] = slot[d] /\ slot[d] # 0 /\ slot[d] \in Slots
            BY <1>5, <2>2, <3>1, <4>2
          <5>2. inUse[slot[d]]
            BY <5>1, Zenon DEF Owned, Kept
          <5> QED
            BY <1>5, <5>1, <5>2, Zenon
        <4> QED
          BY <4>1, <4>2
      <3>2. \A d \in Controllers : pc'[d] = "idle" <=> slot'[d] = 0
        BY <1>3, <1>5 DEF Owned, Kept
      <3> QED
        BY <3>1, <3>2, Zenon DEF Kept
    <2>4. Alone'
      BY <1>5, <2>1 DEF Owned, Kept, Alone
    <2> QED
      BY <2>3, <2>4 DEF Owned
  <1> QED
    BY <1>4, <1>6, <1>7

LEMMA AllocShape == ASSUME Shape, NEW t \in Threads, Alloc(t) PROVE Shape'
  <1> USE DEF Shape, Alloc
  <1>1. pc[t] = "alloc" /\ UNCHANGED <<recvQue, ackQue, inUse, trigger, semTskPend, slot, ack, taskVars>>
    BY Zenon DEF Alloc
  <1>2. /\ recvQue' \in [Links -> Seq(Messages)] /\ ackQue' \in [Slots -> Seq(Messages)]
        /\ trigger' \in [Pris -> Seq(Sharing)] /\ semTskPend' \in {0, 1}
    BY <1>1 DEF Sorts
  <1>3. CASE Goto(t, "put") /\ to' = to
    BY <1>1, <1>2, <1>3, ThreadShape DEF Labels
  <1>4. CASE t \in Senders /\ Goto(t, "idle") /\ to' = [to EXCEPT ![t] = NoOne]
    BY <1>1, <1>2, <1>4, EndShape
  <1> QED
    BY <1>3, <1>4

(* The message that Put puts in a mailbox.                                  *)
Sent(t) == IF t \in Senders THEN NewData ELSE Control(t, IF ack[t] THEN slot[t] ELSE 0)

LEMMA SentIs ==
  ASSUME Shape, NEW t \in Threads
  PROVE  /\ Sent(t) \in Messages
         /\ \A c \in Controllers : Asks(c, Sent(t)) <=> (c = t /\ ack[c] /\ slot[c] # 0)
         /\ Sent(t).slot # 0 => Sent(t).slot = slot[t]
  BY MbxAssumption, Kinds, MessageIs DEF Sent, Asks, Shape, Sorts

LEMMA PutShape == ASSUME Shape, NEW t \in Threads, Put(t) PROVE Shape'
  <1> USE Kinds DEF Shape
  <1>1. /\ pc[t] = "put" /\ to[t] \in Links
        /\ recvQue' = [recvQue EXCEPT ![to[t]] = Append(@, Sent(t))]
        /\ UNCHANGED <<ackQue, inUse, trigger, semTskPend, slot, ack, taskVars>>
    BY DEF Put, Sent, Calls
  <1>2. /\ recvQue' \in [Links -> Seq(Messages)] /\ ackQue' \in [Slots -> Seq(Messages)]
        /\ trigger' \in [Pris -> Seq(Sharing)] /\ semTskPend' \in {0, 1}
    BY <1>1, SentIs, LastOf DEF Sorts
  <1>3. CASE to[t] \in Sharing
    BY <1>1, <1>2, <1>3, ThreadShape DEF Labels, Put
  <1>4. CASE to[t] \notin Sharing /\ t \in Senders
    BY <1>1, <1>2, <1>4, EndShape DEF Put
  <1>5. CASE to[t] \notin Sharing /\ t \notin Senders
    BY <1>1, <1>2, <1>5, ThreadShape DEF Labels, Put
  <1> QED
    BY <1>3, <1>4, <1>5

LEMMA TriggerShape == ASSUME Shape, NEW t \in Threads, Trigger(t) PROVE Shape'
  <1> USE Kinds DEF Shape
  <1>1. /\ pc[t] = "trigger" /\ to[t] \in Sharing /\ Goto(t, "post")
        /\ UNCHANGED <<recvQue, ackQue, inUse, semTskPend, to, slot, ack, taskVars>>
    BY DEF Trigger, Calls
  <1>2. /\ trigger' = trigger \/ trigger' = [trigger EXCEPT ![Pri[to[t]]] = Append(@, to[t])]
        /\ Pri[to[t]] \in Pris
    BY <1>1, PrisOrder DEF Trigger
  <1>3. trigger' \in [Pris -> Seq(Sharing)]
    <2>1. trigger \in [Pris -> Seq(Sharing)] /\ trigger[Pri[to[t]]] \in Seq(Sharing)
      BY <1>2 DEF Sorts
    <2>2. Append(trigger[Pri[to[t]]], to[t]) \in Seq(Sharing)
      BY <1>1, <2>1, LastOf
    <2> QED
      BY <1>2, <2>1, <2>2
  <1>4. recvQue' \in [Links -> Seq(Messages)] /\ ackQue' \in [Slots -> Seq(Messages)] /\ semTskPend' \in {0, 1}
    BY <1>1 DEF Sorts
  <1> QED
    BY <1>1, <1>3, <1>4, ThreadShape DEF Labels

LEMMA PostShape == ASSUME Shape, NEW t \in Threads, Post(t) PROVE Shape'
  <1> USE Kinds DEF Shape
  <1>1. /\ pc[t] = "post" /\ semTskPend' = 1
        /\ UNCHANGED <<recvQue, ackQue, inUse, trigger, slot, ack, taskVars>>
    BY DEF Post
  <1>2. /\ recvQue' \in [Links -> Seq(Messages)] /\ ackQue' \in [Slots -> Seq(Messages)]
        /\ trigger' \in [Pris -> Seq(Sharing)] /\ semTskPend' \in {0, 1}
    BY <1>1 DEF Sorts
  <1>3. CASE t \in Senders
    BY <1>1, <1>2, <1>3, EndShape DEF Post
  <1>4. CASE t \notin Senders
    BY <1>1, <1>2, <1>4, ThreadShape DEF Post, Labels
  <1> QED
    BY <1>3, <1>4

LEMMA GetAckShape == ASSUME Shape, NEW c \in Controllers, GetAck(c) PROVE Shape'
  <1> USE Kinds DEF Shape
  <1>1. /\ pc[c] = "sent" /\ slot[c] \in Slots /\ ackQue[slot[c]] # << >>
        /\ ackQue' = [ackQue EXCEPT ![slot[c]] = Tail(@)]
        /\ UNCHANGED <<recvQue, inUse, trigger, semTskPend, to, slot, ack, taskVars>>
    BY DEF GetAck, Owned, Kept, Sorts, Slots
  <1>2. /\ recvQue' \in [Links -> Seq(Messages)] /\ ackQue' \in [Slots -> Seq(Messages)]
        /\ trigger' \in [Pris -> Seq(Sharing)] /\ semTskPend' \in {0, 1}
    BY <1>1, FirstOf DEF Sorts
  <1>3. Goto(c, "acked") \/ Goto(c, "sent")
    BY DEF GetAck
  <1> QED
    BY <1>1, <1>2, <1>3, ThreadShape DEF Labels

LEMMA ReleaseShape == ASSUME Shape, NEW c \in Controllers, Release(c) PROVE Shape'
  <1> USE Kinds DEF Shape, Goto, taskVars
  <1>1. /\ slot' = [slot EXCEPT ![c] = 0] /\ inUse' = [inUse EXCEPT ![slot[c]] = FALSE]
        /\ pc' = [pc EXCEPT ![c] = "idle"] /\ to' = [to EXCEPT ![c] = NoOne]
        /\ ack' = [ack EXCEPT ![c] = FALSE]
        /\ UNCHANGED <<recvQue, ackQue, trigger, semTskPend, taskVars>>
    BY DEF Release
  <1>2. Sorts'
    <2>1. /\ slot' \in [Controllers -> 0 .. AckMax] /\ ack' \in [Controllers -> BOOLEAN]
          /\ pc' \in [Threads -> Labels] /\ to' \in [Threads -> Links \cup {NoOne}]
      BY <1>1, MbxAssumption DEF Sorts, Labels
    <2>2. inUse' \in [Slots -> BOOLEAN]
      BY <1>1 DEF Sorts
    <2> QED
      BY <1>1, <2>1, <2>2 DEF Sorts
  <1>3. /\ pc'[c] = "idle" /\ slot'[c] = 0
        /\ \A u \in Threads : u # c => pc'[u] = pc[u] /\ to'[u] = to[u]
        /\ \A d \in Controllers : d # c => slot'[d] = slot[d]
        /\ \A j \in Slots : j # slot[c] => inUse'[j] = inUse[j]
    BY <1>1 DEF Sorts
  <1>4. Calls'
    BY <1>1, <1>3 DEF Calls
  <1>5. Owned'
    <2>1. \A d \in Controllers : slot[d] # 0 => slot[d] \in Slots
      BY DEF Sorts, Slots
    <2>2. \A d \in Controllers : d # c /\ slot[d] # 0 => slot[d] # slot[c]
      BY DEF Owned, Kept, Alone
    <2>3. Kept'
      BY <1>3, <2>1, <2>2 DEF Owned, Kept, Alone
    <2>4. Alone'
      BY <1>3 DEF Owned, Kept, Alone
    <2> QED
      BY <2>3, <2>4 DEF Owned
  <1> QED
    BY <1>2, <1>4, <1>5

(* A step of a task.                                                        *)
LEMMA TaskShape ==
  ASSUME Shape, UNCHANGED <<inUse, threadVars>>, Calls',
         recvQue' \in [Links -> Seq(Messages)], ackQue' \in [Slots -> Seq(Messages)],
         trigger' \in [Pris -> Seq(Sharing)], semTskPend' \in {0, 1},
         tpc' \in [Tasks -> {"wait", "scan"} \cup Serving],
         cur' \in [Tasks -> Links \cup {NoOne}], hand' \in [Tasks -> Messages \cup {NoMsg}],
         pri' \in Pris
  PROVE  Shape'
  <1>1. Sorts'
    BY DEF Shape, Sorts, threadVars
  <1>2. Owned'
    BY DEF Shape, Owned, Kept, Alone, threadVars
  <1> QED
    BY <1>1, <1>2 DEF Shape

LEMMA ReceiveShape ==
  ASSUME Shape, NEW t \in Tasks, NEW l \in Links, recvQue[l] # << >>, Receive(t, l),
         UNCHANGED <<ackQue, inUse, semTskPend, threadVars, pri>>,
         trigger' \in [Pris -> Seq(Sharing)]
  PROVE  Shape'
  <1> USE DEF Receive
  <1>1. Head(recvQue[l]) \in Messages /\ Tail(recvQue[l]) \in Seq(Messages)
    BY FirstOf DEF Shape, Sorts
  <1>2. /\ recvQue' \in [Links -> Seq(Messages)]
        /\ tpc' \in [Tasks -> {"wait", "scan"} \cup Serving]
        /\ cur' \in [Tasks -> Links \cup {NoOne}] /\ hand' \in [Tasks -> Messages \cup {NoMsg}]
    BY <1>1 DEF Shape, Sorts, Serving
  <1>3. Calls'
    BY DEF Shape, Sorts, Calls, Serving, threadVars
  <1>4. ackQue' \in [Slots -> Seq(Messages)] /\ semTskPend' \in {0, 1} /\ pri' \in Pris
    BY DEF Shape, Sorts
  <1> HIDE DEF Receive
  <1> QED
    BY <1>2, <1>3, <1>4, TaskShape

LEMMA OwnReceiveShape == ASSUME Shape, NEW l \in Tasks, OwnReceive(l) PROVE Shape'
  <1>1. /\ l \in Links /\ recvQue[l] # << >> /\ Receive(l, l)
        /\ UNCHANGED <<ackQue, inUse, trigger, semTskPend, threadVars, pri>>
    BY Kinds DEF OwnReceive
  <1>2. trigger' \in [Pris -> Seq(Sharing)]
    BY <1>1 DEF Shape, Sorts
  <1> QED
    BY <1>1, <1>2, ReceiveShape

LEMMA MultiTakeShape == ASSUME Shape, MultiTake PROVE Shape'
  <1> DEFINE l == Head(trigger[pri])
  <1>1. /\ trigger[pri] # << >> /\ trigger' = [trigger EXCEPT ![pri] = Tail(@)]
        /\ UNCHANGED <<ackQue, inUse, semTskPend, threadVars, pri>>
    BY DEF MultiTake
  <1>2. l \in Links /\ trigger' \in [Pris -> Seq(Sharing)]
    <2>1. trigger[pri] \in Seq(Sharing) /\ trigger \in [Pris -> Seq(Sharing)] /\ pri \in Pris
      BY DEF Shape, Sorts
    <2>2. Head(trigger[pri]) \in Sharing /\ Tail(trigger[pri]) \in Seq(Sharing)
      BY <1>1, <2>1, FirstOf
    <2> QED
      BY <1>1, <2>1, <2>2, Kinds
  <1>3. CASE recvQue[l] = << >>
    <2>1. UNCHANGED <<recvQue, hand, cur, tpc>>
      BY <1>3 DEF MultiTake
    <2>2. Calls'
      BY <1>1, <2>1 DEF Shape, Calls, threadVars
    <2>3. /\ recvQue' \in [Links -> Seq(Messages)] /\ ackQue' \in [Slots -> Seq(Messages)]
          /\ semTskPend' \in {0, 1} /\ pri' \in Pris
          /\ tpc' \in [Tasks -> {"wait", "scan"} \cup Serving]
          /\ cur' \in [Tasks -> Links \cup {NoOne}] /\ hand' \in [Tasks -> Messages \cup {NoMsg}]
      BY <1>1, <2>1 DEF Shape, Sorts
    <2> QED
      BY <1>1, <1>2, <2>2, <2>3, TaskShape
  <1>4. CASE recvQue[l] # << >>
    <2>1. Receive(Multi, l)
      BY <1>4 DEF MultiTake
    <2> HIDE DEF l
    <2> QED
      BY <1>1, <1>2, <1>4, <2>1, Kinds, ReceiveShape
  <1> QED
    BY <1>3, <1>4

(* The steps of the multi-mailbox task that receive nothing.                *)
LEMMA MultiStepShape ==
  ASSUME Shape, tpc[Multi] \in {"wait", "scan"}, NEW label \in {"wait", "scan"},
         tpc' = [tpc EXCEPT ![Multi] = label], pri' \in Pris, semTskPend' \in {0, 1},
         UNCHANGED <<recvQue, ackQue, inUse, trigger, threadVars, cur, hand>>
  PROVE  Shape'
  <1>1. Calls'
    BY Kinds DEF Shape, Sorts, Calls, Serving, threadVars
  <1>2. /\ recvQue' \in [Links -> Seq(Messages)] /\ ackQue' \in [Slots -> Seq(Messages)]
        /\ trigger' \in [Pris -> Seq(Sharing)]
        /\ tpc' \in [Tasks -> {"wait", "scan"} \cup Serving]
        /\ cur' \in [Tasks -> Links \cup {NoOne}] /\ hand' \in [Tasks -> Messages \cup {NoMsg}]
    BY DEF Shape, Sorts
  <1> QED
    BY <1>1, <1>2, TaskShape

LEMMA MultiWakeShape == ASSUME Shape, MultiWake PROVE Shape'
  <1>1. pri' \in Pris
    BY DEF Shape, Sorts, MultiWake
  <1> QED
    BY <1>1, MultiStepShape DEF MultiWake

(* The queue that MultiNext looks at next, or none.                         *)
LEMMA NextPri ==
  ASSUME Shape, MultiNext
  PROVE  \/ /\ tpc' = [tpc EXCEPT ![Multi] = "wait"] /\ pri' = Min(Pris) /\ pri' \in Pris
            /\ \A p \in Pris : p <= pri
         \/ /\ UNCHANGED tpc /\ pri' \in Pris
            /\ \A p \in Pris : p < pri' => p <= pri
  <1> DEFINE lower == {p \in Pris : p > pri}
  <1>1. pri \in Pris /\ Pris \in SUBSET Nat /\ Pris # {}
    BY PrisOrder DEF Shape, Sorts
  <1>2. CASE lower = {}
    <2>1. tpc' = [tpc EXCEPT ![Multi] = "wait"] /\ pri' = Min(Pris)
      BY <1>2 DEF MultiNext
    <2> QED
      BY <1>1, <1>2, <2>1, LeastOf
  <1>3. CASE lower # {}
    <2>1. UNCHANGED tpc /\ pri' = Min(lower)
      BY <1>3 DEF MultiNext
    <2>2. lower \in SUBSET Nat
      BY <1>1
    <2>3. Min(lower) \in lower /\ \A p \in lower : Min(lower) <= p
      BY <1>3, <2>2, LeastOf
    <2>4. pri' \in Pris
      BY <2>1, <2>3
    <2>5. ASSUME NEW p \in Pris, p < pri' PROVE p <= pri
      <3>1. p \in Nat /\ pri \in Nat /\ pri' \in Nat
        BY <1>1, <2>4
      <3>2. CASE p \in lower
        BY <2>1, <2>3, <2>5, <3>1, <3>2
      <3>3. CASE p \notin lower
        BY <3>1, <3>3
      <3> QED
        BY <3>2, <3>3
    <2> QED
      BY <2>1, <2>4, <2>5
  <1> QED
    BY <1>2, <1>3

LEMMA MultiNextShape == ASSUME Shape, MultiNext PROVE Shape'
  <1>1. /\ tpc[Multi] = "scan" /\ semTskPend' \in {0, 1} /\ pri' \in Pris
        /\ UNCHANGED <<recvQue, ackQue, inUse, trigger, threadVars, cur, hand>>
    BY NextPri DEF MultiNext, Shape, Sorts
  <1>2. tpc' = [tpc EXCEPT ![Multi] = "wait"] \/ tpc' = [tpc EXCEPT ![Multi] = "scan"]
    BY <1>1, NextPri, Kinds DEF Shape, Sorts
  <1> QED
    BY <1>1, <1>2, MultiStepShape

(* What AckOrFree does to the ack queues.                                   *)
LEMMA AckShape ==
  ASSUME Shape, NEW m \in Messages \cup {NoMsg}, AckOrFree(m)
  PROVE  ackQue' \in [Slots -> Seq(Messages)]
  <1>1. CASE m.slot = 0
    BY <1>1 DEF AckOrFree, Shape, Sorts
  <1>2. CASE m.slot # 0
    <2>1. m \in Messages /\ m.slot \in Slots
      BY <1>2, MessageIs
    <2>2. Append(ackQue[m.slot], m) \in Seq(Messages)
      BY <2>1, LastOf DEF Shape, Sorts
    <2> QED
      BY <1>2, <2>1, <2>2 DEF AckOrFree, Shape, Sorts
  <1> QED
    BY <1>1, <1>2

LEMMA ReadyIs == \A t \in Tasks : Ready(t) \in {"wait", "scan"} /\ Ready(Multi) = "scan"
  BY DEF Ready

LEMMA HandleShape == ASSUME Shape, NEW t \in Tasks, Handle(t) PROVE Shape'
  <1>1. /\ tpc[t] = "handle" /\ AckOrFree(hand[t]) /\ hand' = [hand EXCEPT ![t] = NoMsg]
        /\ UNCHANGED <<recvQue, inUse, trigger, semTskPend, threadVars, pri>>
    BY DEF Handle
  <1>2. ackQue' \in [Slots -> Seq(Messages)]
    <2>1. hand[t] \in Messages \cup {NoMsg}
      BY DEF Shape, Sorts
    <2> QED
      BY <1>1, <2>1, AckShape
  <1>3. \/ tpc' = [tpc EXCEPT ![t] = "flush"] /\ UNCHANGED cur
        \/ tpc' = [tpc EXCEPT ![t] = Ready(t)] /\ cur' = [cur EXCEPT ![t] = NoOne]
    BY DEF Handle
  <1>4. Calls'
    BY <1>1, <1>3, ReadyIs DEF Shape, Sorts, Calls, Serving, threadVars
  <1>5. /\ recvQue' \in [Links -> Seq(Messages)] /\ semTskPend' \in {0, 1} /\ pri' \in Pris
        /\ trigger' \in [Pris -> Seq(Sharing)]
        /\ tpc' \in [Tasks -> {"wait", "scan"} \cup Serving]
        /\ cur' \in [Tasks -> Links \cup {NoOne}] /\ hand' \in [Tasks -> Messages \cup {NoMsg}]
    BY <1>1, <1>3, ReadyIs DEF Shape, Sorts, Serving
  <1> QED
    BY <1>1, <1>2, <1>4, <1>5, TaskShape

LEMMA FlushShape == ASSUME Shape, NEW t \in Tasks, Flush(t) PROVE Shape'
  <1> DEFINE q == recvQue[cur[t]]
  <1>1. /\ tpc[t] = "flush" /\ cur[t] \in Links
        /\ UNCHANGED <<inUse, trigger, semTskPend, threadVars, cur, hand, pri>>
    BY DEF Flush, Shape, Calls, Serving
  <1>2. q \in Seq(Messages)
    BY <1>1 DEF Shape, Sorts
  <1>3. /\ trigger' \in [Pris -> Seq(Sharing)] /\ semTskPend' \in {0, 1} /\ pri' \in Pris
        /\ cur' \in [Tasks -> Links \cup {NoOne}] /\ hand' \in [Tasks -> Messages \cup {NoMsg}]
    BY <1>1 DEF Shape, Sorts
  <1>4. CASE q # << >> /\ Head(q).cmd = "NEW_DATA"
    <2>1. /\ recvQue' = [recvQue EXCEPT ![cur[t]] = Tail(q)] /\ AckOrFree(Head(q)) /\ UNCHANGED tpc
      BY <1>4 DEF Flush
    <2>2. Head(q) \in Messages /\ Tail(q) \in Seq(Messages)
      BY <1>2, <1>4, FirstOf
    <2>3. ackQue' \in [Slots -> Seq(Messages)]
      BY <2>1, <2>2, AckShape
    <2>4. /\ recvQue' \in [Links -> Seq(Messages)]
          /\ tpc' \in [Tasks -> {"wait", "scan"} \cup Serving]
      BY <2>1, <2>2 DEF Shape, Sorts
    <2>5. Calls'
      BY <1>1, <2>1 DEF Shape, Calls, threadVars
    <2> QED
      BY <1>1, <1>3, <2>3, <2>4, <2>5, TaskShape
  <1>5. CASE ~(q # << >> /\ Head(q).cmd = "NEW_DATA")
    <2>1. tpc' = [tpc EXCEPT ![t] = "process"] /\ UNCHANGED <<recvQue, ackQue>>
      BY <1>5 DEF Flush
    <2>2. /\ recvQue' \in [Links -> Seq(Messages)] /\ ackQue' \in [Slots -> Seq(Messages)]
          /\ tpc' \in [Tasks -> {"wait", "scan"} \cup Serving]
      BY <2>1 DEF Shape, Sorts, Serving
    <2>3. Calls'
      BY <1>1, <2>1 DEF Shape, Sorts, Calls, Serving, threadVars
    <2> QED
      BY <1>1, <1>3, <2>2, <2>3, TaskShape
  <1> QED
    BY <1>4, <1>5

LEMMA ProcessShape == ASSUME Shape, NEW t \in Tasks, Process(t) PROVE Shape'
  <1>1. /\ tpc[t] = "process" /\ tpc' = [tpc EXCEPT ![t] = Ready(t)]
        /\ cur' = [cur EXCEPT ![t] = NoOne]
        /\ UNCHANGED <<recvQue, ackQue, inUse, trigger, semTskPend, threadVars, hand, pri>>
    BY DEF Process
  <1>2. Calls'
    BY <1>1, ReadyIs DEF Shape, Sorts, Calls, Serving, threadVars
  <1>3. /\ recvQue' \in [Links -> Seq(Messages)] /\ ackQue' \in [Slots -> Seq(Messages)]
        /\ trigger' \in [Pris -> Seq(Sharing)] /\ semTskPend' \in {0, 1} /\ pri' \in Pris
        /\ tpc' \in [Tasks -> {"wait", "scan"} \cup Serving]
        /\ cur' \in [Tasks -> Links \cup {NoOne}] /\ hand' \in [Tasks -> Messages \cup {NoMsg}]
    BY <1>1, ReadyIs DEF Shape, Sorts, Serving
  <1> QED
    BY <1>1, <1>2, <1>3, TaskShape

LEMMA NextShape == Shape /\ [Next]_vars => Shape'
  <1> SUFFICES ASSUME Shape, [Next]_vars PROVE Shape'
    OBVIOUS
  <1>1. CASE UNCHANGED vars
    BY <1>1 DEF vars, threadVars, taskVars, Shape, Sorts, Calls, Owned, Kept, Alone
  <1> QED
    BY <1>1, ProduceShape, AskShape, AllocShape, PutShape, TriggerShape, PostShape, GetAckShape,
       ReleaseShape, OwnReceiveShape, MultiWakeShape, MultiTakeShape, MultiNextShape, HandleShape,
       FlushShape, ProcessShape, Zenon DEF Next, Sends, Waits, Runs

-----------------------------------------------------------------------------
(* No mailbox is forgotten by the multi-mailbox task.                       *)

LEMMA InitSwept == Init => Swept
  BY Kinds DEF Init, Swept

(* A step that leaves the task where it is.                                 *)
LEMMA StillSwept ==
  ASSUME Swept, UNCHANGED <<trigger, pri>>, tpc'[Multi] = "wait" <=> tpc[Multi] = "wait",
         Awake => Awake'
  PROVE  Swept'
  BY DEF Swept

(* A step of a thread before it posts.                                      *)
LEMMA QuietAwake ==
  ASSUME Shape, NEW t \in Threads, pc[t] # "post", semTskPend' = semTskPend,
         NEW label, pc' = [pc EXCEPT ![t] = label]
  PROVE  Awake => Awake'
  BY DEF Awake, Shape, Sorts

LEMMA ThreadSwept ==
  ASSUME Shape, Swept, NEW t \in Threads, pc[t] # "post", NEW label, Goto(t, label),
         UNCHANGED <<semTskPend, trigger, taskVars>>
  PROVE  Swept'
  BY QuietAwake, StillSwept DEF Goto, taskVars

LEMMA NextSwept == Shape /\ Swept /\ [Next]_vars => Swept'
  <1> SUFFICES ASSUME Shape, Swept, [Next]_vars PROVE Swept'
    OBVIOUS
  <1> USE Kinds
  <1>1. ASSUME NEW s \in Senders, NEW l \in Links, Produce(s, l) PROVE Swept'
    BY <1>1, ThreadSwept DEF Produce
  <1>2. ASSUME NEW c \in Controllers, NEW l \in Links, NEW a \in BOOLEAN, Ask(c, l, a) PROVE Swept'
    BY <1>2, ThreadSwept DEF Ask
  <1>3. ASSUME NEW t \in Threads, Alloc(t) PROVE Swept'
    BY <1>3, ThreadSwept DEF Alloc
  <1>4. ASSUME NEW t \in Threads, Put(t) PROVE Swept'
    BY <1>4, ThreadSwept DEF Put
  <1>5. ASSUME NEW t \in Threads, Trigger(t) PROVE Swept'
    <2>1. pc'[t] = "post" /\ UNCHANGED <<tpc, pri>>
      BY <1>5 DEF Trigger, Goto, Shape, Sorts, taskVars
    <2>2. Awake'
      BY <2>1 DEF Awake
    <2> QED
      BY <2>1, <2>2 DEF Swept
  <1>6. ASSUME NEW t \in Threads, Post(t) PROVE Swept'
    <2>1. semTskPend' = 1 /\ UNCHANGED <<trigger, tpc, pri>>
      BY <1>6 DEF Post, taskVars
    <2>2. Awake'
      BY <2>1 DEF Awake
    <2> QED
      BY <2>1, <2>2, StillSwept
  <1>7. ASSUME NEW c \in Controllers, GetAck(c) PROVE Swept'
    BY <1>7, ThreadSwept DEF GetAck
  <1>8. ASSUME NEW c \in Controllers, Release(c) PROVE Swept'
    BY <1>8, ThreadSwept DEF Release
  <1>9. ASSUME NEW t \in Tasks, OwnReceive(t) PROVE Swept'
    <2>1. tpc'[Multi] = tpc[Multi] /\ UNCHANGED <<trigger, pri, pc, semTskPend>>
      BY <1>9 DEF OwnReceive, Receive, Shape, Sorts, threadVars
    <2> QED
      BY <2>1, StillSwept DEF Awake
  <1>10. CASE MultiWake
    <2>1. /\ tpc[Multi] = "wait" /\ tpc'[Multi] = "scan" /\ UNCHANGED <<trigger, pri>>
          /\ pri \in Nat /\ pri = Min(Pris)
      BY <1>10, PrisOrder DEF MultiWake, Shape, Sorts, Swept
    <2>2. \A p \in Pris : ~(p < pri)
      <3>1. \A p \in Pris : Min(Pris) <= p /\ p \in Nat
        BY PrisOrder, LeastOf
      <3> QED
        BY <2>1, <3>1
    <2> QED
      BY <2>1, <2>2 DEF Swept
  <1>11. CASE MultiTake
    <2>1. /\ tpc[Multi] = "scan" /\ trigger' = [trigger EXCEPT ![pri] = Tail(@)]
          /\ UNCHANGED <<pri, pc, semTskPend>>
      BY <1>11 DEF MultiTake, threadVars
    <2>2. tpc'[Multi] # "wait"
      BY <1>11, <2>1 DEF MultiTake, Receive, Shape, Sorts
    <2>3. \A p \in Pris : p < pri => trigger'[p] = trigger[p]
      BY <2>1, PrisOrder DEF Shape, Sorts
    <2> QED
      BY <2>1, <2>2, <2>3 DEF Swept, Awake
  <1>12. CASE MultiNext
    <2>1. /\ tpc[Multi] = "scan" /\ trigger[pri] = << >> /\ UNCHANGED <<trigger, pc, semTskPend>>
          /\ pri \in Nat /\ Pris \subseteq Nat
      BY <1>12, PrisOrder DEF MultiNext, Shape, Sorts, threadVars
    <2>2. (\A p \in Pris : p <= pri => trigger[p] = << >>) \/ Awake
      <3>1. CASE Awake
        BY <3>1
      <3>2. CASE ~Awake
        <4>1. \A p \in Pris : p < pri => trigger[p] = << >>
          BY <2>1, <3>2 DEF Swept
        <4>2. \A p \in Pris : p <= pri => p < pri \/ p = pri
          BY <2>1
        <4> QED
          BY <2>1, <4>1, <4>2
      <3> QED
        BY <3>1, <3>2
    <2>3. Awake => Awake'
      BY <2>1 DEF Awake
    <2>4. \/ tpc'[Multi] = "wait" /\ pri' = Min(Pris) /\ \A p \in Pris : p <= pri
          \/ tpc'[Multi] = "scan" /\ \A p \in Pris : p < pri' => p <= pri
      BY <1>12, <2>1, NextPri DEF Shape, Sorts
    <2> QED
      BY <2>1, <2>2, <2>3, <2>4 DEF Swept
  <1>13. ASSUME NEW t \in Tasks, Handle(t) \/ Flush(t) \/ Process(t) PROVE Swept'
    <2>1. UNCHANGED <<trigger, pri, pc, semTskPend>>
      BY <1>13 DEF Handle, Flush, Process, threadVars
    <2>2. tpc[t] \in Serving /\ \E label : label # "wait" /\ (t = Multi => tpc'[t] = label)
      BY <1>13, ReadyIs DEF Handle, Flush, Process, Serving, Shape, Sorts
    <2>3. t # Multi => tpc'[Multi] = tpc[Multi]
      BY <1>13 DEF Handle, Flush, Process, Shape, Sorts
    <2> QED
      BY <2>1, <2>2, <2>3, StillSwept DEF Awake, Serving
  <1>14. CASE UNCHANGED vars
    BY <1>14, StillSwept DEF vars, threadVars, taskVars, Awake
  <1> QED
    BY <1>1, <1>2, <1>3, <1>4, <1>5, <1>6, <1>7, <1>8, <1>9, <1>10, <1>11, <1>12, <1>13, <1>14,
       Zenon DEF Next, Sends, Waits, Runs

LEMMA ShapeKept == Spec => []Shape
  BY InitShape, NextShape, PTL DEF Spec

(* The multi-mailbox task loses no trigger, for any number of links and       *)
(* priorities: a thread that puts one after the task has looked will post.   *)
THEOREM TriggersKept == Spec => []SleepJustified
  <1>1. Swept => SleepJustified
    BY DEF Swept, SleepJustified, Awake
  <1> QED
    BY <1>1, InitSwept, NextSwept, ShapeKept, PTL DEF Spec

-----------------------------------------------------------------------------
(* Each message that asks for an acknowledgement is in one place.            *)

Answers == \A k \in Slots : \A i \in DOMAIN ackQue[k] : ackQue[k][i].from \in Controllers

LEMMA InitPlaced == Init => Placed
  <1> SUFFICES ASSUME Init PROVE Placed
    OBVIOUS
  <1>1. ASSUME NEW c \in Controllers, NEW l \in Links PROVE At(c, 0, l, Multi, 0)
    BY MessageIs DEF Init, At, InMbx, InHand, InAck, Asks
  <1>2. \E l \in Links : TRUE
    BY MbxAssumption, Kinds
  <1>3. ASSUME NEW c \in Controllers PROVE Somewhere(c)
    <2>1. PICK l \in Links : TRUE
      BY <1>2
    <2>2. At(c, 0, l, Multi, 0) /\ ~Awaited(c)
      BY <1>1 DEF Init, Awaited
    <2> QED
      BY <2>2, Kinds DEF Somewhere
  <1>4. Answers
    BY DEF Init, Answers
  <1> QED
    BY <1>3, <1>4 DEF Placed, Answers

(* A message stays where it is if no queue and no hand changes for it.        *)
LEMMA StillThere ==
  ASSUME NEW c \in Controllers, Somewhere(c),
         \A l \in Links, j \in Nat : InMbx(c, l, j)' <=> InMbx(c, l, j),
         \A l \in Links, j \in Nat : InMbx(c, l, j) => recvQue'[l][j] = recvQue[l][j],
         \A t \in Tasks : InHand(c, t)' <=> InHand(c, t),
         \A t \in Tasks : InHand(c, t) => hand'[t] = hand[t],
         \A k \in Slots, j \in Nat : InAck(c, k, j)' <=> InAck(c, k, j),
         Awaited(c)' <=> Awaited(c), Awaited(c) => slot'[c] = slot[c]
  PROVE  Somewhere(c)'
  <1>1. PICK n \in 0 .. 3, l \in Links, t \in Tasks, i \in Nat :
          At(c, n, l, t, i) /\ (n # 0 <=> Awaited(c))
    BY DEF Somewhere
  <1>2. n # 0 => slot'[c] = slot[c]
    BY <1>1
  <1>3. n = 1 => InMbx(c, l, i)
    BY <1>1 DEF At
  <1>4. n = 2 => InHand(c, t)
    BY <1>1 DEF At
  <1>5. At(c, n, l, t, i)'
    BY <1>1, <1>2, <1>3, <1>4 DEF At
  <1> QED
    BY <1>1, <1>5 DEF Somewhere

(* The same when nothing moves at all.                                      *)
LEMMA NothingMoved ==
  ASSUME Placed, UNCHANGED <<recvQue, ackQue, hand>>,
         \A c \in Controllers : Awaited(c)' <=> Awaited(c),
         \A c \in Controllers : Awaited(c) => slot'[c] = slot[c]
  PROVE  Placed'
  <1>1. ASSUME NEW c \in Controllers PROVE Somewhere(c)'
    <2>1. /\ \A l \in Links, j \in Nat : InMbx(c, l, j)' <=> InMbx(c, l, j)
          /\ \A l \in Links, j \in Nat : InMbx(c, l, j) => recvQue'[l][j] = recvQue[l][j]
      BY DEF InMbx, Asks
    <2>2. /\ \A t \in Tasks : InHand(c, t)' <=> InHand(c, t)
          /\ \A t \in Tasks : InHand(c, t) => hand'[t] = hand[t]
          /\ \A k \in Slots, j \in Nat : InAck(c, k, j)' <=> InAck(c, k, j)
      BY DEF InHand, InAck, Asks
    <2> QED
      BY <2>1, <2>2, StillThere DEF Placed
  <1> QED
    BY <1>1 DEF Placed

(* A step of a thread between two labels of a call that tell the same.       *)
LEMMA ThreadPlaced ==
  ASSUME Shape, Placed, NEW t \in Threads, NEW label, Goto(t, label),
         UNCHANGED <<recvQue, ackQue, hand, slot, ack>>,
         label \in Placing <=> pc[t] \in Placing
  PROVE  Placed'
  <1>1. \A c \in Controllers : pc'[c] \in Placing <=> pc[c] \in Placing
    BY Kinds DEF Goto, Shape, Sorts
  <1> QED
    BY <1>1, NothingMoved DEF Awaited

LEMMA ProducePlaced ==
  ASSUME Shape, Placed, NEW s \in Senders, NEW l \in Links, Produce(s, l)
  PROVE  Placed'
  BY ThreadPlaced, Kinds DEF Produce, taskVars, Placing

LEMMA AskPlaced ==
  ASSUME Shape, Placed, NEW c \in Controllers, NEW l \in Links, NEW a \in BOOLEAN, Ask(c, l, a)
  PROVE  Placed'
  <1>1. /\ UNCHANGED <<recvQue, ackQue, hand>> /\ pc[c] \notin Placing /\ pc'[c] \notin Placing
        /\ \A d \in Controllers : d # c => pc'[d] = pc[d] /\ slot'[d] = slot[d]
        /\ \A d \in Controllers : d # c => ack'[d] = ack[d]
    BY Kinds DEF Ask, Goto, taskVars, Shape, Sorts, Placing
  <1>2. \A d \in Controllers : Awaited(d)' <=> Awaited(d)
    BY <1>1 DEF Awaited
  <1>3. \A d \in Controllers : Awaited(d) => slot'[d] = slot[d]
    BY <1>1 DEF Awaited
  <1> QED
    BY <1>1, <1>2, <1>3, NothingMoved

LEMMA AllocPlaced == ASSUME Shape, Placed, NEW t \in Threads, Alloc(t) PROVE Placed'
  BY ThreadPlaced DEF Alloc, taskVars, Placing

LEMMA TriggerPlaced == ASSUME Shape, Placed, NEW t \in Threads, Trigger(t) PROVE Placed'
  BY ThreadPlaced DEF Trigger, taskVars, Placing

LEMMA PostPlaced == ASSUME Shape, Placed, NEW t \in Threads, Post(t) PROVE Placed'
  <1>1. /\ UNCHANGED <<recvQue, ackQue, hand, slot, ack>> /\ pc[t] = "post"
        /\ \A c \in Controllers : pc'[c] = IF c = t THEN "sent" ELSE pc[c]
    BY Kinds DEF Post, Goto, taskVars, Shape, Sorts
  <1>2. \A c \in Controllers : Awaited(c)' <=> Awaited(c)
    BY <1>1 DEF Awaited, Placing
  <1> QED
    BY <1>1, <1>2, NothingMoved

LEMMA ReleasePlaced == ASSUME Shape, Placed, NEW c \in Controllers, Release(c) PROVE Placed'
  <1>1. /\ UNCHANGED <<recvQue, ackQue, hand>> /\ ~Awaited(c) /\ pc'[c] \notin Placing
        /\ \A d \in Controllers : d # c => pc'[d] = pc[d] /\ slot'[d] = slot[d]
        /\ \A d \in Controllers : d # c => ack'[d] = ack[d]
    BY Kinds DEF Release, Goto, taskVars, Shape, Sorts, Placing, Awaited
  <1>2. \A d \in Controllers : Awaited(d)' <=> Awaited(d)
    BY <1>1 DEF Awaited
  <1>3. \A d \in Controllers : Awaited(d) => slot'[d] = slot[d]
    BY <1>1
  <1> QED
    BY <1>1, <1>2, <1>3, NothingMoved

LEMMA PutPlaced == ASSUME Shape, Placed, NEW t \in Threads, Put(t) PROVE Placed'
  <1>0. PICK l \in Links : l = to[t]
    BY DEF Put, Shape, Calls
  <1> DEFINE q == recvQue[l]
  <1>e. PICK e \in Nat : e = Len(q) + 1
    BY LenProperties DEF Shape, Sorts
  <1>1. /\ pc[t] = "put" /\ l \in Links /\ UNCHANGED <<ackQue, slot, ack, hand>>
        /\ recvQue' = [recvQue EXCEPT ![l] = Append(q, Sent(t))]
        /\ \A c \in Controllers : c # t => pc'[c] = pc[c]
        /\ t \in Controllers => pc'[t] \in Placing
    BY <1>0, Kinds DEF Put, Sent, Goto, Shape, Calls, Sorts, taskVars, Placing
  <1>2. /\ Sent(t) \in Messages
        /\ Sent(t).slot # 0 => Sent(t).slot = slot[t]
        /\ \A c \in Controllers : Asks(c, Sent(t)) <=> (c = t /\ ack[c])
    <2>1. t \in Controllers => slot[t] # 0
      BY <1>1, Kinds DEF Shape, Owned, Kept
    <2> QED
      BY <2>1, SentIs
  <1>3. q \in Seq(Messages) /\ recvQue \in [Links -> Seq(Messages)]
    BY <1>1 DEF Shape, Sorts
  <1>4. /\ e \in Nat /\ e \notin DOMAIN q
        /\ \A j \in Nat : j \in DOMAIN Append(q, Sent(t)) <=> (j \in DOMAIN q \/ j = e)
        /\ \A j \in DOMAIN q : Append(q, Sent(t))[j] = q[j]
        /\ Append(q, Sent(t))[e] = Sent(t)
    BY <1>2, <1>3, <1>e, LastOf
  <1>5. recvQue'[l] = Append(q, Sent(t)) /\ \A m \in Links : m # l => recvQue'[m] = recvQue[m]
    BY <1>1, <1>3
  <1> HIDE DEF q
  <1>6. ASSUME NEW c \in Controllers
        PROVE  \A m \in Links, j \in Nat :
                 InMbx(c, m, j)' <=> InMbx(c, m, j) \/ (m = l /\ j = e /\ c = t /\ ack[c])
    <2>1. \A j \in Nat : InMbx(c, l, j)' <=> InMbx(c, l, j) \/ (j = e /\ c = t /\ ack[c])
      BY <1>1, <1>2, <1>4, <1>5 DEF InMbx, q, Asks
    <2>2. \A m \in Links, j \in Nat : m # l => (InMbx(c, m, j)' <=> InMbx(c, m, j))
      BY <1>5 DEF InMbx, Asks
    <2> QED
      BY <2>1, <2>2
  <1>7. ASSUME NEW c \in Controllers
        PROVE  \A m \in Links, j \in Nat : InMbx(c, m, j) => recvQue'[m][j] = recvQue[m][j]
    BY <1>4, <1>5 DEF InMbx, q
  <1>8. ASSUME NEW c \in Controllers
        PROVE  /\ \A u \in Tasks : InHand(c, u)' <=> InHand(c, u)
               /\ \A u \in Tasks : InHand(c, u) => hand'[u] = hand[u]
               /\ \A k \in Slots, j \in Nat : InAck(c, k, j)' <=> InAck(c, k, j)
    BY <1>1 DEF InHand, InAck, Asks
  <1>9. ASSUME NEW c \in Controllers, c # t \/ ~ack[c] PROVE Somewhere(c)'
    <2>1. Awaited(c)' <=> Awaited(c)
      BY <1>1, <1>9 DEF Awaited
    <2>2. \A m \in Links, j \in Nat : InMbx(c, m, j)' <=> InMbx(c, m, j)
      BY <1>6, <1>9
    <2> QED
      BY <1>1, <1>7, <1>8, <2>1, <2>2, StillThere DEF Placed
  <1>10. ASSUME t \in Controllers, ack[t] PROVE Somewhere(t)'
    <2>1. PICK n \in 0 .. 3, m \in Links, u \in Tasks, i \in Nat :
            At(t, n, m, u, i) /\ (n # 0 <=> Awaited(t))
      BY <1>10 DEF Placed, Somewhere
    <2>2. n = 0
      BY <1>1, <2>1 DEF Awaited, Placing
    <2>3. At(t, 1, l, u, e)'
      <3>1. \A w \in Links, j \in Nat : InMbx(t, w, j)' <=> (w = l /\ j = e)
        BY <1>6, <1>10, <2>1, <2>2 DEF At
      <3>2. /\ \A w \in Tasks : ~InHand(t, w)'
            /\ \A k \in Slots, j \in Nat : ~InAck(t, k, j)'
        BY <1>8, <1>10, <2>1, <2>2 DEF At
      <3>3. recvQue'[l][e].slot = slot'[t]
        BY <1>1, <1>2, <1>4, <1>5, <1>10 DEF Asks
      <3> QED
        BY <3>1, <3>2, <3>3 DEF At
    <2>4. Awaited(t)'
      BY <1>1, <1>10 DEF Awaited
    <2> QED
      BY <1>1, <1>4, <2>3, <2>4 DEF Somewhere
  <1> QED
    BY <1>1, <1>9, <1>10 DEF Placed

(* The acknowledgement a controller finds in its ack queue is its own.       *)
LEMMA AckIsOwn ==
  ASSUME Shape, Placed, NEW c \in Controllers, GetAck(c)
  PROVE  /\ slot[c] \in Slots /\ ackQue[slot[c]] # << >> /\ ackQue[slot[c]] \in Seq(Messages)
         /\ Head(ackQue[slot[c]]).from = c /\ InAck(c, slot[c], 1)
  <1>1. slot[c] \in Slots /\ ackQue[slot[c]] # << >> /\ ackQue[slot[c]] \in Seq(Messages)
    BY Kinds DEF GetAck, Shape, Owned, Kept, Sorts, Slots
  <1>2. /\ Head(ackQue[slot[c]]) = ackQue[slot[c]][1] /\ 1 \in DOMAIN ackQue[slot[c]]
    BY <1>1, FirstOf
  <1>3. PICK d \in Controllers : d = ackQue[slot[c]][1].from
    BY <1>1, <1>2 DEF Placed
  <1>4. InAck(d, slot[c], 1)
    BY <1>2, <1>3 DEF InAck
  <1>5. slot[d] = slot[c]
    BY <1>1, <1>4 DEF Placed, Somewhere, At
  <1>6. c = d
    BY <1>1, <1>5 DEF Shape, Owned, Alone, Slots
  <1> QED
    BY <1>1, <1>2, <1>3, <1>4, <1>6

LEMMA GetAckPlaced == ASSUME Shape, Placed, NEW c \in Controllers, GetAck(c) PROVE Placed'
  <1>0. PICK k \in Slots : k = slot[c]
    BY AckIsOwn
  <1> DEFINE q == ackQue[k]
  <1>1. /\ q # << >> /\ q \in Seq(Messages) /\ InAck(c, k, 1)
        /\ ackQue' = [ackQue EXCEPT ![k] = Tail(q)] /\ pc' = [pc EXCEPT ![c] = "acked"]
        /\ UNCHANGED <<recvQue, hand, slot, ack>>
    BY <1>0, AckIsOwn, Kinds DEF GetAck, Goto, taskVars
  <1>2. /\ \A j \in Nat : j \in DOMAIN Tail(q) <=> (j # 0 /\ j + 1 \in DOMAIN q)
        /\ \A j \in DOMAIN Tail(q) : Tail(q)[j] = q[j + 1]
    BY <1>1, FirstOf
  <1>3. ackQue'[k] = Tail(q) /\ \A m \in Slots : m # k => ackQue'[m] = ackQue[m]
    BY <1>1 DEF Shape, Sorts
  <1>4. pc'[c] = "acked" /\ \A d \in Controllers : d # c => pc'[d] = pc[d]
    BY <1>1, Kinds DEF Shape, Sorts
  <1> HIDE DEF q
  <1>5. ASSUME NEW d \in Controllers
        PROVE  /\ \A u \in Tasks : InHand(d, u)' <=> InHand(d, u)
               /\ \A m \in Links, j \in Nat : InMbx(d, m, j)' <=> InMbx(d, m, j)
    BY <1>1 DEF InHand, InMbx, Asks
  <1>6. ASSUME NEW d \in Controllers
        PROVE  \A m \in Slots, j \in Nat :
                 InAck(d, m, j)' <=> IF m = k THEN j # 0 /\ InAck(d, k, j + 1) ELSE InAck(d, m, j)
    BY <1>2, <1>3 DEF InAck, q
  <1>7. PICK n \in 0 .. 3, l \in Links, u \in Tasks, i \in Nat :
          At(c, n, l, u, i) /\ (n # 0 <=> Awaited(c))
    BY DEF Placed, Somewhere
  <1>8. n = 3 /\ i = 1
    BY <1>1, <1>7 DEF At
  <1>9. Somewhere(c)'
    <2>1. \A m \in Slots, j \in Nat : ~InAck(c, m, j)'
      BY <1>0, <1>6, <1>7, <1>8 DEF At
    <2>2. At(c, 0, l, u, i)'
      BY <1>5, <1>7, <1>8, <2>1 DEF At
    <2>3. ~Awaited(c)'
      BY <1>4 DEF Awaited, Placing
    <2> QED
      BY <2>2, <2>3 DEF Somewhere
  <1>10. ASSUME NEW d \in Controllers, d # c PROVE Somewhere(d)'
    <2>1. \A j \in Nat : ~InAck(d, k, j)
      <3>1. slot[d] # slot[c]
        BY <1>0, <1>10 DEF Shape, Owned, Alone, Slots
      <3> QED
        BY <1>0, <3>1 DEF Placed, Somewhere, At
    <2>2. \A m \in Slots, j \in Nat : InAck(d, m, j)' <=> InAck(d, m, j)
      BY <1>6, <2>1
    <2>3. (Awaited(d)' <=> Awaited(d)) /\ slot'[d] = slot[d]
      BY <1>1, <1>4, <1>10 DEF Awaited
    <2>4. /\ \A m \in Links, j \in Nat : InMbx(d, m, j) => recvQue'[m][j] = recvQue[m][j]
          /\ \A t \in Tasks : InHand(d, t) => hand'[t] = hand[t]
      BY <1>1
    <2> QED
      BY <1>5, <2>2, <2>3, <2>4, StillThere DEF Placed
  <1>11. Answers'
    <2> SUFFICES ASSUME NEW m \in Slots, NEW j \in DOMAIN ackQue'[m]
                 PROVE  ackQue'[m][j].from \in Controllers
      BY DEF Answers
    <2>1. CASE m # k
      BY <1>3, <2>1 DEF Placed
    <2>2. CASE m = k
      <3>1. j \in DOMAIN Tail(q) /\ j \in Nat /\ Tail(q) \in Seq(Messages)
        <4>1. Tail(q) \in Seq(Messages)
          BY <1>1, FirstOf
        <4> QED
          BY <1>3, <2>2, <4>1, ElementOf
      <3>2. j + 1 \in DOMAIN ackQue[k] /\ ackQue'[k][j] = ackQue[k][j + 1]
        BY <1>2, <1>3, <3>1 DEF q
      <3> QED
        BY <2>2, <3>2 DEF Placed
    <2> QED
      BY <2>1, <2>2
  <1> QED
    BY <1>9, <1>10, <1>11 DEF Placed, Answers

(* The head of the mailbox of l leaves it.                                  *)
LEMMA TakenFrom ==
  ASSUME Shape, NEW l \in Links, recvQue[l] # << >>,
         recvQue' = [recvQue EXCEPT ![l] = Tail(@)], NEW c \in Controllers
  PROVE  /\ Head(recvQue[l]) \in Messages /\ Head(recvQue[l]) = recvQue[l][1]
         /\ InMbx(c, l, 1) <=> Asks(c, Head(recvQue[l]))
         /\ \A m \in Links, j \in Nat :
              InMbx(c, m, j)' <=> IF m = l THEN j # 0 /\ InMbx(c, l, j + 1) ELSE InMbx(c, m, j)
         /\ \A m \in Links, j \in Nat :
              InMbx(c, m, j)' => recvQue'[m][j] = recvQue[m][IF m = l THEN j + 1 ELSE j]
  <1> DEFINE q == recvQue[l]
  <1>1. q \in Seq(Messages) /\ q # << >>
    BY DEF Shape, Sorts
  <1>2. /\ Head(q) \in Messages /\ Head(q) = q[1] /\ 1 \in DOMAIN q
        /\ \A j \in Nat : j \in DOMAIN Tail(q) <=> (j # 0 /\ j + 1 \in DOMAIN q)
        /\ \A j \in DOMAIN Tail(q) : Tail(q)[j] = q[j + 1]
    BY <1>1, FirstOf
  <1>3. recvQue'[l] = Tail(q) /\ \A m \in Links : m # l => recvQue'[m] = recvQue[m]
    BY DEF Shape, Sorts
  <1> HIDE DEF q
  <1>4. \A m \in Links, j \in Nat :
          InMbx(c, m, j)' <=> IF m = l THEN j # 0 /\ InMbx(c, l, j + 1) ELSE InMbx(c, m, j)
    BY <1>2, <1>3 DEF InMbx, Asks, q
  <1>5. \A m \in Links, j \in Nat :
          InMbx(c, m, j)' => recvQue'[m][j] = recvQue[m][IF m = l THEN j + 1 ELSE j]
    BY <1>2, <1>3 DEF InMbx, q
  <1>6. InMbx(c, l, 1) <=> Asks(c, Head(recvQue[l]))
    BY <1>2 DEF InMbx, q
  <1> QED
    BY <1>2, <1>4, <1>5, <1>6 DEF q

(* A message of c further back in a mailbox moves up.                       *)
LEMMA MovedUp ==
  ASSUME Shape, NEW l \in Links, recvQue[l] # << >>,
         recvQue' = [recvQue EXCEPT ![l] = Tail(@)], NEW c \in Controllers, Somewhere(c),
         ~Asks(c, Head(recvQue[l])), slot'[c] = slot[c], Awaited(c)' <=> Awaited(c),
         \A t \in Tasks : InHand(c, t)' <=> InHand(c, t),
         \A t \in Tasks : InHand(c, t) => hand'[t] = hand[t],
         \A k \in Slots, j \in Nat : InAck(c, k, j)' <=> InAck(c, k, j)
  PROVE  Somewhere(c)'
  <1>1. PICK n \in 0 .. 3, m \in Links, u \in Tasks, i \in Nat :
          At(c, n, m, u, i) /\ (n # 0 <=> Awaited(c))
    BY DEF Somewhere
  <1>2. /\ \A w \in Links, j \in Nat :
             InMbx(c, w, j)' <=> IF w = l THEN j # 0 /\ InMbx(c, l, j + 1) ELSE InMbx(c, w, j)
        /\ \A w \in Links, j \in Nat :
             InMbx(c, w, j)' => recvQue'[w][j] = recvQue[w][IF w = l THEN j + 1 ELSE j]
        /\ ~InMbx(c, l, 1)
    BY TakenFrom
  <1>3. CASE n = 1 /\ m = l
    <2>1. InMbx(c, l, i) /\ i # 0 /\ i # 1
      <3>1. InMbx(c, l, i)
        BY <1>1, <1>3 DEF At
      <3>2. i \in DOMAIN recvQue[l] /\ recvQue[l] \in Seq(Messages)
        BY <3>1 DEF InMbx, Shape, Sorts
      <3>3. i # 0
        BY <3>2, ElementOf
      <3> QED
        BY <1>2, <3>1, <3>3
    <2>2. PICK h \in Nat : i = h + 1 /\ h # 0
      <3>1. i - 1 \in Nat /\ i = (i - 1) + 1 /\ i - 1 # 0
        BY <2>1
      <3> QED
        BY <3>1
    <2>3. \A w \in Links, j \in Nat : InMbx(c, w, j)' <=> (w = l /\ j = h)
      BY <1>1, <1>2, <1>3, <2>2 DEF At
    <2>4. recvQue'[l][h].slot = slot'[c]
      BY <1>1, <1>2, <1>3, <2>2, <2>3 DEF At
    <2>5. At(c, 1, l, u, h)'
      <3>1. \A w \in Tasks : InHand(c, w)' <=> (1 = 2 /\ w = u)
        BY <1>1, <1>3 DEF At
      <3>2. \A k \in Slots, j \in Nat : InAck(c, k, j)' <=> (1 = 3 /\ k = slot'[c] /\ j = h)
        BY <1>1, <1>3 DEF At
      <3>3. 1 = 2 => hand'[u].slot = slot'[c]
        OBVIOUS
      <3>4. \A w \in Links, j \in Nat : InMbx(c, w, j)' <=> (1 = 1 /\ w = l /\ j = h)
        BY <2>3
      <3> QED
        BY <2>4, <3>1, <3>2, <3>3, <3>4, Zenon DEF At
    <2> QED
      BY <1>1, <1>3, <2>5 DEF Somewhere
  <1>4. CASE ~(n = 1 /\ m = l)
    <2>1. \A j \in Nat : ~InMbx(c, l, j)
      BY <1>1, <1>4 DEF At
    <2>2. \A w \in Links, j \in Nat : InMbx(c, w, j)' <=> InMbx(c, w, j)
      BY <1>2, <2>1
    <2>3. \A w \in Links, j \in Nat : InMbx(c, w, j) => recvQue'[w][j] = recvQue[w][j]
      BY <1>2, <2>1, <2>2
    <2> QED
      BY <2>2, <2>3, StillThere
  <1> QED
    BY <1>3, <1>4

LEMMA ReceivePlaced ==
  ASSUME Shape, Placed, NEW t \in Tasks, tpc[t] # "handle", NEW l \in Links,
         recvQue[l] # << >>, Receive(t, l), UNCHANGED <<ackQue, slot, ack, pc>>
  PROVE  Placed'
  <1>1. /\ recvQue' = [recvQue EXCEPT ![l] = Tail(@)] /\ hand'[t] = Head(recvQue[l])
        /\ \A u \in Tasks : u # t => hand'[u] = hand[u]
    BY DEF Receive, Shape, Sorts
  <1>2. \A c \in Controllers : ~InHand(c, t)
    BY MessageIs DEF InHand, Asks, Shape, Calls
  <1>3. ASSUME NEW c \in Controllers
        PROVE  /\ Awaited(c)' <=> Awaited(c)
               /\ \A k \in Slots, j \in Nat : InAck(c, k, j)' <=> InAck(c, k, j)
               /\ \A u \in Tasks : InHand(c, u)' <=> IF u = t THEN Asks(c, Head(recvQue[l]))
                                                             ELSE InHand(c, u)
    BY <1>1 DEF Awaited, InAck, InHand, Asks
  <1>4. ASSUME NEW c \in Controllers, ~Asks(c, Head(recvQue[l])) PROVE Somewhere(c)'
    <2>1. /\ \A u \in Tasks : InHand(c, u)' <=> InHand(c, u)
          /\ \A u \in Tasks : InHand(c, u) => hand'[u] = hand[u]
      BY <1>1, <1>2, <1>3, <1>4
    <2>2. slot'[c] = slot[c] /\ Somewhere(c)
      BY DEF Placed
    <2> QED
      BY <1>1, <1>3, <1>4, <2>1, <2>2, MovedUp
  <1>5. ASSUME NEW c \in Controllers, Asks(c, Head(recvQue[l])) PROVE Somewhere(c)'
    <2>1. PICK n \in 0 .. 3, m \in Links, u \in Tasks, i \in Nat :
            At(c, n, m, u, i) /\ (n # 0 <=> Awaited(c))
      BY DEF Placed, Somewhere
    <2>2. /\ InMbx(c, l, 1) /\ Head(recvQue[l]) = recvQue[l][1]
          /\ \A w \in Links, j \in Nat :
               InMbx(c, w, j)' <=> IF w = l THEN j # 0 /\ InMbx(c, l, j + 1) ELSE InMbx(c, w, j)
      BY <1>1, <1>5, TakenFrom
    <2>3. n = 1 /\ m = l /\ i = 1
      BY <2>1, <2>2 DEF At
    <2>4. \A w \in Links, j \in Nat : ~InMbx(c, w, j)'
      BY <2>1, <2>2, <2>3 DEF At
    <2>5. \A w \in Tasks : InHand(c, w)' <=> w = t
      BY <1>3, <1>5, <2>1, <2>3 DEF At
    <2>6. \A k \in Slots, j \in Nat : ~InAck(c, k, j)'
      BY <1>3, <2>1, <2>3 DEF At
    <2>7. hand'[t].slot = slot'[c]
      BY <1>1, <2>1, <2>2, <2>3 DEF At
    <2>8. At(c, 2, l, t, 1)'
      BY <2>4, <2>5, <2>6, <2>7 DEF At
    <2> QED
      BY <1>3, <2>1, <2>3, <2>8 DEF Somewhere
  <1> QED
    BY <1>4, <1>5 DEF Placed

LEMMA OwnReceivePlaced == ASSUME Shape, Placed, NEW l \in Tasks, OwnReceive(l) PROVE Placed'
  <1>1. /\ l \in Links /\ tpc[l] = "wait" /\ recvQue[l] # << >> /\ Receive(l, l)
        /\ UNCHANGED <<ackQue, slot, ack, pc>>
    BY Kinds DEF OwnReceive, threadVars
  <1> QED
    BY <1>1, ReceivePlaced

LEMMA MultiTakePlaced == ASSUME Shape, Placed, MultiTake PROVE Placed'
  <1>1. PICK l \in Links : l = Head(trigger[pri])
    <2>1. trigger[pri] \in Seq(Sharing) /\ trigger[pri] # << >>
      BY DEF MultiTake, Shape, Sorts
    <2> QED
      BY <2>1, FirstOf, Kinds
  <1>2. tpc[Multi] = "scan" /\ UNCHANGED <<ackQue, slot, ack, pc>>
    BY DEF MultiTake, threadVars
  <1>3. CASE recvQue[l] = << >>
    <2>1. UNCHANGED <<recvQue, hand>>
      BY <1>1, <1>3 DEF MultiTake
    <2> QED
      BY <1>2, <2>1, NothingMoved DEF Awaited
  <1>4. CASE recvQue[l] # << >>
    <2>1. Receive(Multi, l)
      BY <1>1, <1>4 DEF MultiTake
    <2> QED
      BY <1>2, <1>4, <2>1, Kinds, ReceivePlaced
  <1> QED
    BY <1>3, <1>4

LEMMA HandlePlaced == ASSUME Shape, Placed, NEW t \in Tasks, Handle(t) PROVE Placed'
  <1>1. /\ tpc[t] = "handle" /\ AckOrFree(hand[t]) /\ hand' = [hand EXCEPT ![t] = NoMsg]
        /\ UNCHANGED <<recvQue, slot, ack, pc>>
    BY DEF Handle, threadVars
  <1>2. /\ hand'[t] = NoMsg /\ hand[t] \in Messages \cup {NoMsg}
        /\ \A u \in Tasks : u # t => hand'[u] = hand[u]
    BY <1>1 DEF Shape, Sorts
  <1>3. ASSUME NEW c \in Controllers
        PROVE  /\ Awaited(c)' <=> Awaited(c)
               /\ \A m \in Links, j \in Nat : InMbx(c, m, j)' <=> InMbx(c, m, j)
               /\ \A u \in Tasks : InHand(c, u)' <=> (u # t /\ InHand(c, u))
    BY <1>1, <1>2, MessageIs DEF Awaited, InMbx, InHand, Asks
  <1>4. CASE hand[t].slot = 0
    <2>1. ackQue' = ackQue
      BY <1>1, <1>4 DEF AckOrFree
    <2>2. ASSUME NEW c \in Controllers PROVE Somewhere(c)'
      <3>1. ~InHand(c, t)
        BY <1>4 DEF InHand, Asks
      <3>2. /\ \A u \in Tasks : InHand(c, u)' <=> InHand(c, u)
            /\ \A u \in Tasks : InHand(c, u) => hand'[u] = hand[u]
            /\ \A k \in Slots, j \in Nat : InAck(c, k, j)' <=> InAck(c, k, j)
            /\ \A m \in Links, j \in Nat : InMbx(c, m, j) => recvQue'[m][j] = recvQue[m][j]
            /\ slot'[c] = slot[c] /\ Somewhere(c)
        BY <1>1, <1>2, <1>3, <2>1, <3>1 DEF InAck, Placed
      <3> QED
        BY <1>3, <3>2, StillThere
    <2> QED
      BY <2>1, <2>2 DEF Placed
  <1>5. CASE hand[t].slot # 0
    <2>1. PICK d \in Controllers : d = hand[t].from
      BY <1>2, <1>5, MessageIs
    <2>2. PICK k \in Slots : k = hand[t].slot
      BY <1>2, <1>5, MessageIs
    <2> DEFINE q == ackQue[k]
    <2>3. PICK e \in Nat : e = Len(q) + 1
      BY LenProperties DEF Shape, Sorts
    <2>4. /\ q \in Seq(Messages) /\ hand[t] \in Messages
          /\ ackQue' = [ackQue EXCEPT ![k] = Append(q, hand[t])]
      BY <1>1, <1>2, <1>5, <2>2, MessageIs DEF AckOrFree, Shape, Sorts
    <2>5. /\ e \notin DOMAIN q
          /\ \A j \in Nat : j \in DOMAIN Append(q, hand[t]) <=> (j \in DOMAIN q \/ j = e)
          /\ \A j \in DOMAIN q : Append(q, hand[t])[j] = q[j]
          /\ Append(q, hand[t])[e] = hand[t] /\ Append(q, hand[t]) \in Seq(Messages)
      BY <2>3, <2>4, LastOf
    <2>6. ackQue'[k] = Append(q, hand[t]) /\ \A m \in Slots : m # k => ackQue'[m] = ackQue[m]
      BY <2>4 DEF Shape, Sorts
    <2> HIDE DEF q
    <2>7. ASSUME NEW c \in Controllers
          PROVE  \A m \in Slots, j \in Nat :
                   InAck(c, m, j)' <=> InAck(c, m, j) \/ (m = k /\ j = e /\ c = d)
      BY <2>1, <2>5, <2>6 DEF InAck, q
    <2>8. InHand(d, t)
      BY <1>5, <2>1 DEF InHand, Asks
    <2>9. ASSUME NEW c \in Controllers, c # d PROVE Somewhere(c)'
      <3>1. ~InHand(c, t)
        BY <2>1, <2>9 DEF InHand, Asks
      <3>2. \A m \in Slots, j \in Nat : InAck(c, m, j)' <=> InAck(c, m, j)
        BY <2>7, <2>9
      <3>3. /\ \A u \in Tasks : InHand(c, u)' <=> InHand(c, u)
            /\ \A u \in Tasks : InHand(c, u) => hand'[u] = hand[u]
            /\ \A m \in Links, j \in Nat : InMbx(c, m, j) => recvQue'[m][j] = recvQue[m][j]
            /\ slot'[c] = slot[c] /\ Somewhere(c)
        BY <1>1, <1>2, <1>3, <3>1 DEF Placed
      <3> QED
        BY <1>3, <3>2, <3>3, StillThere
    <2>10. Somewhere(d)'
      <3>1. PICK n \in 0 .. 3, m \in Links, u \in Tasks, i \in Nat :
              At(d, n, m, u, i) /\ (n # 0 <=> Awaited(d))
        BY DEF Placed, Somewhere
      <3>2. n = 2 /\ u = t /\ slot[d] = k
        BY <2>2, <2>8, <3>1 DEF At
      <3>3. /\ \A w \in Links, j \in Nat : ~InMbx(d, w, j)'
            /\ \A w \in Tasks : ~InHand(d, w)'
        BY <1>3, <3>1, <3>2 DEF At
      <3>4. \A w \in Slots, j \in Nat : InAck(d, w, j)' <=> (w = slot'[d] /\ j = e)
        <4>1. \A w \in Slots, j \in Nat : ~InAck(d, w, j)
          BY <3>1, <3>2 DEF At
        <4>2. slot'[d] = k
          BY <1>1, <3>2
        <4> QED
          BY <2>7, <4>1, <4>2
      <3>5. At(d, 3, m, u, e)'
        BY <3>3, <3>4 DEF At
      <3> QED
        BY <1>3, <3>1, <3>2, <3>5 DEF Somewhere
    <2>11. Answers'
      <3> SUFFICES ASSUME NEW m \in Slots, NEW j \in DOMAIN ackQue'[m]
                   PROVE  ackQue'[m][j].from \in Controllers
        BY DEF Answers
      <3>1. CASE m # k
        BY <2>6, <3>1 DEF Placed
      <3>2. CASE m = k
        <4>1. j \in Nat
          BY <2>5, <2>6, <3>2, ElementOf
        <4>2. CASE j \in DOMAIN ackQue[k]
          BY <2>5, <2>6, <3>2, <4>2 DEF Placed, q
        <4>3. CASE j = e
          BY <2>1, <2>5, <2>6, <3>2, <4>3
        <4> QED
          BY <2>5, <2>6, <3>2, <4>1, <4>2, <4>3 DEF q
      <3> QED
        BY <3>1, <3>2
    <2> QED
      BY <2>9, <2>10, <2>11 DEF Placed, Answers
  <1> QED
    BY <1>4, <1>5

LEMMA FlushPlaced == ASSUME Shape, Placed, NEW t \in Tasks, Flush(t) PROVE Placed'
  <1>1. PICK l \in Links : l = cur[t]
    BY DEF Flush, Shape, Calls, Serving
  <1>2. UNCHANGED <<hand, slot, ack, pc>>
    BY DEF Flush, threadVars
  <1>3. CASE recvQue[l] # << >> /\ Head(recvQue[l]).cmd = "NEW_DATA"
    <2>1. recvQue' = [recvQue EXCEPT ![l] = Tail(@)] /\ AckOrFree(Head(recvQue[l]))
      BY <1>1, <1>3 DEF Flush
    <2>2. Head(recvQue[l]).slot = 0
      <3>1. Head(recvQue[l]) \in Messages
        BY <1>3, FirstOf DEF Shape, Sorts
      <3> QED
        BY <1>3, <3>1, MessageIs
    <2>3. ackQue' = ackQue
      BY <2>1, <2>2 DEF AckOrFree
    <2>4. ASSUME NEW c \in Controllers PROVE Somewhere(c)'
      <3>1. /\ ~Asks(c, Head(recvQue[l])) /\ slot'[c] = slot[c] /\ Somewhere(c)
            /\ Awaited(c)' <=> Awaited(c)
        BY <1>2, <2>2 DEF Asks, Awaited, Placed
      <3>2. /\ \A u \in Tasks : InHand(c, u)' <=> InHand(c, u)
            /\ \A u \in Tasks : InHand(c, u) => hand'[u] = hand[u]
            /\ \A k \in Slots, j \in Nat : InAck(c, k, j)' <=> InAck(c, k, j)
        BY <1>2, <2>3 DEF InHand, InAck
      <3> QED
        BY <1>3, <2>1, <3>1, <3>2, MovedUp
    <2> QED
      BY <2>3, <2>4 DEF Placed
  <1>4. CASE ~(recvQue[l] # << >> /\ Head(recvQue[l]).cmd = "NEW_DATA")
    <2>1. UNCHANGED <<recvQue, ackQue>>
      BY <1>1, <1>4 DEF Flush
    <2> QED
      BY <1>2, <2>1, NothingMoved DEF Awaited
  <1> QED
    BY <1>3, <1>4

LEMMA NextPlaced == Shape /\ Placed /\ [Next]_vars => Placed'
  <1> SUFFICES ASSUME Shape, Placed, [Next]_vars PROVE Placed'
    OBVIOUS
  <1>1. CASE MultiWake \/ MultiNext \/ \E t \in Tasks : Process(t)
    <2>1. UNCHANGED <<recvQue, ackQue, hand, slot, ack, pc>>
      BY <1>1 DEF MultiWake, MultiNext, Process, threadVars
    <2> QED
      BY <2>1, NothingMoved DEF Awaited
  <1>2. CASE UNCHANGED vars
    BY <1>2, NothingMoved DEF vars, threadVars, taskVars, Awaited
  <1> QED
    BY <1>1, <1>2, ProducePlaced, AskPlaced, AllocPlaced, PutPlaced, TriggerPlaced, PostPlaced,
       GetAckPlaced, ReleasePlaced, OwnReceivePlaced, MultiTakePlaced, HandlePlaced, FlushPlaced,
       Zenon DEF Next, Sends, Waits, Runs

(* An acknowledgement reaches the controller that waits for it and no other,  *)
(* however many controllers share however few ack queues.                   *)
THEOREM AcksExpected == Spec => []AckExpected
  <1>1. ASSUME Shape, Placed PROVE AckExpected
    <2> SUFFICES ASSUME NEW k \in Slots, NEW i \in DOMAIN ackQue[k], NEW c, c = ackQue[k][i].from
                 PROVE  slot[c] = k /\ inUse[k] /\ ack[c] /\ pc[c] \in {"trigger", "post", "sent"}
      BY DEF AckExpected
    <2>1. c \in Controllers
      BY <1>1 DEF Placed
    <2>2. i \in Nat /\ InAck(c, k, i)
      <3>1. ackQue[k] \in Seq(Messages)
        BY <1>1 DEF Shape, Sorts
      <3> QED
        BY <3>1, ElementOf DEF InAck
    <2>3. PICK n \in 0 .. 3, l \in Links, t \in Tasks, j \in Nat :
            At(c, n, l, t, j) /\ (n # 0 <=> Awaited(c))
      BY <1>1, <2>1 DEF Placed, Somewhere
    <2>4. n = 3 /\ k = slot[c] /\ Awaited(c)
      BY <2>2, <2>3 DEF At
    <2>5. inUse[k]
      <3>1. slot[c] # 0
        <4>1. k # 0
          BY MbxAssumption DEF Slots
        <4> QED
          BY <2>4, <4>1
      <3>2. inUse[slot[c]]
        BY <1>1, <2>1, <3>1, Zenon DEF Shape, Owned, Kept
      <3> QED
        BY <2>4, <3>2, Zenon
    <2> QED
      BY <2>4, <2>5 DEF Awaited, Placing
  <1> QED
    BY <1>1, InitPlaced, NextPlaced, ShapeKept, PTL DEF Spec

-----------------------------------------------------------------------------
(* How many elements a set of queues holds.                                 *)

(* The places of the elements, and the last place of a queue.               *)
Places(f, S) == {p \in S \X Nat : p[2] \in DOMAIN f[p[1]]}

LEMMA LeastNat ==
  ASSUME NEW S \in SUBSET Nat, S # {}
  PROVE  \E x \in S : \A y \in S : x <= y
  BY LeastOf

LEMMA PlacesOfOne ==
  ASSUME NEW M, NEW q \in Seq(M), NEW x
  PROVE  IsFiniteSet({x} \X DOMAIN q) /\ Cardinality({x} \X DOMAIN q) = Len(q)
  <1> DEFINE g == [i \in DOMAIN q |-> <<x, i>>]
  <1>1. Len(q) \in Nat /\ DOMAIN q = 1 .. Len(q)
    BY LenProperties
  <1>2. IsFiniteSet(DOMAIN q) /\ Cardinality(DOMAIN q) = Len(q)
    BY <1>1, FS_Interval
  <1>3. g \in Bijection(DOMAIN q, {x} \X DOMAIN q)
    <2>1. \A i \in DOMAIN q : g[i] \in {x} \X DOMAIN q
      OBVIOUS
    <2>2. \A i, j \in DOMAIN q : g[i] = g[j] => i = j
      OBVIOUS
    <2>3. \A p \in {x} \X DOMAIN q : p[2] \in DOMAIN q /\ g[p[2]] = p
      OBVIOUS
    <2> QED
      BY <2>1, <2>2, <2>3 DEF Bijection, Injection, Surjection, IsInjective
  <1>4. ExistsBijection(DOMAIN q, {x} \X DOMAIN q)
    BY <1>3 DEF ExistsBijection
  <1> HIDE DEF g
  <1> QED
    BY <1>2, <1>4, FS_Bijection

LEMMA PlacesMore ==
  ASSUME NEW D, NEW M, NEW f \in [D -> Seq(M)], NEW s \in SUBSET D, NEW x \in s,
         IsFiniteSet(Places(f, s \ {x}))
  PROVE  /\ IsFiniteSet(Places(f, s))
         /\ Cardinality(Places(f, s)) = Len(f[x]) + Cardinality(Places(f, s \ {x}))
  <1>1. f[x] \in Seq(M) /\ Len(f[x]) \in Nat /\ DOMAIN f[x] = 1 .. Len(f[x])
    BY LenProperties
  <1>2. Places(f, s) = ({x} \X DOMAIN f[x]) \cup Places(f, s \ {x})
    BY <1>1 DEF Places
  <1>3. ({x} \X DOMAIN f[x]) \cap Places(f, s \ {x}) = {}
    BY DEF Places
  <1>4. IsFiniteSet({x} \X DOMAIN f[x]) /\ Cardinality({x} \X DOMAIN f[x]) = Len(f[x])
    BY <1>1, PlacesOfOne
  <1>5. Cardinality(Places(f, s \ {x})) \in Nat
    BY FS_CardinalityType
  <1> HIDE DEF Places
  <1>6. PICK c, p : c = {x} \X DOMAIN f[x] /\ p = Places(f, s \ {x})
    OBVIOUS
  <1>7. IsFiniteSet(c) /\ IsFiniteSet(p) /\ c \cap p = {} /\ Places(f, s) = c \cup p
    BY <1>2, <1>3, <1>4, <1>6
  <1>8. IsFiniteSet(c \cup p)
        /\ Cardinality(c \cup p) = Cardinality(c) + Cardinality(p) - Cardinality(c \cap p)
    BY <1>7, FS_Union
  <1>9. Cardinality(c) = Len(f[x]) /\ Cardinality(p) = Cardinality(Places(f, s \ {x}))
    BY <1>4, <1>6
  <1> QED
    <2>1. Cardinality(c \cap p) = 0
      BY <1>7, FS_EmptySet
    <2>2. IsFiniteSet(Places(f, s)) /\ Cardinality(Places(f, s)) = Cardinality(c) + Cardinality(p) - 0
      BY <1>7, <1>8, <2>1
    <2> QED
      BY <1>1, <1>5, <1>9, <2>2

LEMMA Smaller ==
  ASSUME NEW S, IsFiniteSet(S), NEW s \in SUBSET S
  PROVE  /\ Cardinality(s) \in Nat
         /\ \A x \in s : /\ s \ {x} \in SUBSET S
                         /\ Cardinality(s \ {x}) \in Nat
                         /\ Cardinality(s \ {x}) < Cardinality(s)
  <1>1. IsFiniteSet(s)
    BY FS_Subset
  <1>2. Cardinality(s) \in Nat
    BY <1>1, FS_CardinalityType
  <1>3. \A x \in s : IsFiniteSet(s \ {x}) /\ Cardinality(s \ {x}) = Cardinality(s) - 1
    BY <1>1, FS_RemoveElement
  <1> QED
    BY <1>1, <1>2, <1>3, FS_CardinalityType

LEMMA PlacesFinite ==
  ASSUME NEW D, IsFiniteSet(D), NEW M, NEW f \in [D -> Seq(M)], NEW s \in SUBSET D
  PROVE  IsFiniteSet(Places(f, s))
  <1> DEFINE Bad == {n \in Nat : \E r \in SUBSET D : Cardinality(r) = n /\ ~ IsFiniteSet(Places(f, r))}
  <1>1. ASSUME Bad # {} PROVE FALSE
    <2>1. PICK n \in Bad : \A y \in Bad : n <= y
      BY <1>1, LeastNat
    <2>2. PICK r \in SUBSET D : Cardinality(r) = n /\ ~ IsFiniteSet(Places(f, r))
      BY <2>1
    <2>3. CASE r = {}
      <3>1. Places(f, r) = {}
        BY <2>3 DEF Places
      <3> QED
        BY <2>2, <3>1, FS_EmptySet
    <2>4. CASE r # {}
      <3>1. PICK x \in r : TRUE
        BY <2>4
      <3>2. r \ {x} \in SUBSET D /\ Cardinality(r \ {x}) \in Nat /\ Cardinality(r \ {x}) < n
        BY <2>2, <3>1, Smaller
      <3>3. IsFiniteSet(Places(f, r \ {x}))
        BY <2>1, <3>2
      <3> QED
        BY <2>2, <3>3, PlacesMore
    <2> QED
      BY <2>3, <2>4
  <1>2. Cardinality(s) \in Nat
    BY Smaller
  <1>3. Cardinality(s) \notin Bad
    BY <1>1
  <1> QED
    BY <1>2, <1>3

(* Total takes out one queue after the other.                               *)
Pick(s) == CHOOSE x \in s : TRUE
Unroll(f, S, g) == [s \in SUBSET S |-> IF s = {} THEN 0 ELSE Len(f[Pick(s)]) + g[s \ {Pick(s)}]]

LEMMA PickIn == ASSUME NEW s, s # {} PROVE Pick(s) \in s
  BY DEF Pick

LEMMA CountUnrolls ==
  ASSUME NEW D, IsFiniteSet(D), NEW M, NEW f \in [D -> Seq(M)]
  PROVE  \E g : g = Unroll(f, D, g)
  <1> DEFINE g == [s \in SUBSET D |-> Cardinality(Places(f, s))]
  <1>1. ASSUME NEW s \in SUBSET D
        PROVE  g[s] = IF s = {} THEN 0 ELSE Len(f[Pick(s)]) + g[s \ {Pick(s)}]
    <2>1. CASE s = {}
      <3>1. Places(f, s) = {}
        BY <2>1 DEF Places
      <3> QED
        BY <2>1, <3>1, FS_EmptySet
    <2>2. CASE s # {}
      <3>1. Pick(s) \in s /\ s \ {Pick(s)} \in SUBSET D
        BY <2>2, PickIn
      <3>2. IsFiniteSet(Places(f, s \ {Pick(s)}))
        BY <3>1, PlacesFinite
      <3> QED
        BY <2>2, <3>1, <3>2, PlacesMore
    <2> QED
      BY <2>1, <2>2
  <1>2. g = Unroll(f, D, g)
    BY <1>1 DEF Unroll
  <1> QED
    BY <1>2

LEMMA UnrollCounts ==
  ASSUME NEW D, IsFiniteSet(D), NEW M, NEW f \in [D -> Seq(M)], NEW g, g = Unroll(f, D, g),
         NEW s \in SUBSET D
  PROVE  g[s] = Cardinality(Places(f, s))
  <1> DEFINE Bad == {n \in Nat : \E r \in SUBSET D :
                                   Cardinality(r) = n /\ g[r] # Cardinality(Places(f, r))}
  <1>1. ASSUME Bad # {} PROVE FALSE
    <2>1. PICK n \in Bad : \A y \in Bad : n <= y
      BY <1>1, LeastNat
    <2>2. PICK r \in SUBSET D : Cardinality(r) = n /\ g[r] # Cardinality(Places(f, r))
      BY <2>1
    <2>3. g[r] = IF r = {} THEN 0 ELSE Len(f[Pick(r)]) + g[r \ {Pick(r)}]
      BY DEF Unroll
    <2>4. CASE r = {}
      <3>1. Places(f, r) = {}
        BY <2>4 DEF Places
      <3> QED
        BY <2>2, <2>3, <2>4, <3>1, FS_EmptySet
    <2>5. CASE r # {}
      <3>1. PICK x \in r : x = Pick(r)
        BY <2>5, PickIn
      <3>2. r \ {x} \in SUBSET D /\ Cardinality(r \ {x}) \in Nat /\ Cardinality(r \ {x}) < n
        BY <2>2, <3>1, Smaller
      <3>3. g[r \ {x}] = Cardinality(Places(f, r \ {x}))
        BY <2>1, <3>2
      <3>4. Cardinality(Places(f, r)) = Len(f[x]) + Cardinality(Places(f, r \ {x}))
        BY <3>2, PlacesFinite, PlacesMore
      <3> QED
        BY <2>2, <2>3, <2>5, <3>1, <3>3, <3>4
    <2> QED
      BY <2>4, <2>5
  <1>2. Cardinality(s) \in Nat
    BY Smaller
  <1>3. Cardinality(s) \notin Bad
    BY <1>1
  <1> QED
    BY <1>2, <1>3

(* The fold is the number of the places.                                    *)
LEMMA TotalIs ==
  ASSUME NEW D, IsFiniteSet(D), NEW M, NEW f \in [D -> Seq(M)]
  PROVE  Total(f) = Cardinality(Places(f, D)) /\ Total(f) \in Nat /\ IsFiniteSet(Places(f, D))
  <1>1. PICK h : h = Unroll(f, D, h)
    BY CountUnrolls
  <1>2. \E g : g = Unroll(f, D, g) /\ Total(f) = g[D]
    <2>1. D = DOMAIN f
      OBVIOUS
    <2>2. h = Unroll(f, DOMAIN f, h)
      BY <1>1, <2>1
    <2>3. \E g : g = Unroll(f, DOMAIN f, g) /\ Total(f) = g[DOMAIN f]
      BY <2>2 DEF Total, FoldFunction, FoldFunctionOnSet, MapThenFoldSet, Unroll, Pick
    <2> QED
      BY <2>1, <2>3
  <1>3. IsFiniteSet(Places(f, D)) /\ D \in SUBSET D
    BY PlacesFinite
  <1> QED
    BY <1>2, <1>3, UnrollCounts, FS_CardinalityType

(* An element put in a queue, or taken from one.                            *)
Grown(f, g, x, m) == g[x] = Append(f[x], m) /\ \A y \in DOMAIN f : y # x => g[y] = f[y]

LEMMA TotalPut ==
  ASSUME NEW D, IsFiniteSet(D), NEW M, NEW f \in [D -> Seq(M)], NEW x \in D, NEW m \in M,
         NEW g \in [D -> Seq(M)], Grown(f, g, x, m)
  PROVE  Total(g) = Total(f) + 1
  <1>1. f[x] \in Seq(M) /\ DOMAIN f[x] = 1 .. Len(f[x]) /\ Len(f[x]) \in Nat
    BY LenProperties
  <1>2. Append(f[x], m) \in Seq(M) /\ DOMAIN Append(f[x], m) = 1 .. Len(f[x]) + 1
    BY <1>1, AppendProperties, LenProperties
  <1>3. DOMAIN g[x] = 1 .. Len(f[x]) + 1 /\ \A y \in D : g[y] \in Seq(M)
    BY <1>2 DEF Grown
  <1>4. Places(g, D) = Places(f, D) \cup {<<x, Len(f[x]) + 1>>}
    BY <1>1, <1>3 DEF Places, Grown
  <1>5. <<x, Len(f[x]) + 1>> \notin Places(f, D)
    BY <1>1 DEF Places
  <1> HIDE DEF Places
  <1>6. Total(g) = Cardinality(Places(g, D)) /\ Total(f) = Cardinality(Places(f, D))
        /\ IsFiniteSet(Places(f, D))
    BY <1>3, TotalIs
  <1>7. Cardinality(Places(g, D)) = Cardinality(Places(f, D)) + 1
    BY <1>4, <1>5, <1>6, FS_AddElement
  <1> QED
    BY <1>6, <1>7

LEMMA TotalTake ==
  ASSUME NEW D, IsFiniteSet(D), NEW M, NEW f \in [D -> Seq(M)], NEW x \in D, f[x] # << >>
  PROVE  Total([f EXCEPT ![x] = Tail(@)]) = Total(f) - 1
  <1>1. PICK g : g = [f EXCEPT ![x] = Tail(@)]
    OBVIOUS
  <1>2. f[x] \in Seq(M) /\ DOMAIN f[x] = 1 .. Len(f[x]) /\ Len(f[x]) \in Nat \ {0}
    BY LenProperties, EmptySeq
  <1>3. Tail(f[x]) \in Seq(M) /\ DOMAIN Tail(f[x]) = 1 .. Len(f[x]) - 1
    BY <1>2, HeadTailProperties, LenProperties
  <1>4. g \in [D -> Seq(M)] /\ DOMAIN g[x] = 1 .. Len(f[x]) - 1 /\ \A y \in D : y # x => g[y] = f[y]
    BY <1>1, <1>3
  <1>5. Places(g, D) = Places(f, D) \ {<<x, Len(f[x])>>}
    BY <1>2, <1>4 DEF Places
  <1>6. <<x, Len(f[x])>> \in Places(f, D)
    BY <1>2 DEF Places
  <1> HIDE DEF Places
  <1>7. Total(g) = Cardinality(Places(g, D)) /\ Total(f) = Cardinality(Places(f, D))
        /\ IsFiniteSet(Places(f, D))
    BY <1>4, TotalIs
  <1>8. Cardinality(Places(g, D)) = Cardinality(Places(f, D)) - 1
    BY <1>5, <1>6, <1>7, FS_RemoveElement
  <1> QED
    BY <1>1, <1>7, <1>8

(* Queues that hold nothing hold no element, and one holds at most all.      *)
LEMMA TotalNone ==
  ASSUME NEW D, IsFiniteSet(D)
  PROVE  Total([x \in D |-> << >>]) = 0
  <1>1. PICK f : f = [x \in D |-> << >>]
    OBVIOUS
  <1>2. f \in [D -> Seq(Nat)] /\ \A x \in D : DOMAIN f[x] = {}
    BY <1>1, EmptySeq
  <1>3. Places(f, D) = {}
    BY <1>2 DEF Places
  <1> QED
    BY <1>1, <1>2, <1>3, TotalIs, FS_EmptySet

LEMMA TotalAtLeast ==
  ASSUME NEW D, IsFiniteSet(D), NEW M, NEW f \in [D -> Seq(M)], NEW x \in D
  PROVE  Len(f[x]) <= Total(f)
  <1>1. ({x} \X DOMAIN f[x]) \in SUBSET Places(f, D)
    <2>1. DOMAIN f[x] \subseteq Nat
      BY LenProperties
    <2> QED
      BY <2>1 DEF Places
  <1> HIDE DEF Places
  <1>2. Cardinality({x} \X DOMAIN f[x]) = Len(f[x])
    BY PlacesOfOne
  <1> QED
    BY <1>1, <1>2, TotalIs, FS_Subset

-----------------------------------------------------------------------------
(* The messages of the pool.                                                *)

Putting  == {t \in Threads : pc[t] = "put"}
Handling == {t \in Tasks : hand[t] # NoMsg}

(* A handler has a message, and no other message is made or freed.           *)
Books ==
  /\ \A t \in Tasks : tpc[t] = "handle" => hand[t] \in Messages
  /\ free \in Nat /\ MessageConserved
  /\ data \in [Links -> 0 .. MaxData] /\ refused \in [Links -> BOOLEAN]

LEMMA SetsFinite ==
  IsFiniteSet(Links) /\ IsFiniteSet(Threads) /\ IsFiniteSet(Tasks) /\ IsFiniteSet(Slots)
  <1>1. IsFiniteSet(Links) /\ IsFiniteSet(Threads)
    BY MbxAssumption
  <1>2. IsFiniteSet(Own)
    BY <1>1, Kinds, FS_Subset
  <1>3. IsFiniteSet(Tasks)
    BY <1>2, FS_AddElement DEF Tasks
  <1> QED
    BY <1>1, <1>3, FS_Interval, MbxAssumption DEF Slots

LEMMA Counted ==
  ASSUME Shape
  PROVE  /\ IsFiniteSet(Putting) /\ Cardinality(Putting) \in Nat
         /\ IsFiniteSet(Handling) /\ Cardinality(Handling) \in Nat
         /\ Total(recvQue) \in Nat /\ Total(ackQue) \in Nat
  <1>1. Putting \in SUBSET Threads /\ Handling \in SUBSET Tasks
    BY DEF Putting, Handling
  <1>2. IsFiniteSet(Putting) /\ IsFiniteSet(Handling)
    BY <1>1, SetsFinite, FS_Subset
  <1> QED
    BY <1>2, SetsFinite, FS_CardinalityType, TotalIs DEF Shape, Sorts

LEMMA ConservedIs ==
  MessageConserved <=>
    free + Cardinality(Putting) + Total(recvQue) + Cardinality(Handling) + Total(ackQue) = PoolMax
  BY DEF MessageConserved, Putting, Handling

LEMMA ConservedNext ==
  ASSUME Books,
         free' + Cardinality(Putting)' + Total(recvQue)' + Cardinality(Handling)' + Total(ackQue)'
           = free + Cardinality(Putting) + Total(recvQue) + Cardinality(Handling) + Total(ackQue)
  PROVE  MessageConserved'
  <1>1. free + Cardinality(Putting) + Total(recvQue) + Cardinality(Handling) + Total(ackQue) = PoolMax
    BY ConservedIs DEF Books
  <1>2. free' + Cardinality(Putting)' + Total(recvQue)' + Cardinality(Handling)' + Total(ackQue)'
          = PoolMax
    BY <1>1
  <1> QED
    BY <1>2 DEF MessageConserved, Putting, Handling

(* A thread that gets a message, or puts it in a mailbox.                    *)
LEMMA GotoCounted ==
  ASSUME Shape, NEW t \in Threads, NEW label \in Labels, Goto(t, label)
  PROVE  /\ pc[t] # "put" /\ label # "put" => Cardinality(Putting)' = Cardinality(Putting)
         /\ pc[t] # "put" /\ label = "put" => Cardinality(Putting)' = Cardinality(Putting) + 1
         /\ pc[t] = "put" /\ label # "put" => Cardinality(Putting)' = Cardinality(Putting) - 1
  <1>1. pc'[t] = label /\ \A u \in Threads : u # t => pc'[u] = pc[u]
    BY DEF Shape, Sorts, Goto
  <1>2. IsFiniteSet(Putting)
    BY Counted
  <1>3. pc[t] # "put" /\ label # "put" => Putting' = Putting
    BY <1>1 DEF Putting
  <1>4. pc[t] # "put" /\ label = "put" => Putting' = Putting \cup {t} /\ t \notin Putting
    BY <1>1 DEF Putting
  <1>5. pc[t] = "put" /\ label # "put" => Putting' = Putting \ {t} /\ t \in Putting
    BY <1>1 DEF Putting
  <1> QED
    BY <1>2, <1>3, <1>4, <1>5, FS_AddElement, FS_RemoveElement

(* A task that takes a message, or is done with it.                          *)
LEMMA HandCounted ==
  ASSUME Shape, NEW t \in Tasks, NEW m, hand' = [hand EXCEPT ![t] = m]
  PROVE  /\ hand[t] = NoMsg /\ m # NoMsg => Cardinality(Handling)' = Cardinality(Handling) + 1
         /\ hand[t] # NoMsg /\ m = NoMsg => Cardinality(Handling)' = Cardinality(Handling) - 1
  <1>1. hand'[t] = m /\ \A u \in Tasks : u # t => hand'[u] = hand[u]
    BY DEF Shape, Sorts
  <1>2. IsFiniteSet(Handling)
    BY Counted
  <1>3. hand[t] = NoMsg /\ m # NoMsg => Handling' = Handling \cup {t} /\ t \notin Handling
    BY <1>1 DEF Handling
  <1>4. hand[t] # NoMsg /\ m = NoMsg => Handling' = Handling \ {t} /\ t \in Handling
    BY <1>1 DEF Handling
  <1> QED
    BY <1>2, <1>3, <1>4, FS_AddElement, FS_RemoveElement

LEMMA NoMsgIs == NoMsg \notin Messages
  BY DEF NoMsg, Messages, NewData

(* What a step leaves alone.                                                *)
LEMMA SameHands == ASSUME UNCHANGED hand PROVE Cardinality(Handling)' = Cardinality(Handling)
  BY DEF Handling

LEMMA SameQueues ==
  /\ UNCHANGED recvQue => Total(recvQue)' = Total(recvQue)
  /\ UNCHANGED ackQue => Total(ackQue)' = Total(ackQue)
  OBVIOUS

LEMMA SamePutting == ASSUME UNCHANGED pc PROVE Cardinality(Putting)' = Cardinality(Putting)
  BY DEF Putting

LEMMA StillBooks ==
  ASSUME Books, UNCHANGED <<free, recvQue, ackQue, hand>>,
         Cardinality(Putting)' = Cardinality(Putting),
         \A t \in Tasks : tpc'[t] = "handle" => tpc[t] = "handle",
         data' \in [Links -> 0 .. MaxData], refused' \in [Links -> BOOLEAN]
  PROVE  Books'
  <1>1. MessageConserved'
    BY SameHands, SameQueues, ConservedNext
  <1> QED
    BY <1>1 DEF Books

LEMMA InitBooks == Init => Books
  <1> SUFFICES ASSUME Init PROVE Books
    OBVIOUS
  <1>1. Total(recvQue) = 0 /\ Total(ackQue) = 0
    BY SetsFinite, TotalNone DEF Init
  <1>2. Putting = {} /\ Handling = {}
    BY DEF Init, Putting, Handling
  <1>3. MessageConserved
    BY <1>1, <1>2, FS_EmptySet, ConservedIs, MbxAssumption DEF Init
  <1> QED
    BY <1>3, MbxAssumption DEF Init, Books

LEMMA ProduceBooks ==
  ASSUME Shape, Books, NEW s \in Senders, NEW l \in Links, Produce(s, l)
  PROVE  Books'
  <1>1. /\ pc[s] = "idle" /\ Goto(s, "alloc") /\ s \in Threads
        /\ UNCHANGED <<free, recvQue, ackQue, hand, tpc, refused>>
    BY Kinds DEF Produce, taskVars
  <1>2. Cardinality(Putting)' = Cardinality(Putting)
    BY <1>1, GotoCounted DEF Labels
  <1>3. data' \in [Links -> 0 .. MaxData]
    BY MbxAssumption DEF Produce, Books
  <1> QED
    BY <1>1, <1>2, <1>3, StillBooks DEF Books

LEMMA AskBooks ==
  ASSUME Shape, Books, NEW c \in Controllers, NEW l \in Links, NEW a \in BOOLEAN, Ask(c, l, a)
  PROVE  Books'
  <1>1. /\ pc[c] = "idle" /\ Goto(c, "alloc") /\ c \in Threads
        /\ UNCHANGED <<free, recvQue, ackQue, hand, tpc, data, refused>>
    BY Kinds DEF Ask, taskVars
  <1>2. Cardinality(Putting)' = Cardinality(Putting)
    BY <1>1, GotoCounted DEF Labels
  <1> QED
    BY <1>1, <1>2, StillBooks DEF Books

LEMMA AllocBooks == ASSUME Shape, Books, NEW t \in Threads, Alloc(t) PROVE Books'
  <1>1. /\ pc[t] = "alloc" /\ to[t] \in Links
        /\ UNCHANGED <<recvQue, ackQue, hand, tpc, data>>
    BY DEF Alloc, Shape, Calls, taskVars
  <1>2. CASE free > 0 /\ free' = free - 1 /\ Goto(t, "put") /\ UNCHANGED refused
    <2>1. Cardinality(Putting)' = Cardinality(Putting) + 1
      BY <1>1, <1>2, GotoCounted DEF Labels
    <2>2. MessageConserved' /\ free' \in Nat
      BY <1>1, <1>2, <2>1, ConservedNext, SameHands, SameQueues, Counted DEF Books
    <2> QED
      BY <1>1, <1>2, <2>2 DEF Books
  <1>3. CASE /\ Goto(t, "idle") /\ UNCHANGED free
             /\ refused' = [refused EXCEPT ![to[t]] = data[to[t]] > 0]
    <2>1. Cardinality(Putting)' = Cardinality(Putting)
      BY <1>1, <1>3, GotoCounted DEF Labels
    <2>2. refused' \in [Links -> BOOLEAN]
      BY <1>1, <1>3 DEF Books
    <2> QED
      BY <1>1, <1>3, <2>1, <2>2, StillBooks DEF Books
  <1> QED
    BY <1>2, <1>3 DEF Alloc

LEMMA PutBooks == ASSUME Shape, Books, NEW t \in Threads, Put(t) PROVE Books'
  <1>1. /\ pc[t] = "put" /\ to[t] \in Links
        /\ recvQue' = [recvQue EXCEPT ![to[t]] = Append(@, Sent(t))]
        /\ UNCHANGED <<free, ackQue, hand, tpc, data, refused>>
    BY DEF Put, Sent, Shape, Calls, taskVars
  <1>2. Goto(t, "trigger") \/ Goto(t, "idle") \/ Goto(t, "sent")
    BY DEF Put
  <1>3. Cardinality(Putting)' = Cardinality(Putting) - 1
    BY <1>1, <1>2, GotoCounted DEF Labels
  <1>4. Total(recvQue)' = Total(recvQue) + 1
    <2>1. Sent(t) \in Messages /\ recvQue \in [Links -> Seq(Messages)]
      BY SentIs DEF Shape, Sorts
    <2>2. PICK m \in Messages, l \in Links : m = Sent(t) /\ l = to[t]
      BY <1>1, <2>1
    <2>3. PICK g : g = recvQue'
      OBVIOUS
    <2>4. g \in [Links -> Seq(Messages)] /\ Grown(recvQue, g, l, m)
      BY <1>1, <2>1, <2>2, <2>3 DEF Grown
    <2>5. Total(g) = Total(recvQue) + 1
      BY <2>1, <2>4, SetsFinite, TotalPut
    <2> QED
      BY <2>3, <2>5
  <1>5. MessageConserved'
    <2>1. Total(ackQue)' = Total(ackQue) /\ Cardinality(Handling)' = Cardinality(Handling)
      BY <1>1, SameHands, SameQueues
    <2>2. free' = free /\ free \in Nat
      BY <1>1 DEF Books
    <2> QED
      BY <1>3, <1>4, <2>1, <2>2, ConservedNext, Counted
  <1> QED
    BY <1>1, <1>5 DEF Books

LEMMA TriggerBooks == ASSUME Shape, Books, NEW t \in Threads, Trigger(t) PROVE Books'
  <1>1. /\ pc[t] = "trigger" /\ Goto(t, "post") /\ to[t] \in Links
        /\ UNCHANGED <<free, recvQue, ackQue, hand, tpc, data>>
    BY DEF Trigger, Shape, Calls, taskVars
  <1>2. Cardinality(Putting)' = Cardinality(Putting)
    BY <1>1, GotoCounted DEF Labels
  <1>3. refused' = refused \/ refused' = [refused EXCEPT ![to[t]] = data[to[t]] > 0]
    BY DEF Trigger
  <1>4. refused' \in [Links -> BOOLEAN]
    <2>1. refused \in [Links -> BOOLEAN] /\ (data[to[t]] > 0) \in BOOLEAN
      BY DEF Books
    <2> QED
      BY <1>1, <1>3, <2>1
  <1> QED
    BY <1>1, <1>2, <1>4, StillBooks DEF Books

LEMMA PostBooks == ASSUME Shape, Books, NEW t \in Threads, Post(t) PROVE Books'
  <1>1. /\ pc[t] = "post" /\ (Goto(t, "idle") \/ Goto(t, "sent"))
        /\ UNCHANGED <<free, recvQue, ackQue, hand, tpc, data, refused>>
    BY DEF Post, taskVars
  <1>2. Cardinality(Putting)' = Cardinality(Putting)
    BY <1>1, GotoCounted DEF Labels
  <1> QED
    BY <1>1, <1>2, StillBooks DEF Books

LEMMA GetAckBooks == ASSUME Shape, Books, NEW c \in Controllers, GetAck(c) PROVE Books'
  <1>1. /\ pc[c] = "sent" /\ slot[c] \in Slots /\ ackQue[slot[c]] # << >> /\ c \in Threads
        /\ ackQue' = [ackQue EXCEPT ![slot[c]] = Tail(@)] /\ free' = free + 1
        /\ UNCHANGED <<recvQue, hand, tpc, data, refused>>
    BY Kinds DEF GetAck, Shape, Owned, Kept, Sorts, Slots, taskVars
  <1>2. Goto(c, "acked") \/ Goto(c, "sent")
    BY DEF GetAck
  <1>3. Cardinality(Putting)' = Cardinality(Putting)
    BY <1>1, <1>2, GotoCounted DEF Labels
  <1>4. Total(ackQue)' = Total(ackQue) - 1
    <2>1. ackQue \in [Slots -> Seq(Messages)]
      BY DEF Shape, Sorts
    <2> QED
      BY <1>1, <2>1, SetsFinite, TotalTake
  <1>5. MessageConserved' /\ free' \in Nat
    <2>1. Total(recvQue)' = Total(recvQue) /\ Cardinality(Handling)' = Cardinality(Handling)
      BY <1>1, SameHands, SameQueues
    <2>2. free' = free + 1 /\ free \in Nat
      BY <1>1 DEF Books
    <2> QED
      BY <1>3, <1>4, <2>1, <2>2, ConservedNext, Counted
  <1> QED
    BY <1>1, <1>5 DEF Books

LEMMA ReleaseBooks == ASSUME Shape, Books, NEW c \in Controllers, Release(c) PROVE Books'
  <1>1. /\ pc[c] # "put" /\ Goto(c, "idle") /\ c \in Threads
        /\ UNCHANGED <<free, recvQue, ackQue, hand, tpc, data, refused>>
    BY Kinds DEF Release, taskVars
  <1>2. Cardinality(Putting)' = Cardinality(Putting)
    BY <1>1, GotoCounted DEF Labels
  <1> QED
    BY <1>1, <1>2, StillBooks DEF Books

LEMMA ReceiveBooks ==
  ASSUME Shape, Books, NEW t \in Tasks, NEW l \in Links, recvQue[l] # << >>, Receive(t, l),
         tpc[t] # "handle", UNCHANGED <<free, ackQue, pc, data, refused>>
  PROVE  Books'
  <1>1. recvQue \in [Links -> Seq(Messages)] /\ Head(recvQue[l]) \in Messages /\ hand[t] = NoMsg
    BY FirstOf DEF Shape, Sorts, Calls
  <1>2. Total(recvQue)' = Total(recvQue) - 1
    BY <1>1, SetsFinite, TotalTake DEF Receive
  <1>3. Cardinality(Handling)' = Cardinality(Handling) + 1
    <2>1. PICK m \in Messages : m = Head(recvQue[l])
      BY <1>1
    <2>2. m # NoMsg /\ hand' = [hand EXCEPT ![t] = m]
      BY <2>1, NoMsgIs DEF Receive
    <2> QED
      BY <1>1, <2>2, HandCounted
  <1>4. MessageConserved'
    <2>1. Total(ackQue)' = Total(ackQue) /\ Cardinality(Putting)' = Cardinality(Putting)
      BY SamePutting, SameQueues
    <2>2. free' = free /\ free \in Nat
      BY DEF Books
    <2> QED
      BY <1>2, <1>3, <2>1, <2>2, ConservedNext, Counted
  <1>5. \A u \in Tasks : tpc'[u] = "handle" => hand'[u] \in Messages
    BY <1>1 DEF Receive, Books, Shape, Sorts
  <1> QED
    BY <1>4, <1>5 DEF Books

LEMMA OwnReceiveBooks == ASSUME Shape, Books, NEW l \in Tasks, OwnReceive(l) PROVE Books'
  BY Kinds, ReceiveBooks DEF OwnReceive, threadVars

LEMMA MultiTakeBooks == ASSUME Shape, Books, MultiTake PROVE Books'
  <1>1. PICK l : l = Head(trigger[pri])
    OBVIOUS
  <1>2. l \in Links
    <2>1. trigger[pri] \in Seq(Sharing) /\ trigger[pri] # << >>
      BY DEF MultiTake, Shape, Sorts
    <2> QED
      BY <1>1, <2>1, FirstOf, Kinds
  <1>3. /\ tpc[Multi] = "scan" /\ Multi \in Tasks
        /\ UNCHANGED <<free, ackQue, pc, data, refused>>
    BY Kinds DEF MultiTake, threadVars
  <1>4. CASE recvQue[l] = << >>
    <2>1. UNCHANGED <<recvQue, hand, tpc>>
      BY <1>1, <1>4 DEF MultiTake
    <2> QED
      BY <1>3, <2>1, SamePutting, StillBooks DEF Books
  <1>5. CASE recvQue[l] # << >>
    <2>1. Receive(Multi, l)
      BY <1>1, <1>5 DEF MultiTake
    <2> QED
      BY <1>2, <1>3, <1>5, <2>1, ReceiveBooks
  <1> QED
    BY <1>4, <1>5

LEMMA MultiWakeBooks == ASSUME Shape, Books, MultiWake PROVE Books'
  <1>1. /\ tpc' = [tpc EXCEPT ![Multi] = "scan"] /\ tpc \in [Tasks -> {"wait", "scan"} \cup Serving]
        /\ UNCHANGED <<free, recvQue, ackQue, pc, hand, data, refused>>
    BY DEF MultiWake, threadVars, Shape, Sorts
  <1>2. \A t \in Tasks : tpc'[t] = "handle" => tpc[t] = "handle"
    BY <1>1
  <1> QED
    BY <1>1, <1>2, SamePutting, StillBooks DEF Books

LEMMA MultiNextBooks == ASSUME Shape, Books, MultiNext PROVE Books'
  <1>1. /\ tpc' = tpc \/ tpc' = [tpc EXCEPT ![Multi] = "wait"]
        /\ tpc \in [Tasks -> {"wait", "scan"} \cup Serving]
        /\ UNCHANGED <<free, recvQue, ackQue, pc, hand, data, refused>>
    BY DEF MultiNext, threadVars, Shape, Sorts
  <1>2. \A t \in Tasks : tpc'[t] = "handle" => tpc[t] = "handle"
    BY <1>1
  <1> QED
    BY <1>1, <1>2, SamePutting, StillBooks DEF Books

(* A message goes to an ack queue or back to the pool.                       *)
LEMMA AckCounted ==
  ASSUME Shape, Books, NEW m \in Messages, AckOrFree(m)
  PROVE  free' \in Nat /\ free' + Total(ackQue)' = free + Total(ackQue) + 1
  <1>1. ackQue \in [Slots -> Seq(Messages)] /\ free \in Nat /\ Total(ackQue) \in Nat
    BY Counted DEF Shape, Sorts, Books
  <1>2. CASE m.slot # 0
    <2>1. m.slot \in Slots
      BY <1>2, MessageIs
    <2>2. ackQue' = [ackQue EXCEPT ![m.slot] = Append(@, m)] /\ free' = free
      BY <1>2 DEF AckOrFree
    <2>3. Total(ackQue)' = Total(ackQue) + 1
      <3>1. PICK k \in Slots : k = m.slot
        BY <2>1
      <3>2. PICK g : g = ackQue'
        OBVIOUS
      <3>3. g \in [Slots -> Seq(Messages)] /\ Grown(ackQue, g, k, m)
        BY <1>1, <2>2, <3>1, <3>2 DEF Grown
      <3>4. Total(g) = Total(ackQue) + 1
        BY <1>1, <3>3, SetsFinite, TotalPut
      <3> QED
        BY <3>2, <3>4
    <2> QED
      BY <1>1, <2>2, <2>3
  <1>3. CASE m.slot = 0
    BY <1>1, <1>3 DEF AckOrFree
  <1> QED
    BY <1>2, <1>3

LEMMA HandleBooks == ASSUME Shape, Books, NEW t \in Tasks, Handle(t) PROVE Books'
  <1>1. /\ hand[t] \in Messages /\ AckOrFree(hand[t]) /\ hand' = [hand EXCEPT ![t] = NoMsg]
        /\ UNCHANGED <<recvQue, pc, data, refused>>
    BY DEF Handle, Books, threadVars
  <1>2. tpc' = [tpc EXCEPT ![t] = "flush"] \/ tpc' = [tpc EXCEPT ![t] = Ready(t)]
    BY DEF Handle
  <1>3. Cardinality(Handling)' = Cardinality(Handling) - 1
    BY <1>1, NoMsgIs, HandCounted
  <1>4. free' \in Nat /\ free' + Total(ackQue)' = free + Total(ackQue) + 1
    BY <1>1, AckCounted
  <1>5. Total(ackQue)' \in Nat
    BY NextShape, HandleShape, Counted, SetsFinite, TotalIs DEF Shape, Sorts
  <1>6. MessageConserved'
    BY <1>1, <1>3, <1>4, <1>5, ConservedNext, SamePutting, SameQueues, Counted DEF Books
  <1>7. \A u \in Tasks : tpc'[u] = "handle" => hand'[u] \in Messages
    BY <1>1, <1>2, ReadyIs DEF Books, Shape, Sorts
  <1> QED
    BY <1>1, <1>4, <1>6, <1>7 DEF Books

LEMMA FlushBooks == ASSUME Shape, Books, NEW t \in Tasks, Flush(t) PROVE Books'
  <1>1. PICK q : q = recvQue[cur[t]]
    OBVIOUS
  <1>2. /\ cur[t] \in Links /\ q \in Seq(Messages) /\ recvQue \in [Links -> Seq(Messages)]
        /\ tpc \in [Tasks -> {"wait", "scan"} \cup Serving]
        /\ UNCHANGED <<pc, hand, data, refused>>
    BY <1>1 DEF Flush, Shape, Sorts, Calls, Serving, threadVars
  <1>3. CASE q # << >> /\ Head(q).cmd = "NEW_DATA"
    <2>1. recvQue' = [recvQue EXCEPT ![cur[t]] = Tail(@)] /\ AckOrFree(Head(q)) /\ UNCHANGED tpc
      BY <1>1, <1>3 DEF Flush
    <2>2. Head(q) \in Messages
      BY <1>2, <1>3, FirstOf
    <2>3. free' \in Nat /\ free' + Total(ackQue)' = free + Total(ackQue) + 1
      BY <2>1, <2>2, AckCounted
    <2>4. Total(recvQue)' = Total(recvQue) - 1
      BY <1>1, <1>2, <1>3, <2>1, SetsFinite, TotalTake
    <2>5. Total(ackQue)' \in Nat
      BY FlushShape, SetsFinite, TotalIs DEF Shape, Sorts
    <2>6. MessageConserved'
      <3>1. Cardinality(Putting)' = Cardinality(Putting) /\ Cardinality(Handling)' = Cardinality(Handling)
        BY <1>2, SamePutting, SameHands
      <3>2. free \in Nat
        BY DEF Books
      <3> QED
        BY <2>3, <2>4, <2>5, <3>1, <3>2, ConservedNext, Counted
    <2> QED
      BY <1>2, <2>1, <2>3, <2>6 DEF Books
  <1>4. CASE ~(q # << >> /\ Head(q).cmd = "NEW_DATA")
    <2>1. tpc' = [tpc EXCEPT ![t] = "process"] /\ UNCHANGED <<recvQue, free, ackQue>>
      BY <1>1, <1>4 DEF Flush
    <2>2. \A u \in Tasks : tpc'[u] = "handle" => tpc[u] = "handle"
      BY <1>2, <2>1
    <2> QED
      BY <1>2, <2>1, <2>2, SamePutting, StillBooks DEF Books
  <1> QED
    BY <1>3, <1>4

LEMMA ProcessBooks == ASSUME Shape, Books, NEW t \in Tasks, Process(t) PROVE Books'
  <1>1. /\ cur[t] \in Links /\ tpc \in [Tasks -> {"wait", "scan"} \cup Serving]
        /\ tpc' = [tpc EXCEPT ![t] = Ready(t)]
        /\ data' = [data EXCEPT ![cur[t]] = 0] /\ refused' = [refused EXCEPT ![cur[t]] = FALSE]
        /\ UNCHANGED <<free, recvQue, ackQue, pc, hand>>
    BY DEF Process, threadVars, Shape, Sorts, Calls, Serving
  <1>2. \A u \in Tasks : tpc'[u] = "handle" => tpc[u] = "handle"
    BY <1>1, ReadyIs
  <1>3. data' \in [Links -> 0 .. MaxData]
    BY <1>1, MbxAssumption DEF Books
  <1>4. refused' \in [Links -> BOOLEAN]
    BY <1>1 DEF Books
  <1> QED
    BY <1>1, <1>2, <1>3, <1>4, SamePutting, StillBooks

LEMMA NextBooks == Shape /\ Books /\ [Next]_vars => Books'
  <1> SUFFICES ASSUME Shape, Books, [Next]_vars PROVE Books'
    OBVIOUS
  <1>1. CASE UNCHANGED vars
    BY <1>1, SamePutting, StillBooks DEF vars, threadVars, taskVars, Books
  <1> QED
    BY <1>1, ProduceBooks, AskBooks, AllocBooks, PutBooks, TriggerBooks, PostBooks, GetAckBooks,
       ReleaseBooks, OwnReceiveBooks, MultiWakeBooks, MultiTakeBooks, MultiNextBooks, HandleBooks,
       FlushBooks, ProcessBooks, Zenon DEF Next, Sends, Waits, Runs

LEMMA BooksKept == Spec => []Books
  BY ShapeKept, InitBooks, NextBooks, PTL DEF Spec

(* No message of the pool is lost, and none is freed twice, whichever way a   *)
(* call ends.                                                               *)
THEOREM MessagesConserved == Spec => []MessageConserved
  <1>1. Books => MessageConserved
    BY DEF Books
  <1> QED
    BY <1>1, BooksKept, PTL

(* The type invariant: the pool never has more messages than it started with. *)
THEOREM TypeCorrect == Spec => []TypeOK
  <1>1. ASSUME Shape, Books PROVE TypeOK
    <2>1. free \in 0 .. PoolMax
      BY <1>1, ConservedIs, Counted, MbxAssumption DEF Books
    <2> QED
      BY <1>1, <2>1 DEF Shape, Sorts, Books, TypeOK, Labels, Serving
  <1> QED
    BY <1>1, ShapeKept, BooksKept, PTL

-----------------------------------------------------------------------------
(* A trigger for each message.                                              *)

(* The triggers of link l in a queue, and the threads about to put one.       *)
Hits(q, l)    == {i \in DOMAIN q : q[i] = l}
Triggering(l) == {t \in Threads : pc[t] = "trigger" /\ to[t] = l}

Enough(l) == Len(recvQue[l]) <= Cardinality(Hits(trigger[Pri[l]], l)) + Cardinality(Triggering(l))

(* A trigger is in the queue of its priority.                                *)
Queued == \A p \in Pris : \A i \in DOMAIN trigger[p] : Pri[trigger[p][i]] = p

LEMMA TriggeredIs ==
  ASSUME NEW l \in Sharing
  PROVE  /\ Triggered(l) <=> Enough(l)
         /\ Triggered(l)' <=> Enough(l)'
         /\ Stale(l) <=> Cardinality(Hits(trigger[Pri[l]], l)) > Len(recvQue[l])
  BY DEF Triggered, Stale, TriggersOf, Enough, Hits, Triggering

LEMMA HitsFinite ==
  ASSUME NEW M, NEW q \in Seq(M), NEW l
  PROVE  IsFiniteSet(Hits(q, l)) /\ Cardinality(Hits(q, l)) \in Nat
  <1>1. Len(q) \in Nat /\ DOMAIN q = 1 .. Len(q)
    BY LenProperties
  <1>2. IsFiniteSet(DOMAIN q)
    BY <1>1, FS_Interval
  <1>3. Hits(q, l) \in SUBSET DOMAIN q
    BY DEF Hits
  <1> QED
    BY <1>2, <1>3, FS_Subset, FS_CardinalityType

LEMMA HitsPut ==
  ASSUME NEW M, NEW q \in Seq(M), NEW x \in M, NEW l
  PROVE  /\ x = l => Cardinality(Hits(Append(q, x), l)) = Cardinality(Hits(q, l)) + 1
         /\ x # l => Hits(Append(q, x), l) = Hits(q, l)
  <1>1. /\ Len(q) + 1 \notin DOMAIN q /\ DOMAIN q \subseteq Nat
        /\ DOMAIN Append(q, x) = DOMAIN q \cup {Len(q) + 1}
        /\ \A j \in DOMAIN q : Append(q, x)[j] = q[j]
        /\ Append(q, x)[Len(q) + 1] = x
    <2>1. Len(q) \in Nat /\ DOMAIN q = 1 .. Len(q)
      BY LenProperties
    <2>2. Append(q, x) \in Seq(M) /\ Len(Append(q, x)) = Len(q) + 1
      BY AppendProperties
    <2>3. DOMAIN Append(q, x) = 1 .. Len(q) + 1
      BY <2>2, LenProperties
    <2> QED
      BY <2>1, <2>3, LastOf
  <1>2. PICK a, n : a = Append(q, x) /\ n = Len(q) + 1
    OBVIOUS
  <1>3. CASE x = l
    <2>1. Hits(a, l) = Hits(q, l) \cup {n} /\ n \notin Hits(q, l)
      BY <1>1, <1>2, <1>3 DEF Hits
    <2> QED
      BY <1>2, <1>3, <2>1, HitsFinite, FS_AddElement
  <1>4. CASE x # l
    <2>1. Hits(a, l) = Hits(q, l)
      BY <1>1, <1>2, <1>4 DEF Hits
    <2> QED
      BY <1>2, <1>4, <2>1
  <1> QED
    BY <1>3, <1>4

LEMMA HitsTake ==
  ASSUME NEW M, NEW q \in Seq(M), q # << >>, NEW l
  PROVE  /\ Head(q) = l => Cardinality(Hits(Tail(q), l)) = Cardinality(Hits(q, l)) - 1
         /\ Head(q) # l => Cardinality(Hits(Tail(q), l)) = Cardinality(Hits(q, l))
  <1>1. PICK a : a = Tail(q)
    OBVIOUS
  <1>2. /\ a \in Seq(M) /\ Head(q) = q[1] /\ 1 \in DOMAIN q
        /\ \A j \in Nat : j \in DOMAIN a <=> (j # 0 /\ j + 1 \in DOMAIN q)
        /\ \A j \in DOMAIN a : a[j] = q[j + 1]
    BY <1>1, FirstOf
  <1>3. DOMAIN q = 1 .. Len(q) /\ DOMAIN a = 1 .. Len(a) /\ Len(q) \in Nat /\ Len(a) \in Nat
    BY <1>2, LenProperties
  <1> DEFINE g == [i \in Hits(a, l) |-> i + 1]
  <1>4. g \in Bijection(Hits(a, l), Hits(q, l) \ {1})
    <2>1. \A i \in Hits(a, l) : i \in Nat /\ g[i] = i + 1 /\ g[i] \in Hits(q, l) \ {1}
      BY <1>2, <1>3 DEF Hits
    <2>2. \A i, j \in Hits(a, l) : g[i] = g[j] => i = j
      BY <2>1
    <2>3. \A k \in Hits(q, l) \ {1} : k - 1 \in Hits(a, l) /\ g[k - 1] = k
      <3> SUFFICES ASSUME NEW k \in Hits(q, l) \ {1} PROVE k - 1 \in Hits(a, l) /\ g[k - 1] = k
        OBVIOUS
      <3>1. k \in DOMAIN q /\ k # 1 /\ q[k] = l /\ k \in Nat
        BY <1>3 DEF Hits
      <3>2. PICK j \in Nat : j = k - 1 /\ j # 0 /\ j + 1 = k
        BY <1>3, <3>1
      <3>3. j \in DOMAIN a /\ a[j] = l
        BY <1>2, <3>1, <3>2
      <3>4. j \in Hits(a, l)
        BY <3>3 DEF Hits
      <3> QED
        BY <3>2, <3>4
    <2> QED
      BY <2>1, <2>2, <2>3 DEF Bijection, Injection, Surjection, IsInjective
  <1>5. ExistsBijection(Hits(a, l), Hits(q, l) \ {1})
    BY <1>4 DEF ExistsBijection
  <1> HIDE DEF g
  <1>6. IsFiniteSet(Hits(a, l)) /\ IsFiniteSet(Hits(q, l)) /\ Cardinality(Hits(q, l)) \in Nat
    BY <1>2, HitsFinite
  <1>7. PICK h, k : h = Hits(a, l) /\ k = Hits(q, l) \ {1}
    OBVIOUS
  <1>8. Cardinality(h) = Cardinality(k)
    BY <1>5, <1>6, <1>7, FS_Bijection
  <1>9. CASE Head(q) = l
    <2>1. 1 \in Hits(q, l)
      BY <1>2, <1>9 DEF Hits
    <2>2. Cardinality(k) = Cardinality(Hits(q, l)) - 1
      BY <1>6, <1>7, <2>1, FS_RemoveElement
    <2> QED
      BY <1>1, <1>7, <1>8, <1>9, <2>2
  <1>10. CASE Head(q) # l
    <2>1. k = Hits(q, l)
      BY <1>2, <1>7, <1>10 DEF Hits
    <2> QED
      BY <1>1, <1>7, <1>8, <1>10, <2>1
  <1> QED
    BY <1>9, <1>10

(* What a step leaves alone.                                                *)
LEMMA TriggeringFinite == \A l \in Links : IsFiniteSet(Triggering(l)) /\ Cardinality(Triggering(l)) \in Nat
  <1> SUFFICES ASSUME NEW l \in Links
               PROVE  IsFiniteSet(Triggering(l)) /\ Cardinality(Triggering(l)) \in Nat
    OBVIOUS
  <1>1. Triggering(l) \in SUBSET Threads
    BY DEF Triggering
  <1> QED
    BY <1>1, SetsFinite, FS_Subset, FS_CardinalityType

LEMMA Counts ==
  ASSUME Shape, NEW l \in Sharing
  PROVE  /\ Len(recvQue[l]) \in Nat /\ recvQue[l] \in Seq(Messages) /\ trigger[Pri[l]] \in Seq(Sharing)
         /\ Cardinality(Hits(trigger[Pri[l]], l)) \in Nat
         /\ Cardinality(Triggering(l)) \in Nat
  <1>1. recvQue[l] \in Seq(Messages) /\ trigger[Pri[l]] \in Seq(Sharing)
    BY Kinds, PrisOrder DEF Shape, Sorts
  <1> QED
    BY <1>1, LenProperties, HitsFinite, TriggeringFinite, Kinds

LEMMA StillEnough ==
  ASSUME Shape, NEW l \in Sharing, Enough(l), UNCHANGED trigger,
         recvQue'[l] = recvQue[l] \/ (recvQue[l] # << >> /\ recvQue'[l] = Tail(recvQue[l])),
         Triggering(l)' = Triggering(l)
  PROVE  Enough(l)'
  <1>1. PICK h : h = Cardinality(Hits(trigger[Pri[l]], l)) + Cardinality(Triggering(l))
    OBVIOUS
  <1>2. h = Cardinality(Hits(trigger[Pri[l]], l))' + Cardinality(Triggering(l))'
    BY <1>1
  <1>3. Len(recvQue[l]) <= h /\ h \in Nat /\ Len(recvQue[l]) \in Nat
    BY <1>1, Counts DEF Enough
  <1>4. Len(recvQue'[l]) <= Len(recvQue[l]) /\ Len(recvQue'[l]) \in Nat
    <2>1. CASE recvQue[l] # << >> /\ recvQue'[l] = Tail(recvQue[l])
      BY <2>1, Counts, HeadTailProperties
    <2> QED
      BY <1>3, <2>1
  <1>5. Len(recvQue'[l]) <= h
    BY <1>3, <1>4
  <1> QED
    BY <1>2, <1>5 DEF Enough

LEMMA SameTriggering ==
  ASSUME Shape, NEW t \in Threads, NEW label \in Labels, Goto(t, label),
         pc[t] # "trigger", label # "trigger", \A u \in Threads : u # t => to'[u] = to[u],
         NEW l \in Links
  PROVE  Triggering(l)' = Triggering(l)
  <1>1. pc'[t] = label /\ \A u \in Threads : u # t => pc'[u] = pc[u]
    BY DEF Shape, Sorts, Goto
  <1> QED
    BY <1>1 DEF Triggering

(* A thread elsewhere in its call.                                          *)
LEMMA ThreadEnough ==
  ASSUME Shape, NEW l \in Sharing, Enough(l), NEW t \in Threads, NEW label \in Labels, Goto(t, label),
         pc[t] # "trigger", label # "trigger", \A u \in Threads : u # t => to'[u] = to[u],
         UNCHANGED <<recvQue, trigger>>
  PROVE  Enough(l)'
  <1>1. Triggering(l)' = Triggering(l)
    BY SameTriggering, Kinds
  <1>2. recvQue'[l] = recvQue[l] \/ (recvQue[l] # << >> /\ recvQue'[l] = Tail(recvQue[l]))
    OBVIOUS
  <1> QED
    BY <1>1, <1>2, StillEnough

(* A task that looks at no mailbox of a trigger, or takes its first message.  *)
LEMMA TaskEnough ==
  ASSUME Shape, NEW l \in Sharing, Enough(l), UNCHANGED <<trigger, pc, to>>, NEW c,
         \/ UNCHANGED recvQue
         \/ recvQue[c] # << >> /\ recvQue' = [recvQue EXCEPT ![c] = Tail(@)]
  PROVE  Enough(l)'
  <1>1. recvQue'[l] = recvQue[l] \/ (recvQue[l] # << >> /\ recvQue'[l] = Tail(recvQue[l]))
    <2>1. CASE UNCHANGED recvQue
      BY <2>1
    <2>2. CASE recvQue[c] # << >> /\ recvQue' = [recvQue EXCEPT ![c] = Tail(@)]
      <3>1. recvQue \in [Links -> Seq(Messages)] /\ l \in Links
        BY Kinds DEF Shape, Sorts
      <3>2. c # l => recvQue'[l] = recvQue[l]
        BY <2>2, <3>1
      <3>3. c = l => recvQue'[l] = Tail(recvQue[l])
        BY <2>2, <3>1
      <3> QED
        BY <2>2, <3>2, <3>3
    <2> QED
      BY <2>1, <2>2
  <1>2. Triggering(l)' = Triggering(l)
    BY DEF Triggering
  <1> QED
    BY <1>1, <1>2, StillEnough

LEMMA PutEnough ==
  ASSUME Shape, NEW l \in Sharing, Enough(l), NEW t \in Threads, Put(t)
  PROVE  Enough(l)'
  <1>1. /\ pc[t] = "put" /\ to[t] \in Links
        /\ recvQue' = [recvQue EXCEPT ![to[t]] = Append(@, Sent(t))]
        /\ Sent(t) \in Messages /\ UNCHANGED trigger
    BY SentIs DEF Put, Sent, Shape, Calls
  <1>2. \/ to[t] \in Sharing /\ Goto(t, "trigger") /\ UNCHANGED to
        \/ /\ to[t] \notin Sharing /\ (Goto(t, "idle") \/ Goto(t, "sent"))
           /\ \A u \in Threads : u # t => to'[u] = to[u]
    BY DEF Put, Shape, Sorts
  <1>3. CASE to[t] = l
    <2>1. Triggering(l)' = Triggering(l) \cup {t} /\ t \notin Triggering(l)
      <3>1. pc' = [pc EXCEPT ![t] = "trigger"] /\ UNCHANGED to
        BY <1>2, <1>3 DEF Goto
      <3> QED
        BY <1>1, <1>3, <3>1 DEF Triggering, Shape, Sorts
    <2>2. Cardinality(Triggering(l))' = Cardinality(Triggering(l)) + 1
      BY <2>1, TriggeringFinite, FS_AddElement, Kinds
    <2>3. Len(recvQue'[l]) = Len(recvQue[l]) + 1
      <3>1. recvQue'[l] = Append(recvQue[l], Sent(t))
        BY <1>1, <1>3 DEF Shape, Sorts
      <3> QED
        BY <1>1, <3>1, Counts, AppendProperties
    <2>4. Cardinality(Hits(trigger[Pri[l]], l))' = Cardinality(Hits(trigger[Pri[l]], l))
      BY <1>1
    <2> QED
      BY <2>2, <2>3, <2>4, Counts DEF Enough
  <1>4. CASE to[t] # l
    <2>1. recvQue'[l] = recvQue[l] \/ (recvQue[l] # << >> /\ recvQue'[l] = Tail(recvQue[l]))
      BY <1>1, <1>4, Kinds DEF Shape, Sorts
    <2>2. Triggering(l)' = Triggering(l)
      <3>1. CASE to[t] \in Sharing /\ Goto(t, "trigger") /\ UNCHANGED to
        BY <1>1, <1>4, <3>1 DEF Triggering, Goto, Shape, Sorts
      <3>2. CASE (Goto(t, "idle") \/ Goto(t, "sent")) /\ \A u \in Threads : u # t => to'[u] = to[u]
        BY <1>1, <3>2, SameTriggering, Kinds DEF Labels
      <3> QED
        BY <1>2, <3>1, <3>2
    <2>3. UNCHANGED trigger
      BY <1>1
    <2> QED
      BY <2>1, <2>2, <2>3, StillEnough
  <1> QED
    BY <1>3, <1>4

(* A trigger that is put, and one that is not.                               *)
LEMMA TriggerEnough ==
  ASSUME Shape, NEW l \in Sharing, Enough(l), NEW t \in Threads, Trigger(t),
         to[t] # l \/ Len(trigger[Pri[l]]) < TriggerMax \/ t \notin Senders
  PROVE  Enough(l)'
  <1>1. PICK x \in Sharing, p \in Pris : x = to[t] /\ p = Pri[x]
    BY PrisOrder DEF Trigger, Shape, Calls
  <1>2. pc[t] = "trigger" /\ pc' = [pc EXCEPT ![t] = "post"] /\ UNCHANGED <<recvQue, to>>
    BY DEF Trigger, Goto
  <1>3. \/ trigger' = [trigger EXCEPT ![p] = Append(@, x)]
        \/ UNCHANGED trigger /\ Len(trigger[p]) >= TriggerMax /\ t \in Senders
    BY <1>1 DEF Trigger
  <1>4. trigger[p] \in Seq(Sharing) /\ Len(trigger[p]) \in Nat
    BY LenProperties DEF Shape, Sorts
  <1>5. CASE l # x
    <2>1. Triggering(l)' = Triggering(l)
      BY <1>1, <1>2, <1>5 DEF Triggering, Shape, Sorts
    <2>2. Hits(trigger[Pri[l]], l)' = Hits(trigger[Pri[l]], l)
      <3>1. CASE UNCHANGED trigger \/ Pri[l] # p
        <4>1. trigger'[Pri[l]] = trigger[Pri[l]]
          BY <1>3, <3>1, PrisOrder DEF Shape, Sorts
        <4> QED
          BY <4>1
      <3>2. CASE trigger' = [trigger EXCEPT ![p] = Append(@, x)] /\ Pri[l] = p
        <4>1. trigger'[p] = Append(trigger[p], x)
          BY <3>2 DEF Shape, Sorts
        <4>2. Hits(Append(trigger[p], x), l) = Hits(trigger[p], l)
          BY <1>4, <1>5, HitsPut
        <4> QED
          BY <3>2, <4>1, <4>2
      <3> QED
        BY <1>3, <3>1, <3>2
    <2> QED
      BY <1>2, <2>1, <2>2 DEF Enough
  <1>6. CASE l = x
    <2>1. trigger' = [trigger EXCEPT ![p] = Append(@, x)]
      BY <1>1, <1>3, <1>4, <1>6, MbxAssumption
    <2>2. Triggering(x)' = Triggering(x) \ {t} /\ t \in Triggering(x)
      BY <1>1, <1>2 DEF Triggering, Shape, Sorts
    <2>3. Cardinality(Triggering(x))' = Cardinality(Triggering(x)) - 1
      BY <2>2, TriggeringFinite, FS_RemoveElement, Kinds
    <2>4. Cardinality(Hits(trigger[Pri[x]], x))' = Cardinality(Hits(trigger[Pri[x]], x)) + 1
      <3>1. trigger'[p] = Append(trigger[p], x)
        BY <2>1 DEF Shape, Sorts
      <3>2. Cardinality(Hits(Append(trigger[p], x), x)) = Cardinality(Hits(trigger[p], x)) + 1
        BY <1>4, HitsPut
      <3> QED
        BY <1>1, <3>1, <3>2
    <2> QED
      BY <1>2, <1>6, <2>3, <2>4, Counts DEF Enough
  <1> QED
    BY <1>5, <1>6

LEMMA TakeEnough ==
  ASSUME Shape, Queued, NEW l \in Sharing, Enough(l), MultiTake
  PROVE  Enough(l)'
  <1>1. /\ pri \in Pris /\ trigger[pri] \in Seq(Sharing) /\ trigger[pri] # << >>
        /\ trigger' = [trigger EXCEPT ![pri] = Tail(@)] /\ UNCHANGED <<pc, to>>
    BY DEF MultiTake, Shape, Sorts, threadVars
  <1>2. PICK p \in Pris : p = pri
    BY <1>1
  <1>3. PICK x \in Sharing : x = Head(trigger[p]) /\ Pri[x] = p
    <2>1. Head(trigger[p]) \in Sharing /\ Head(trigger[p]) = trigger[p][1] /\ 1 \in DOMAIN trigger[p]
      BY <1>1, <1>2, FirstOf
    <2> QED
      BY <1>2, <2>1 DEF Queued
  <1>4. \/ recvQue[x] = << >> /\ UNCHANGED recvQue
        \/ recvQue[x] # << >> /\ recvQue' = [recvQue EXCEPT ![x] = Tail(@)]
    BY <1>2, <1>3 DEF MultiTake, Receive
  <1>5. Triggering(l)' = Triggering(l)
    BY <1>1 DEF Triggering
  <1>6. CASE l = x
    <2>1. Cardinality(Hits(trigger[Pri[l]], l))' = Cardinality(Hits(trigger[Pri[l]], l)) - 1
      <3>1. trigger'[p] = Tail(trigger[p])
        BY <1>1, <1>2 DEF Shape, Sorts
      <3>2. Cardinality(Hits(Tail(trigger[p]), l)) = Cardinality(Hits(trigger[p], l)) - 1
        BY <1>1, <1>2, <1>3, <1>6, HitsTake
      <3> QED
        BY <1>3, <1>6, <3>1, <3>2
    <2>2. Cardinality(Hits(trigger[Pri[l]], l))' \in Nat
      <3>1. trigger'[p] \in Seq(Sharing)
        BY <1>1, <1>2, FirstOf DEF Shape, Sorts
      <3>2. Cardinality(Hits(trigger'[p], l)) \in Nat
        BY <3>1, HitsFinite
      <3> QED
        BY <1>3, <1>6, <3>2
    <2>3. CASE recvQue[x] = << >> /\ UNCHANGED recvQue
      <3>1. Len(recvQue'[l]) = 0
        BY <1>6, <2>3, EmptySeq
      <3> QED
        BY <1>5, <2>2, <3>1, Counts DEF Enough
    <2>4. CASE recvQue[x] # << >> /\ recvQue' = [recvQue EXCEPT ![x] = Tail(@)]
      <3>1. recvQue'[l] = Tail(recvQue[l]) /\ recvQue[l] # << >>
        BY <1>6, <2>4, Kinds DEF Shape, Sorts
      <3>2. Len(recvQue'[l]) = Len(recvQue[l]) - 1
        BY <3>1, Counts, HeadTailProperties
      <3> QED
        BY <1>5, <2>1, <3>2, Counts DEF Enough
    <2> QED
      BY <1>4, <2>3, <2>4
  <1>7. CASE l # x
    <2>1. recvQue'[l] = recvQue[l]
      BY <1>4, <1>7, Kinds DEF Shape, Sorts
    <2>2. Cardinality(Hits(trigger[Pri[l]], l))' = Cardinality(Hits(trigger[Pri[l]], l))
      <3>1. CASE Pri[l] # p
        <4>1. trigger'[Pri[l]] = trigger[Pri[l]]
          BY <1>1, <1>2, <3>1, PrisOrder DEF Shape, Sorts
        <4> QED
          BY <4>1
      <3>2. CASE Pri[l] = p
        <4>1. trigger'[p] = Tail(trigger[p])
          BY <1>1, <1>2 DEF Shape, Sorts
        <4>2. Cardinality(Hits(Tail(trigger[p]), l)) = Cardinality(Hits(trigger[p], l))
          BY <1>1, <1>2, <1>3, <1>7, HitsTake
        <4> QED
          BY <3>2, <4>1, <4>2
      <3> QED
        BY <3>1, <3>2
    <2> QED
      BY <1>5, <2>1, <2>2 DEF Enough
  <1> QED
    BY <1>6, <1>7

(* A trigger stays in the queue of its priority.                             *)
LEMMA QueuedKept == Spec => []Queued
  <1>1. Init => Queued
    <2> SUFFICES ASSUME Init PROVE Queued
      OBVIOUS
    <2>1. \A p \in Pris : DOMAIN trigger[p] = {}
      BY EmptySeq DEF Init
    <2> QED
      BY <2>1 DEF Queued
  <1>2. Shape /\ Queued /\ [Next]_vars => Queued'
    <2> SUFFICES ASSUME Shape, Queued, [Next]_vars PROVE Queued'
      OBVIOUS
    <2>1. CASE UNCHANGED trigger
      BY <2>1 DEF Queued
    <2>2. ASSUME NEW t \in Threads, Trigger(t), ~ UNCHANGED trigger PROVE Queued'
      <3>1. PICK x \in Sharing, p \in Pris : x = to[t] /\ p = Pri[x]
        BY <2>2, PrisOrder DEF Trigger, Shape, Calls
      <3>2. trigger' = [trigger EXCEPT ![p] = Append(@, x)] /\ trigger[p] \in Seq(Sharing)
        BY <2>2, <3>1 DEF Trigger, Shape, Sorts
      <3> SUFFICES ASSUME NEW o \in Pris, NEW i \in DOMAIN trigger'[o] PROVE Pri[trigger'[o][i]] = o
        BY DEF Queued
      <3>3. CASE o # p
        BY <3>2, <3>3 DEF Queued, Shape, Sorts
      <3>4. CASE o = p
        <4>1. trigger'[p] = Append(trigger[p], x)
          BY <3>2 DEF Shape, Sorts
        <4>2. i \in Nat
          BY <3>2, <3>4, <4>1, LastOf, ElementOf
        <4>3. (i \in DOMAIN trigger[p] /\ trigger'[p][i] = trigger[p][i]) \/ trigger'[p][i] = x
          BY <3>2, <3>4, <4>1, <4>2, LastOf
        <4> QED
          BY <3>1, <3>4, <4>3 DEF Queued
      <3> QED
        BY <3>3, <3>4
    <2>3. CASE MultiTake
      <3>1. PICK p \in Pris : p = pri
        BY DEF Shape, Sorts
      <3>2. /\ trigger' = [trigger EXCEPT ![p] = Tail(@)]
            /\ trigger[p] \in Seq(Sharing) /\ trigger[p] # << >>
        BY <2>3, <3>1 DEF MultiTake, Shape, Sorts
      <3> SUFFICES ASSUME NEW o \in Pris, NEW i \in DOMAIN trigger'[o] PROVE Pri[trigger'[o][i]] = o
        BY DEF Queued
      <3>3. CASE o # p
        BY <3>2, <3>3 DEF Queued, Shape, Sorts
      <3>4. CASE o = p
        <4>1. trigger'[p] = Tail(trigger[p])
          BY <3>2 DEF Shape, Sorts
        <4>2. i \in DOMAIN Tail(trigger[p]) /\ i \in Nat
          <5>1. Tail(trigger[p]) \in Seq(Sharing)
            BY <3>2, FirstOf
          <5> QED
            BY <3>4, <4>1, <5>1, ElementOf
        <4>3. i + 1 \in DOMAIN trigger[p] /\ Tail(trigger[p])[i] = trigger[p][i + 1]
          BY <3>2, <4>2, FirstOf
        <4> QED
          BY <3>4, <4>1, <4>3 DEF Queued
      <3> QED
        BY <3>3, <3>4
    <2>4. \/ UNCHANGED trigger
          \/ MultiTake
          \/ \E t \in Threads : Trigger(t)
      BY DEF Next, Sends, Waits, Runs, Produce, Ask, Alloc, Put, Post, GetAck, Release, OwnReceive,
             MultiWake, MultiNext, Handle, Flush, Process, vars
    <2> QED
      BY <2>1, <2>2, <2>3, <2>4
  <1> QED
    BY <1>1, <1>2, ShapeKept, PTL DEF Spec

(* A finite set numbered from 1.                                             *)
Numbers(S) == CHOOSE g : g \in Injection(S, 1 .. Cardinality(S))

LEMMA NumbersAre ==
  ASSUME NEW S, IsFiniteSet(S)
  PROVE  Numbers(S) \in Injection(S, 1 .. Cardinality(S))
  <1>1. Cardinality(S) \in Nat
    BY FS_CardinalityType
  <1>2. IsFiniteSet(1 .. Cardinality(S)) /\ Cardinality(1 .. Cardinality(S)) = Cardinality(S)
    BY <1>1, FS_Interval
  <1>3. ExistsBijection(S, 1 .. Cardinality(S))
    BY <1>2, FS_SameCardinalityBij
  <1>4. \E g : g \in Injection(S, 1 .. Cardinality(S))
    BY <1>3 DEF ExistsBijection, Bijection
  <1> QED
    BY <1>4 DEF Numbers

(* A queue of triggers as long as the pool, with fewer of one link than it    *)
(* has messages, has more of another than that one has.                     *)
LEMMA AnotherStale ==
  ASSUME Shape, Books, Queued, TriggerMax >= PoolMax, NEW l \in Sharing,
         Len(trigger[Pri[l]]) >= TriggerMax, Cardinality(Hits(trigger[Pri[l]], l)) < Len(recvQue[l])
  PROVE  \E m \in Sharing : /\ m # l /\ Pri[m] = Pri[l]
                            /\ Cardinality(Hits(trigger[Pri[m]], m)) > Len(recvQue[m])
  <1> SUFFICES ASSUME \A m \in Sharing : m # l /\ Pri[m] = Pri[l]
                         => ~(Cardinality(Hits(trigger[Pri[m]], m)) > Len(recvQue[m]))
               PROVE  FALSE
    OBVIOUS
  <1>1. PICK q : q = trigger[Pri[l]]
    OBVIOUS
  <1>2. q \in Seq(Sharing) /\ Len(q) \in Nat /\ DOMAIN q = 1 .. Len(q) /\ Pri[l] \in Pris
    BY <1>1, PrisOrder, LenProperties DEF Shape, Sorts
  <1>3. ASSUME NEW m \in Sharing, Pri[m] = Pri[l]
        PROVE  /\ Cardinality(Hits(q, m)) <= Len(recvQue[m])
               /\ DOMAIN recvQue[m] = 1 .. Len(recvQue[m]) /\ Len(recvQue[m]) \in Nat
               /\ Cardinality(Hits(q, m)) \in Nat
    <2>1. recvQue[m] \in Seq(Messages) /\ Cardinality(Hits(trigger[Pri[m]], m)) \in Nat
      BY Counts
    <2>2. Len(recvQue[m]) \in Nat /\ DOMAIN recvQue[m] = 1 .. Len(recvQue[m])
      BY <2>1, LenProperties
    <2>3. Cardinality(Hits(q, m)) = Cardinality(Hits(trigger[Pri[m]], m))
      BY <1>1, <1>3
    <2> QED
      BY <1>3, <2>1, <2>2, <2>3
  <1>4. ASSUME NEW i \in DOMAIN q
        PROVE  /\ q[i] \in Sharing /\ Pri[q[i]] = Pri[l] /\ i \in Hits(q, q[i])
               /\ Numbers(Hits(q, q[i])) \in Injection(Hits(q, q[i]), 1 .. Cardinality(Hits(q, q[i])))
    <2>1. q[i] \in Sharing
      BY <1>2, <1>4, ElementOf
    <2>2. Pri[q[i]] = Pri[l]
      BY <1>1, <1>2, <1>4 DEF Queued
    <2>3. IsFiniteSet(Hits(q, q[i]))
      BY <1>2, HitsFinite
    <2> QED
      BY <1>4, <2>1, <2>2, <2>3, NumbersAre DEF Hits
  <1> DEFINE F == [i \in DOMAIN q |-> <<q[i], Numbers(Hits(q, q[i]))[i]>>]
             T == Places(recvQue, Links) \ {<<l, Len(recvQue[l])>>}
  <1>5. ASSUME NEW i \in DOMAIN q PROVE F[i] \in T
    <2>1. PICK m \in Sharing : m = q[i] /\ Pri[m] = Pri[l]
      BY <1>4
    <2>2. PICK n : n = Numbers(Hits(q, m))[i]
      OBVIOUS
    <2>3. n \in 1 .. Cardinality(Hits(q, m))
      BY <1>4, <2>1, <2>2 DEF Injection
    <2>4. n \in Nat /\ n \in DOMAIN recvQue[m] /\ n <= Cardinality(Hits(q, m))
      BY <1>3, <2>1, <2>3
    <2>5. <<m, n>> \in Places(recvQue, Links)
      BY <2>4, Kinds DEF Places
    <2>6. m = l => n # Len(recvQue[l])
      BY <1>1, <1>3, <2>1, <2>4
    <2>7. F[i] = <<m, n>>
      BY <1>5, <2>1, <2>2
    <2> QED
      BY <2>5, <2>6, <2>7
  <1>6. ASSUME NEW i \in DOMAIN q, NEW j \in DOMAIN q, F[i] = F[j] PROVE i = j
    <2>1. q[i] = q[j] /\ Numbers(Hits(q, q[i]))[i] = Numbers(Hits(q, q[i]))[j]
      BY <1>6
    <2>2. i \in Hits(q, q[i]) /\ j \in Hits(q, q[i])
      BY <1>4, <2>1
    <2>3. Numbers(Hits(q, q[i])) \in Injection(Hits(q, q[i]), 1 .. Cardinality(Hits(q, q[i])))
      BY <1>4
    <2> QED
      BY <2>1, <2>2, <2>3 DEF Injection, IsInjective
  <1>7. F \in Injection(DOMAIN q, T)
    BY <1>5, <1>6 DEF Injection, IsInjective
  <1> HIDE DEF F
  <1>8. /\ Total(recvQue) = Cardinality(Places(recvQue, Links)) /\ IsFiniteSet(Places(recvQue, Links))
        /\ Total(recvQue) \in Nat
    BY TotalIs, SetsFinite DEF Shape, Sorts
  <1>9. <<l, Len(recvQue[l])>> \in Places(recvQue, Links)
    <2>1. Len(recvQue[l]) \in DOMAIN recvQue[l] /\ Len(recvQue[l]) \in Nat
      BY <1>1, <1>3
    <2> QED
      BY <2>1, Kinds DEF Places
  <1>10. IsFiniteSet(T) /\ Cardinality(T) = Total(recvQue) - 1
    BY <1>8, <1>9, FS_RemoveElement
  <1> HIDE DEF T
  <1>11. Cardinality(DOMAIN q) <= Cardinality(T)
    BY <1>7, <1>10, FS_Injection
  <1>12. Cardinality(DOMAIN q) = Len(q)
    <2>1. PICK n \in Nat : n = Len(q)
      BY <1>2
    <2>2. Cardinality(1 .. n) = n
      BY FS_Interval
    <2> QED
      BY <1>2, <2>1, <2>2
  <1>13. Total(recvQue) <= PoolMax
    BY ConservedIs, Counted, MbxAssumption DEF Books
  <1> QED
    BY <1>1, <1>2, <1>8, <1>10, <1>11, <1>12, <1>13, MbxAssumption

LEMMA NextEnough ==
  ASSUME Shape, Queued, [Next]_vars, NEW l \in Sharing, Enough(l),
         ~ \E s \in Senders : Trigger(s) /\ to[s] = l /\ ~(Len(trigger[Pri[l]]) < TriggerMax)
  PROVE  Enough(l)'
  <1> USE Kinds
  <1>1. ASSUME NEW s \in Senders, NEW m \in Links, Produce(s, m) PROVE Enough(l)'
    <2>1. /\ pc[s] # "trigger" /\ Goto(s, "alloc") /\ "alloc" \in Labels
          /\ \A u \in Threads : u # s => to'[u] = to[u]
          /\ UNCHANGED <<recvQue, trigger>>
      BY <1>1 DEF Produce, Labels, Shape, Sorts
    <2> QED
      BY <2>1, ThreadEnough
  <1>2. ASSUME NEW c \in Controllers, NEW m \in Links, NEW a \in BOOLEAN, Ask(c, m, a) PROVE Enough(l)'
    <2>1. /\ pc[c] # "trigger" /\ Goto(c, "alloc") /\ "alloc" \in Labels
          /\ \A u \in Threads : u # c => to'[u] = to[u]
          /\ UNCHANGED <<recvQue, trigger>>
      BY <1>2 DEF Ask, Labels, Shape, Sorts
    <2> QED
      BY <2>1, ThreadEnough
  <1>3. ASSUME NEW t \in Threads, Alloc(t) \/ Post(t) PROVE Enough(l)'
    <2>1. /\ pc[t] # "trigger"
          /\ \E label \in Labels : label # "trigger" /\ Goto(t, label)
          /\ \A u \in Threads : u # t => to'[u] = to[u]
          /\ UNCHANGED <<recvQue, trigger>>
      BY <1>3 DEF Alloc, Post, Labels, Shape, Sorts
    <2> QED
      BY <2>1, ThreadEnough
  <1>4. ASSUME NEW c \in Controllers, GetAck(c) \/ Release(c) PROVE Enough(l)'
    <2>1. /\ pc[c] # "trigger"
          /\ \E label \in Labels : label # "trigger" /\ Goto(c, label)
          /\ \A u \in Threads : u # c => to'[u] = to[u]
          /\ UNCHANGED <<recvQue, trigger>>
      BY <1>4 DEF GetAck, Release, Labels, Shape, Sorts
    <2> QED
      BY <2>1, ThreadEnough
  <1>5. ASSUME NEW t \in Tasks, OwnReceive(t) PROVE Enough(l)'
    BY <1>5, TaskEnough DEF OwnReceive, Receive, threadVars
  <1>6. ASSUME NEW t \in Tasks, Handle(t) \/ Flush(t) \/ Process(t) PROVE Enough(l)'
    <2>1. /\ UNCHANGED <<trigger, pc, to>>
          /\ \/ UNCHANGED recvQue
             \/ recvQue[cur[t]] # << >> /\ recvQue' = [recvQue EXCEPT ![cur[t]] = Tail(@)]
      BY <1>6 DEF Handle, Flush, Process, threadVars
    <2> QED
      BY <2>1, TaskEnough
  <1>7. CASE MultiWake \/ MultiNext \/ UNCHANGED vars
    <2>1. UNCHANGED <<trigger, pc, to, recvQue>>
      BY <1>7 DEF MultiWake, MultiNext, threadVars, vars
    <2> QED
      BY <2>1, TaskEnough
  <1>8. ASSUME NEW t \in Threads, Trigger(t) PROVE Enough(l)'
    BY <1>8, TriggerEnough
  <1>9. ASSUME NEW t \in Threads, Put(t) PROVE Enough(l)'
    BY <1>9, PutEnough
  <1>10. CASE MultiTake
    BY <1>10, TakeEnough
  <1>11. \/ \E s \in Senders, m \in Links : Produce(s, m)
         \/ \E c \in Controllers, m \in Links, a \in BOOLEAN : Ask(c, m, a)
         \/ \E t \in Threads : Alloc(t) \/ Put(t) \/ Trigger(t) \/ Post(t)
         \/ \E c \in Controllers : GetAck(c) \/ Release(c)
         \/ \E t \in Tasks : OwnReceive(t) \/ Handle(t) \/ Flush(t) \/ Process(t)
         \/ MultiWake \/ MultiTake \/ MultiNext \/ UNCHANGED vars
    BY Zenon DEF Next, Sends, Waits, Runs
  <1> QED
    BY <1>1, <1>2, <1>3, <1>4, <1>5, <1>6, <1>7, <1>8, <1>9, <1>10, <1>11, Zenon

(* A message loses its trigger in one way only: the queue of its priority,    *)
(* as long as the pool (utils_tsk.h:86, utils_mbx.c:54), is full, and flushes  *)
(* of another link's mailbox left triggers in it.  For any number of links,  *)
(* queues, senders and controllers.                                         *)
THEOREM OnlyStaleCrowdsOut ==
  ASSUME TriggerMax >= PoolMax
  PROVE  Spec => LostToStale
  <1> DEFINE Lost == \A l \in Sharing : Triggered(l) /\ ~Triggered(l)'
                        => \E s \in Senders, m \in Sharing : LostTo(s, l, m)
  <1>1. ASSUME Shape, Books, Queued, [Next]_vars PROVE Lost
    <2> SUFFICES ASSUME NEW l \in Sharing, Enough(l), ~Enough(l)'
                 PROVE  \E s \in Senders, m \in Sharing : LostTo(s, l, m)
      BY TriggeredIs
    <2>1. PICK s \in Senders : Trigger(s) /\ to[s] = l /\ ~(Len(trigger[Pri[l]]) < TriggerMax)
      BY <1>1, NextEnough
    <2>2. Len(trigger[Pri[l]]) >= TriggerMax
      <3>1. Len(trigger[Pri[l]]) \in Nat
        BY <1>1, Counts, LenProperties
      <3> QED
        BY <2>1, <3>1, MbxAssumption
    <2>3. pc[s] = "trigger" /\ pc'[s] = "post" /\ UNCHANGED <<recvQue, trigger>>
      <3>1. pc[s] = "trigger" /\ pc' = [pc EXCEPT ![s] = "post"] /\ UNCHANGED recvQue
        BY <2>1 DEF Trigger, Goto
      <3>2. UNCHANGED trigger
        BY <2>1 DEF Trigger
      <3> QED
        BY <1>1, <3>1, <3>2, Kinds DEF Shape, Sorts
    <2>4. Cardinality(Hits(trigger[Pri[l]], l)) < Len(recvQue[l])
      <3>1. PICK n : n = Cardinality(Triggering(l))'
        OBVIOUS
      <3>2. n \in Nat
        <4>1. Triggering(l)' \subseteq Threads
          BY DEF Triggering
        <4> QED
          BY <3>1, <4>1, SetsFinite, FS_Subset, FS_CardinalityType
      <3>3. ~(Len(recvQue[l]) <= Cardinality(Hits(trigger[Pri[l]], l)) + n)
        BY <2>3, <3>1 DEF Enough
      <3> QED
        BY <1>1, <3>2, <3>3, Counts
    <2>5. PICK m \in Sharing : /\ m # l /\ Pri[m] = Pri[l]
                               /\ Cardinality(Hits(trigger[Pri[m]], m)) > Len(recvQue[m])
      BY <1>1, <2>2, <2>4, AnotherStale
    <2> QED
      BY <2>1, <2>2, <2>3, <2>5, TriggeredIs DEF LostTo
  <1>2. Shape /\ Books /\ Queued /\ [Next]_vars => [Lost]_vars
    BY <1>1
  <1>3. [](Shape /\ Books /\ Queued) /\ [][Next]_vars => [][Lost]_vars
    BY <1>2, PTL
  <1> QED
    BY <1>3, ShapeKept, BooksKept, QueuedKept, PTL DEF Spec, LostToStale

-----------------------------------------------------------------------------
(* The queues of the code are bounded, those of the model are not.           *)

Fits ==
  /\ free <= PoolMax
  /\ \A l \in Links : Len(recvQue[l]) <= PoolMax
  /\ \A k \in Slots : Len(ackQue[k]) <= 1

LEMMA FewAcks == ASSUME Shape, Placed, NEW k \in Slots PROVE Len(ackQue[k]) <= 1
  <1>1. ackQue[k] \in Seq(Messages) /\ k # 0
    BY MbxAssumption DEF Shape, Sorts, Slots
  <1>2. Len(ackQue[k]) \in Nat /\ DOMAIN ackQue[k] = 1 .. Len(ackQue[k])
    BY <1>1, LenProperties
  <1>3. ASSUME 1 \in DOMAIN ackQue[k], 2 \in DOMAIN ackQue[k] PROVE FALSE
    <2>1. PICK c, d \in Controllers : InAck(c, k, 1) /\ InAck(d, k, 2)
      BY <1>3 DEF Placed, InAck
    <2>2. slot[c] = k /\ slot[d] = k
      BY <2>1 DEF Placed, Somewhere, At
    <2>3. c = d
      BY <1>1, <2>2 DEF Shape, Owned, Alone
    <2> QED
      BY <2>1, <2>3 DEF Placed, Somewhere, At
  <1> QED
    BY <1>2, <1>3

(* A put in the free queue, in a mailbox (UTILS_MBX_RECV_QUE_LEN_MAX is the   *)
(* size of the pool) or in an ack queue (UTILS_MBX_ACK_QUE_LEN_MAX is 2) finds *)
(* room: the error paths of Utils_mbxSendCmd and Utils_mbxSendMsg for a full   *)
(* mailbox, which the model leaves out, are never taken.                    *)
THEOREM QueuesSuffice == Spec => []Fits
  <1>1. ASSUME Shape, Books, Placed PROVE Fits
    <2>1. free <= PoolMax
      BY <1>1, ConservedIs, Counted, MbxAssumption DEF Books
    <2>2. ASSUME NEW l \in Links PROVE Len(recvQue[l]) <= PoolMax
      <3>1. recvQue \in [Links -> Seq(Messages)] /\ Len(recvQue[l]) \in Nat
        BY <1>1, LenProperties DEF Shape, Sorts
      <3>2. Len(recvQue[l]) <= Total(recvQue)
        BY <3>1, SetsFinite, TotalAtLeast
      <3>3. Total(recvQue) <= PoolMax /\ Total(recvQue) \in Nat
        BY <1>1, ConservedIs, Counted, MbxAssumption DEF Books
      <3> QED
        BY <3>1, <3>2, <3>3, MbxAssumption
    <2> QED
      BY <1>1, <2>1, <2>2, FewAcks DEF Fits
  <1> QED
    BY <1>1, ShapeKept, BooksKept, InitPlaced, NextPlaced, PTL DEF Spec

-----------------------------------------------------------------------------
(* Data that a link was told of.                                            *)

(* A sender is about to put its message, the message is in the mailbox, or    *)
(* the task is on its way to the data.                                      *)
Announcing(l) == \E t \in Senders : pc[t] \in {"alloc", "put"} /\ to[t] = l
Pending(l)    == \E i \in DOMAIN recvQue[l] : recvQue[l][i].cmd = "NEW_DATA"
Looking(l)    == \E t \in Tasks : /\ tpc[t] \in Serving /\ cur[t] = l
                                  /\ tpc[t] = "handle" => hand[t].cmd = "NEW_DATA"

Coming(l) == data[l] > 0 => refused[l] \/ Announcing(l) \/ Pending(l) \/ Looking(l)
Announced == \A l \in Links : Coming(l)

LEMMA StillComing ==
  ASSUME NEW l \in Links, Coming(l), data'[l] = data[l], refused'[l] = refused[l],
         Announcing(l) => Announcing(l)', Pending(l) => Pending(l)' \/ Looking(l)',
         Looking(l) => Looking(l)'
  PROVE  Coming(l)'
  BY DEF Coming

(* Whose call is not about to put stays where it is.                        *)
LEMMA StillAnnouncing ==
  ASSUME Shape, NEW t \in Threads, NEW label, Goto(t, label),
         \A u \in Threads : u # t => to'[u] = to[u],
         NEW l \in Links,
         t \in Controllers \/ pc[t] \notin {"alloc", "put"} \/ to[t] # l
           \/ (label \in {"alloc", "put"} /\ to'[t] = to[t])
  PROVE  Announcing(l) => Announcing(l)'
  <1>1. pc'[t] = label /\ \A u \in Threads : u # t => pc'[u] = pc[u]
    BY DEF Shape, Sorts, Goto
  <1> SUFFICES ASSUME NEW u \in Senders, pc[u] \in {"alloc", "put"}, to[u] = l
               PROVE  pc'[u] \in {"alloc", "put"} /\ to'[u] = l
    BY DEF Announcing
  <1>2. CASE u = t
    BY <1>1, <1>2, Kinds
  <1>3. CASE u # t
    BY <1>1, <1>3, Kinds
  <1> QED
    BY <1>2, <1>3

LEMMA SameTasks == ASSUME UNCHANGED taskVars, NEW l PROVE Looking(l) => Looking(l)'
  BY DEF taskVars, Looking

LEMMA SameMail == ASSUME UNCHANGED recvQue, NEW l PROVE Pending(l) => Pending(l)'
  BY DEF Pending

(* A call that is not about to put.                                         *)
LEMMA CallAnnounced ==
  ASSUME Shape, Announced, NEW t \in Threads, NEW label, Goto(t, label),
         t \in Controllers \/ pc[t] \notin {"alloc", "put"},
         \A u \in Threads : u # t => to'[u] = to[u],
         UNCHANGED <<recvQue, taskVars>>,
         \A l \in Links : /\ data'[l] = data[l]
                          /\ refused'[l] = refused[l] \/ refused'[l] = (data[l] > 0)
  PROVE  Announced'
  <1> SUFFICES ASSUME NEW l \in Links PROVE Coming(l)'
    BY DEF Announced
  <1>1. Announcing(l) => Announcing(l)'
    BY StillAnnouncing
  <1>2. CASE refused'[l] = refused[l]
    BY <1>1, <1>2, SameTasks, SameMail, StillComing DEF Announced
  <1>3. CASE refused'[l] = (data[l] > 0)
    BY <1>3 DEF Coming
  <1> QED
    BY <1>2, <1>3

LEMMA ProduceAnnounced ==
  ASSUME Shape, Announced, NEW s \in Senders, NEW k \in Links, Produce(s, k)
  PROVE  Announced'
  <1> SUFFICES ASSUME NEW l \in Links PROVE Coming(l)'
    BY DEF Announced
  <1>1. /\ s \in Threads /\ pc[s] = "idle" /\ Goto(s, "alloc") /\ to' = [to EXCEPT ![s] = k]
        /\ UNCHANGED <<recvQue, taskVars, refused>>
    BY Kinds DEF Produce
  <1>2. CASE l = k
    <2>1. pc'[s] = "alloc" /\ to'[s] = l
      BY <1>1, <1>2 DEF Goto, Shape, Sorts
    <2>2. Announcing(l)'
      BY <2>1 DEF Announcing
    <2> QED
      BY <2>2 DEF Coming
  <1>3. CASE l # k
    <2>1. data'[l] = data[l]
      BY <1>3 DEF Produce
    <2>2. \A u \in Threads : u # s => to'[u] = to[u]
      BY <1>1 DEF Shape, Sorts
    <2>3. Announcing(l) => Announcing(l)'
      BY <1>1, <2>2, StillAnnouncing
    <2> QED
      BY <1>1, <2>1, <2>3, SameTasks, SameMail, StillComing DEF Announced
  <1> QED
    BY <1>2, <1>3

LEMMA AllocAnnounced == ASSUME Shape, Books, Announced, NEW t \in Threads, Alloc(t) PROVE Announced'
  <1> SUFFICES ASSUME NEW l \in Links PROVE Coming(l)'
    BY DEF Announced
  <1>1. pc[t] = "alloc" /\ to[t] \in Links /\ UNCHANGED <<recvQue, taskVars, data>>
    BY DEF Alloc, Shape, Calls
  <1>2. CASE Goto(t, "put") /\ UNCHANGED <<to, refused>>
    <2>1. Announcing(l) => Announcing(l)'
      BY <1>2, StillAnnouncing
    <2> QED
      BY <1>1, <1>2, <2>1, SameTasks, SameMail, StillComing DEF Announced
  <1>3. CASE /\ Goto(t, "idle") /\ to' = [to EXCEPT ![t] = NoOne]
             /\ refused' = [refused EXCEPT ![to[t]] = data[to[t]] > 0]
    <2>1. refused \in [Links -> BOOLEAN]
      BY DEF Books
    <2>2. CASE l = to[t]
      <3>1. refused'[l] = (data[l] > 0)
        BY <1>1, <1>3, <2>1, <2>2
      <3> QED
        BY <1>1, <3>1 DEF Coming
    <2>3. CASE l # to[t]
      <3>1. refused'[l] = refused[l]
        BY <1>1, <1>3, <2>1, <2>3
      <3>2. \A u \in Threads : u # t => to'[u] = to[u]
        BY <1>3 DEF Shape, Sorts
      <3>3. Announcing(l) => Announcing(l)'
        BY <1>3, <2>3, <3>2, StillAnnouncing
      <3> QED
        BY <1>1, <3>1, <3>3, SameTasks, SameMail, StillComing DEF Announced
    <2> QED
      BY <2>2, <2>3
  <1> QED
    BY <1>2, <1>3 DEF Alloc

LEMMA PutAnnounced == ASSUME Shape, Announced, NEW t \in Threads, Put(t) PROVE Announced'
  <1> SUFFICES ASSUME NEW l \in Links PROVE Coming(l)'
    BY DEF Announced
  <1>1. /\ pc[t] = "put" /\ to[t] \in Links /\ recvQue \in [Links -> Seq(Messages)]
        /\ recvQue' = [recvQue EXCEPT ![to[t]] = Append(@, Sent(t))] /\ Sent(t) \in Messages
        /\ UNCHANGED <<taskVars, data, refused>>
    BY SentIs DEF Put, Sent, Shape, Calls, Sorts
  <1>2. CASE l = to[t]
    <2>1. recvQue'[l] = Append(recvQue[l], Sent(t)) /\ recvQue[l] \in Seq(Messages)
      BY <1>1, <1>2
    <2>2. PICK n \in Nat : /\ n \in DOMAIN recvQue'[l] /\ recvQue'[l][n] = Sent(t)
                           /\ \A j \in DOMAIN recvQue[l] : /\ j \in DOMAIN recvQue'[l]
                                                           /\ recvQue'[l][j] = recvQue[l][j]
      <3>1. \A j \in DOMAIN recvQue[l] : j \in Nat
        BY <2>1, ElementOf
      <3> QED
        BY <1>1, <2>1, <3>1, LastOf
    <2>3. Pending(l) => Pending(l)'
      BY <2>2 DEF Pending
    <2>4. CASE t \in Senders
      <3>1. Sent(t).cmd = "NEW_DATA"
        BY <2>4 DEF Sent, NewData
      <3>2. Pending(l)'
        BY <2>2, <3>1 DEF Pending
      <3> QED
        BY <3>2 DEF Coming
    <2>5. CASE t \notin Senders
      <3>1. Announcing(l) => Announcing(l)'
        BY <1>1, <2>5, Kinds DEF Announcing, Put, Goto, Shape, Sorts
      <3> QED
        BY <1>1, <2>3, <3>1, SameTasks, StillComing DEF Announced
    <2> QED
      BY <2>4, <2>5
  <1>3. CASE l # to[t]
    <2>1. recvQue'[l] = recvQue[l]
      BY <1>1, <1>3
    <2>2. Pending(l) => Pending(l)'
      BY <2>1 DEF Pending
    <2>3. \A u \in Threads : u # t => to'[u] = to[u]
      BY DEF Put, Shape, Sorts
    <2>4. \E label : Goto(t, label)
      BY DEF Put
    <2>5. Announcing(l) => Announcing(l)'
      BY <1>3, <2>3, <2>4, StillAnnouncing
    <2> QED
      BY <1>1, <2>2, <2>5, SameTasks, StillComing DEF Announced
  <1> QED
    BY <1>2, <1>3

LEMMA TriggerAnnounced == ASSUME Shape, Books, Announced, NEW t \in Threads, Trigger(t) PROVE Announced'
  <1>1. /\ pc[t] = "trigger" /\ Goto(t, "post") /\ to[t] \in Links
        /\ UNCHANGED <<recvQue, taskVars, data, to>>
    BY DEF Trigger, Shape, Calls
  <1>2. ASSUME NEW l \in Links PROVE refused'[l] = refused[l] \/ refused'[l] = (data[l] > 0)
    <2>1. refused' = refused \/ refused' = [refused EXCEPT ![to[t]] = data[to[t]] > 0]
      BY DEF Trigger
    <2>2. refused \in [Links -> BOOLEAN]
      BY DEF Books
    <2> QED
      BY <1>1, <2>1, <2>2
  <1> QED
    BY <1>1, <1>2, CallAnnounced

(* A step of task t.                                                        *)
LEMMA StillLooking ==
  ASSUME NEW t \in Tasks, NEW l \in Links,
         \A u \in Tasks : u # t => tpc'[u] = tpc[u] /\ cur'[u] = cur[u] /\ hand'[u] = hand[u],
         tpc[t] \notin Serving \/ cur[t] # l
           \/ (tpc[t] = "handle" /\ hand[t].cmd # "NEW_DATA")
           \/ (tpc'[t] \in {"flush", "process"} /\ cur'[t] = l)
  PROVE  Looking(l) => Looking(l)'
  <1> SUFFICES ASSUME NEW u \in Tasks, tpc[u] \in Serving, cur[u] = l,
                      tpc[u] = "handle" => hand[u].cmd = "NEW_DATA"
               PROVE  Looking(l)'
    BY DEF Looking
  <1>1. CASE u # t
    BY <1>1 DEF Looking
  <1>2. CASE u = t
    <2>1. tpc'[t] \in {"flush", "process"} /\ cur'[t] = l
      BY <1>2
    <2> QED
      BY <2>1 DEF Looking, Serving
  <1> QED
    BY <1>1, <1>2

LEMMA ReceiveAnnounced ==
  ASSUME Shape, Announced, NEW t \in Tasks, NEW k \in Links, recvQue[k] # << >>, Receive(t, k),
         tpc[t] \notin Serving, UNCHANGED <<pc, to, data, refused>>
  PROVE  Announced'
  <1> SUFFICES ASSUME NEW l \in Links PROVE Coming(l)'
    BY DEF Announced
  <1>1. /\ recvQue[k] \in Seq(Messages) /\ recvQue' = [recvQue EXCEPT ![k] = Tail(@)]
        /\ hand'[t] = Head(recvQue[k]) /\ cur'[t] = k /\ tpc'[t] = "handle"
        /\ \A u \in Tasks : u # t => tpc'[u] = tpc[u] /\ cur'[u] = cur[u] /\ hand'[u] = hand[u]
    BY DEF Receive, Shape, Sorts
  <1>2. Announcing(l) => Announcing(l)'
    BY DEF Announcing
  <1>3. Looking(l) => Looking(l)'
    BY <1>1, StillLooking
  <1>4. Pending(l) => Pending(l)' \/ Looking(l)'
    <2> SUFFICES ASSUME NEW i \in DOMAIN recvQue[l], recvQue[l][i].cmd = "NEW_DATA"
                 PROVE  Pending(l)' \/ Looking(l)'
      BY DEF Pending
    <2>1. CASE l # k
      <3>1. recvQue'[l] = recvQue[l]
        BY <1>1, <2>1 DEF Shape, Sorts
      <3> QED
        BY <3>1 DEF Pending
    <2>2. CASE l = k /\ i = 1
      <3>1. hand'[t].cmd = "NEW_DATA"
        BY <1>1, <2>2, FirstOf
      <3> QED
        BY <1>1, <2>2, <3>1 DEF Looking, Serving
    <2>3. CASE l = k /\ i # 1
      <3>1. recvQue'[l] = Tail(recvQue[l])
        BY <1>1, <2>3 DEF Shape, Sorts
      <3>2. i \in Nat /\ i # 0
        BY <1>1, <2>3, ElementOf
      <3>3. PICK j \in Nat : j + 1 = i /\ j # 0
        <4>1. i - 1 \in Nat /\ (i - 1) + 1 = i /\ i - 1 # 0
          BY <2>3, <3>2
        <4> QED
          BY <4>1
      <3>4. j \in DOMAIN Tail(recvQue[l]) /\ Tail(recvQue[l])[j] = recvQue[l][i]
        BY <1>1, <2>3, <3>3, FirstOf
      <3> QED
        BY <3>1, <3>4 DEF Pending
    <2> QED
      BY <2>1, <2>2, <2>3
  <1> QED
    BY <1>2, <1>3, <1>4, StillComing DEF Announced

(* A task that takes no message.                                            *)
LEMMA TaskAnnounced ==
  ASSUME Shape, Announced, NEW t \in Tasks, UNCHANGED <<recvQue, pc, to, data, refused>>,
         \A u \in Tasks : u # t => tpc'[u] = tpc[u] /\ cur'[u] = cur[u] /\ hand'[u] = hand[u],
         \/ tpc[t] \notin Serving
         \/ tpc[t] = "handle" /\ hand[t].cmd # "NEW_DATA"
         \/ tpc'[t] \in {"flush", "process"} /\ cur'[t] = cur[t]
  PROVE  Announced'
  <1> SUFFICES ASSUME NEW l \in Links PROVE Coming(l)'
    BY DEF Announced
  <1>1. Announcing(l) => Announcing(l)'
    BY DEF Announcing
  <1>2. Looking(l) => Looking(l)'
    BY StillLooking
  <1> QED
    BY <1>1, <1>2, SameMail, StillComing DEF Announced

LEMMA TakeAnnounced == ASSUME Shape, Announced, MultiTake PROVE Announced'
  <1>1. PICK l : l = Head(trigger[pri])
    OBVIOUS
  <1>2. l \in Links
    <2>1. trigger[pri] \in Seq(Sharing) /\ trigger[pri] # << >>
      BY DEF MultiTake, Shape, Sorts
    <2> QED
      BY <1>1, <2>1, FirstOf, Kinds
  <1>3. tpc[Multi] \notin Serving /\ Multi \in Tasks /\ UNCHANGED <<pc, to, data, refused>>
    BY Kinds DEF MultiTake, threadVars, Serving
  <1>4. CASE recvQue[l] = << >>
    BY <1>1, <1>3, <1>4, TaskAnnounced DEF MultiTake
  <1>5. CASE recvQue[l] # << >>
    <2>1. Receive(Multi, l)
      BY <1>1, <1>5 DEF MultiTake
    <2> QED
      BY <1>2, <1>3, <1>5, <2>1, ReceiveAnnounced
  <1> QED
    BY <1>4, <1>5

LEMMA HandleAnnounced == ASSUME Shape, Announced, NEW t \in Tasks, Handle(t) PROVE Announced'
  <1>1. /\ tpc[t] = "handle" /\ UNCHANGED <<recvQue, pc, to, data, refused>>
        /\ \A u \in Tasks : u # t => tpc'[u] = tpc[u] /\ cur'[u] = cur[u] /\ hand'[u] = hand[u]
    BY DEF Handle, threadVars, Shape, Sorts
  <1>2. hand[t].cmd = "NEW_DATA" => tpc'[t] = "flush" /\ cur'[t] = cur[t]
    BY DEF Handle, Shape, Sorts
  <1> QED
    BY <1>1, <1>2, TaskAnnounced

LEMMA FlushAnnounced == ASSUME Shape, Announced, NEW t \in Tasks, Flush(t) PROVE Announced'
  <1> SUFFICES ASSUME NEW l \in Links PROVE Coming(l)'
    BY DEF Announced
  <1>1. /\ tpc[t] = "flush" /\ tpc'[t] \in {"flush", "process"} /\ cur'[t] = cur[t]
        /\ UNCHANGED <<pc, to, data, refused>>
        /\ \A u \in Tasks : u # t => tpc'[u] = tpc[u] /\ cur'[u] = cur[u] /\ hand'[u] = hand[u]
    BY DEF Flush, threadVars, Shape, Sorts
  <1>2. CASE l = cur[t]
    <2>1. Looking(l)'
      BY <1>1, <1>2 DEF Looking, Serving
    <2> QED
      BY <2>1 DEF Coming
  <1>3. CASE l # cur[t]
    <2>1. recvQue'[l] = recvQue[l]
      BY <1>3 DEF Flush, Shape, Sorts
    <2>2. Pending(l) => Pending(l)'
      BY <2>1 DEF Pending
    <2>3. Announcing(l) => Announcing(l)'
      BY <1>1 DEF Announcing
    <2>4. Looking(l) => Looking(l)'
      BY <1>1, <1>3, StillLooking
    <2> QED
      BY <1>1, <2>2, <2>3, <2>4, StillComing DEF Announced
  <1> QED
    BY <1>2, <1>3

LEMMA ProcessAnnounced == ASSUME Shape, Books, Announced, NEW t \in Tasks, Process(t) PROVE Announced'
  <1> SUFFICES ASSUME NEW l \in Links PROVE Coming(l)'
    BY DEF Announced
  <1>1. /\ tpc[t] = "process" /\ UNCHANGED <<recvQue, pc, to, hand>>
        /\ \A u \in Tasks : u # t => tpc'[u] = tpc[u] /\ cur'[u] = cur[u] /\ hand'[u] = hand[u]
        /\ data' = [data EXCEPT ![cur[t]] = 0] /\ refused' = [refused EXCEPT ![cur[t]] = FALSE]
        /\ data \in [Links -> 0 .. MaxData] /\ refused \in [Links -> BOOLEAN]
    BY DEF Process, threadVars, Shape, Sorts, Books
  <1>2. CASE l = cur[t]
    <2>1. data'[l] = 0
      BY <1>1, <1>2
    <2> QED
      BY <2>1 DEF Coming
  <1>3. CASE l # cur[t]
    <2>1. data'[l] = data[l] /\ refused'[l] = refused[l]
      BY <1>1, <1>3
    <2>2. Announcing(l) => Announcing(l)'
      BY <1>1 DEF Announcing
    <2>3. Looking(l) => Looking(l)'
      BY <1>1, <1>3, StillLooking
    <2> QED
      BY <1>1, <2>1, <2>2, <2>3, SameMail, StillComing DEF Announced
  <1> QED
    BY <1>2, <1>3

LEMMA NextAnnounced == Shape /\ Books /\ Announced /\ [Next]_vars => Announced'
  <1> SUFFICES ASSUME Shape, Books, Announced, [Next]_vars PROVE Announced'
    OBVIOUS
  <1> USE Kinds
  <1>1. ASSUME NEW c \in Controllers, NEW l \in Links, NEW a \in BOOLEAN, Ask(c, l, a)
        PROVE  Announced'
    <2>1. /\ c \in Threads /\ Goto(c, "alloc") /\ UNCHANGED <<recvQue, taskVars, data, refused>>
          /\ \A u \in Threads : u # c => to'[u] = to[u]
      BY <1>1 DEF Ask, Shape, Sorts
    <2> QED
      BY <2>1, CallAnnounced
  <1>2. ASSUME NEW t \in Threads, Post(t) PROVE Announced'
    <2>1. /\ \E label : Goto(t, label)
          /\ pc[t] = "post" /\ UNCHANGED <<recvQue, taskVars, data, refused>>
          /\ \A u \in Threads : u # t => to'[u] = to[u]
      BY <1>2 DEF Post, Shape, Sorts
    <2> QED
      BY <2>1, CallAnnounced
  <1>3. ASSUME NEW c \in Controllers, GetAck(c) \/ Release(c) PROVE Announced'
    <2>1. /\ \E label : Goto(c, label)
          /\ UNCHANGED <<recvQue, taskVars, data, refused>>
          /\ \A u \in Threads : u # c => to'[u] = to[u]
      BY <1>3 DEF GetAck, Release, Shape, Sorts
    <2> QED
      BY <2>1, CallAnnounced
  <1>4. ASSUME NEW l \in Tasks, OwnReceive(l) PROVE Announced'
    BY <1>4, ReceiveAnnounced DEF OwnReceive, threadVars, Serving
  <1>5. CASE MultiWake \/ MultiNext
    <2>1. /\ tpc[Multi] \notin Serving /\ UNCHANGED <<recvQue, pc, to, data, refused, cur, hand>>
          /\ \A u \in Tasks : u # Multi => tpc'[u] = tpc[u]
      BY <1>5 DEF MultiWake, MultiNext, threadVars, Serving, Shape, Sorts
    <2> QED
      BY <2>1, TaskAnnounced
  <1>6. CASE UNCHANGED vars
    BY <1>6 DEF vars, threadVars, taskVars, Announced, Coming, Announcing, Pending, Looking
  <1> QED
    BY <1>1, <1>2, <1>3, <1>4, <1>5, <1>6, ProduceAnnounced, AllocAnnounced, PutAnnounced,
       TriggerAnnounced, TakeAnnounced, HandleAnnounced, FlushAnnounced, ProcessAnnounced,
       Zenon DEF Next, Sends, Waits, Runs

(* Data that waits for a link is never forgotten: unless the sender was told   *)
(* that it failed, its command is still to come, waits in the mailbox, or the  *)
(* task has yet to look at the data, whatever the flush takes away.          *)
THEOREM DataComing == Spec => []Announced
  <1>1. Init => Announced
    BY DEF Init, Announced, Coming
  <1> QED
    BY <1>1, ShapeKept, BooksKept, NextAnnounced, PTL DEF Spec
=============================================================================
