----------------------------- MODULE MsgQ_proofs -----------------------------
(***************************************************************************)
(* Proofs about commands between CPUs, for any number of CPUs, controllers   *)
(* and links, any chain of links and any length of the local queues.         *)
(***************************************************************************)
EXTENDS MsgQ, SequenceTheorems, FiniteSetTheorems, TLAPS

Entries == [from : Controllers \cup CPUs, cmd : Commands]
Messages == {NoMsg} \cup [link : Links, cmd : Commands \cup {"GET_INFO"}, by : Clients]
Labels == {"idle", "mbx", "acked", "lock", "clear", "notify", "await"}

-----------------------------------------------------------------------------
(* The inductive invariant.                                                 *)

Holds(t)  == pc[t] \in {"clear", "notify", "await"}
Calling(t) == pc[t] \in {"lock", "clear", "notify", "await"}

(* The caller past Lock has the lock of its CPU, whose message is its own.   *)
Locked ==
  \A t \in Clients : Holds(t) => msgQLock[Cpu[t]] = t /\ procMsg[Cpu[t]] = Message(t)

(* What a call in progress knows, and whether its command has run.          *)
CallOK(t) ==
  /\ pc[t] # "idle" => to[t] \in Links /\ cmd[t] # "NONE"
  /\ Calling(t) => Remote(t, to[t])
  /\ pc[t] \in {"idle", "mbx", "lock", "clear", "notify"} => ran[t] = << >>
  /\ pc[t] = "acked" => ran[t] = <<to[t]>>
  /\ t \in Links => pc[t] \notin {"mbx", "acked"} /\ (pc[t] # "idle" => lpc[t] = "info")

Calls == \A t \in Clients : CallOK(t)

(* The place of the command of CPU c: nowhere (0), on its way to d (1), in   *)
(* the queue of d (2), served by d (3), acknowledged by d (4), or with its   *)
(* acknowledgement posted (5).                                              *)
At(c, d, i) ==
  /\ \A e \in CPUs :
       /\ event[<<c, e>>] = "MSG" <=> (i = 1 /\ e = d)
       /\ (\E k \in DOMAIN msgQLocalQ[e] : msgQLocalQ[e][k] = c) <=> (i = 2 /\ e = d)
       /\ procId[e] = c <=> (i = 3 /\ e = d)
       /\ event[<<e, c>>] = "ACK" <=> (i = 4 /\ e = d)
  /\ msgQAck[c] = 1 <=> i = 5

Awaits(t, c) == Cpu[t] = c /\ pc[t] = "await"
HasRun(d, i) == i = 4 \/ i = 5 \/ (i = 3 /\ tpc[d] = "ack")

(* The local queue has room for every other CPU.                            *)
Room == IsFiniteSet(CPUs) /\ QueMax >= Cardinality(CPUs) - 1

Sound(c, d, i) ==
  /\ i # 0 => \E t \in Clients : Awaits(t, c) /\ d = Cpu[to[t]]
  /\ i = 0 /\ Room => \A t \in Clients : ~Awaits(t, c)
  /\ \A t \in Clients : Awaits(t, c) => ran[t] = IF HasRun(d, i) THEN <<to[t]>> ELSE << >>

Placed == \A c \in CPUs : \E d \in CPUs, i \in 0 .. 5 : At(c, d, i) /\ Sound(c, d, i)

(* The MsgQ tasks: no CPU twice in a queue, no more of them than it holds.   *)
Tasks ==
  \A d \in CPUs :
    /\ Len(msgQLocalQ[d]) <= QueMax
    /\ \A j, k \in DOMAIN msgQLocalQ[d] : msgQLocalQ[d][j] = msgQLocalQ[d][k] => j = k
    /\ tpc[d] = "get" <=> procId[d] = NoOne

(* Who waits for link l to run a command, and its one entry in the mailbox  *)
(* or the hand of the link's task.                                          *)
Waits(r, l) ==
  IF r \in CPUs THEN tpc[r] = "mbx" /\ procMsg[procId[r]].link = l
                ELSE pc[r] = "mbx" /\ to[r] = l

Requesters == Controllers \cup CPUs

InHand(r, l)    == hand[l] # NoCmd /\ hand[l].from = r
Queued(r, l, k) == k \in DOMAIN mbx[l] /\ mbx[l][k].from = r

MailboxOK(l) ==
  /\ lpc[l] = "wait" <=> hand[l] = NoCmd
  /\ \A r \in Requesters :
       /\ InHand(r, l) => Waits(r, l)
       /\ \A k \in Nat : Queued(r, l, k) =>
            /\ Waits(r, l) /\ ~InHand(r, l)
            /\ \A j \in Nat : Queued(r, l, j) => j = k

Mailboxes == \A l \in Links : MailboxOK(l)

Inv == TypeOK /\ Locked /\ Calls /\ Placed /\ Tasks /\ Mailboxes

-----------------------------------------------------------------------------
LEMMA InitInv == Init => Inv
  <1> SUFFICES ASSUME Init PROVE Inv
    OBVIOUS
  <1> USE MsgQAssumption DEF Init
  <1>1. TypeOK
    BY DEF TypeOK, Clients, NoMsg, NoCmd
  <1>2. Locked
    BY DEF Locked, Holds
  <1>3. Calls
    BY DEF Calls, CallOK, Calling
  <1>4. Placed
    <2> SUFFICES ASSUME NEW c \in CPUs PROVE At(c, c, 0) /\ Sound(c, c, 0)
      BY DEF Placed
    <2>1. At(c, c, 0)
      BY DEF At
    <2>2. Sound(c, c, 0)
      BY DEF Sound, Awaits
    <2> QED
      BY <2>1, <2>2
  <1>5. Tasks
    BY DEF Tasks
  <1>6. Mailboxes
    BY DEF Mailboxes, MailboxOK, InHand, Queued
  <1> QED
    BY <1>1, <1>2, <1>3, <1>4, <1>5, <1>6 DEF Inv

(* What holds when no command changes its place.                            *)
LEMMA StillPlaced ==
  ASSUME Placed, UNCHANGED <<event, msgQLocalQ, procId, msgQAck, tpc>>,
         \A t \in Clients : pc'[t] = "await" <=> pc[t] = "await",
         \A t \in Clients : pc[t] = "await" => ran'[t] = ran[t] /\ to'[t] = to[t]
  PROVE  Placed'
  <1> SUFFICES ASSUME NEW c \in CPUs
               PROVE  \E d \in CPUs, i \in 0 .. 5 : At(c, d, i)' /\ Sound(c, d, i)'
    BY DEF Placed
  <1>1. PICK d \in CPUs, i \in 0 .. 5 : At(c, d, i) /\ Sound(c, d, i)
    BY DEF Placed
  <1>2. At(c, d, i)'
    BY <1>1 DEF At
  <1>3. Sound(c, d, i)'
    BY <1>1 DEF Sound, Awaits, HasRun
  <1> QED
    BY <1>2, <1>3

(* An entry of a mailbox is from a controller or a MsgQ task.               *)
LEMMA EntryFrom ==
  ASSUME TypeOK, NEW l \in Links, NEW k \in DOMAIN mbx[l]
  PROVE  mbx[l][k] \in Entries /\ mbx[l][k].from \in Controllers \cup CPUs
  <1>1. mbx[l] \in Seq(Entries)
    BY DEF TypeOK, Entries
  <1>2. k \in 1 .. Len(mbx[l])
    BY <1>1, LenProperties
  <1>3. mbx[l][k] \in Entries
    BY <1>1, <1>2, ElementOfSeq
  <1> QED
    BY <1>3 DEF Entries

(* Who waits goes on waiting.                                               *)
LEMMA StillWaits ==
  ASSUME UNCHANGED <<tpc, procId>>,
         \A d \in CPUs : tpc[d] = "mbx" => procMsg'[procId[d]].link = procMsg[procId[d]].link,
         \A t \in Controllers : pc[t] = "mbx" => pc'[t] = "mbx" /\ to'[t] = to[t]
  PROVE  \A r \in Requesters, l \in Links : Waits(r, l) => Waits(r, l)'
  BY DEF Waits, Requesters

(* What holds when the mailboxes stay as they are and so do those who wait.  *)
LEMMA StillMailboxes ==
  ASSUME Mailboxes, UNCHANGED <<mbx, hand>>,
         \A l \in Links : lpc'[l] = "wait" <=> lpc[l] = "wait",
         \A r \in Requesters, l \in Links : Waits(r, l) => Waits(r, l)'
  PROVE  Mailboxes'
  <1> SUFFICES ASSUME NEW l \in Links PROVE MailboxOK(l)'
    BY DEF Mailboxes
  <1>1. MailboxOK(l)
    BY DEF Mailboxes
  <1>2. \A r \in Requesters : /\ InHand(r, l)' <=> InHand(r, l)
                             /\ \A k \in Nat : Queued(r, l, k)' <=> Queued(r, l, k)
    BY DEF InHand, Queued
  <1> QED
    BY <1>1, <1>2 DEF MailboxOK

(* What holds when an entry of r, which did not wait, is put in the mailbox. *)
LEMMA PutMailboxes ==
  ASSUME TypeOK, Mailboxes, NEW l \in Links, NEW e \in Entries,
         mbx' = [mbx EXCEPT ![l] = Append(@, e)], UNCHANGED <<hand, lpc>>,
         \A m \in Links : ~Waits(e.from, m),
         Waits(e.from, l)',
         \A r \in Requesters, m \in Links : Waits(r, m) => Waits(r, m)'
  PROVE  Mailboxes' /\ mbx' \in [Links -> Seq(Entries)]
  <1>1. mbx \in [Links -> Seq(Entries)]
    BY DEF TypeOK, Entries
  <1>2. /\ Append(mbx[l], e) \in Seq(Entries)
        /\ DOMAIN Append(mbx[l], e) = 1 .. Len(mbx[l]) + 1
        /\ DOMAIN mbx[l] = 1 .. Len(mbx[l]) /\ Len(mbx[l]) \in Nat
        /\ \A j \in 1 .. Len(mbx[l]) : Append(mbx[l], e)[j] = mbx[l][j]
        /\ Append(mbx[l], e)[Len(mbx[l]) + 1] = e
    <2>1. mbx[l] \in Seq(Entries)
      BY <1>1
    <2> QED
      BY <2>1, AppendProperties, LenProperties
  <1>3. mbx' \in [Links -> Seq(Entries)]
    BY <1>1, <1>2
  <1>4. mbx'[l] = Append(mbx[l], e) /\ \A m \in Links : m # l => mbx'[m] = mbx[m]
    BY <1>1
  <1>5. ASSUME NEW m \in Links PROVE MailboxOK(m)'
    <2>1. MailboxOK(m)
      BY DEF Mailboxes
    <2>2. \A r \in Requesters : InHand(r, m)' <=> InHand(r, m)
      BY DEF InHand
    <2>3. CASE m # l
      <3>1. \A r \in Requesters, k \in Nat : Queued(r, m, k)' <=> Queued(r, m, k)
        BY <1>4, <2>3 DEF Queued
      <3> QED
        BY <2>1, <2>2, <3>1 DEF MailboxOK
    <2>4. CASE m = l
      <3>1. \A r \in Requesters, k \in Nat :
              Queued(r, l, k)' <=> Queued(r, l, k) \/ (k = Len(mbx[l]) + 1 /\ r = e.from)
        BY <1>2, <1>4 DEF Queued
      <3>2. \A k \in Nat, r \in Requesters : Queued(r, l, k) => k # Len(mbx[l]) + 1
        BY <1>2 DEF Queued
      <3>3. \A r \in Requesters : (InHand(r, l) \/ \E k \in Nat : Queued(r, l, k)) => r # e.from
        BY <2>1, <2>4 DEF MailboxOK
      <3> QED
        BY <2>1, <2>2, <2>4, <3>1, <3>2, <3>3 DEF MailboxOK
    <2> QED
      BY <2>3, <2>4
  <1> QED
    BY <1>3, <1>5 DEF Mailboxes

(* The callers of a CPU that are past Lock are one.                         *)
LEMMA OneHolder ==
  ASSUME Locked, NEW t \in Clients, NEW u \in Clients, Holds(t), Holds(u), Cpu[t] = Cpu[u]
  PROVE  t = u
  BY DEF Locked

(* What a MsgQ task that serves a CPU knows.                                *)
LEMMA Serving ==
  ASSUME Inv, NEW d \in CPUs, tpc[d] # "get"
  PROVE  /\ procId[d] \in CPUs
         /\ \E t \in Clients :
              /\ Awaits(t, procId[d]) /\ to[t] \in Links /\ d = Cpu[to[t]] /\ d # procId[d]
              /\ procMsg[procId[d]] = Message(t)
              /\ ran[t] = IF tpc[d] = "ack" THEN <<to[t]>> ELSE << >>
              /\ At(procId[d], d, 3) /\ Sound(procId[d], d, 3)
  <1> DEFINE c == procId[d]
  <1>1. c \in CPUs
    BY DEF Inv, TypeOK, Tasks
  <1>2. PICK e \in CPUs, i \in 0 .. 5 : At(c, e, i) /\ Sound(c, e, i)
    BY <1>1 DEF Inv, Placed
  <1>3. i = 3 /\ e = d
    BY <1>2 DEF At
  <1>4. PICK t \in Clients : Awaits(t, c) /\ d = Cpu[to[t]]
    BY <1>2, <1>3 DEF Sound
  <1>5. to[t] \in Links /\ d # c
    BY <1>4 DEF Inv, Calls, CallOK, Calling, Awaits, Remote
  <1>6. procMsg[c] = Message(t)
    BY <1>4 DEF Inv, Locked, Holds, Awaits
  <1>7. ran[t] = IF tpc[d] = "ack" THEN <<to[t]>> ELSE << >>
    BY <1>2, <1>3, <1>4 DEF Sound, HasRun
  <1> QED
    BY <1>1, <1>2, <1>3, <1>4, <1>5, <1>6, <1>7

(* A CPU none of whose callers awaits an acknowledgement has no command.    *)
LEMMA Nowhere ==
  ASSUME Placed, NEW c \in CPUs, \A t \in Clients : ~Awaits(t, c)
  PROVE  \E d \in CPUs : At(c, d, 0)
  BY DEF Placed, Sound

-----------------------------------------------------------------------------
(* The steps of the caller.                                                 *)

LEMMA ControlInv ==
  ASSUME Inv, NEW t \in Controllers, NEW l \in Links, NEW k \in Commands, Control(t, l, k)
  PROVE  Inv'
  <1> USE MsgQAssumption DEF Control, Goto, cpuVars, taskVars
  <1>0. /\ TypeOK /\ Locked /\ Calls /\ Placed /\ Tasks /\ Mailboxes
        /\ t \in Clients /\ t \notin Links /\ t \notin CPUs
    BY DEF Inv, Clients
  <1> DEFINE e == [from |-> t, cmd |-> k]
  <1>1. e \in Entries /\ e.from = t
    BY <1>0 DEF Entries
  <1>2. /\ \A m \in Links : ~Waits(t, m)
        /\ \A r \in Requesters, m \in Links : Waits(r, m) => Waits(r, m)'
    <2>1. \A m \in Links : ~Waits(t, m)
      BY <1>0 DEF Waits
    <2>2. \A u \in Controllers : pc[u] = "mbx" => pc'[u] = "mbx" /\ to'[u] = to[u]
      BY <1>0 DEF Clients, TypeOK
    <2> QED
      BY <2>1, <2>2, StillWaits
  <1>3. Mailboxes' /\ mbx' \in [Links -> Seq(Entries)]
    <2>1. CASE Remote(t, l)
      <3>1. UNCHANGED <<mbx, hand, lpc>>
        BY <2>1
      <3> QED
        BY <1>0, <1>2, <3>1, StillMailboxes DEF TypeOK, Entries
    <2>2. CASE ~Remote(t, l)
      <3>1. mbx' = [mbx EXCEPT ![l] = Append(@, e)] /\ UNCHANGED <<hand, lpc>>
        BY <2>2
      <3>2. Waits(t, l)'
        BY <1>0, <2>2 DEF Waits, TypeOK
      <3> HIDE DEF e
      <3> QED
        BY <1>0, <1>1, <1>2, <3>1, <3>2, PutMailboxes
    <2> QED
      BY <2>1, <2>2
  <1>4. TypeOK'
    BY <1>0, <1>3 DEF TypeOK, Entries, Commands
  <1>5. Locked'
    BY <1>0 DEF Locked, Holds, Message, TypeOK
  <1>6. Calls'
    BY <1>0 DEF Calls, CallOK, Calling, Remote, Commands, TypeOK
  <1>7. Placed'
    <2>1. \A u \in Clients : pc'[u] = "await" <=> pc[u] = "await"
      BY <1>0 DEF TypeOK
    <2>2. \A u \in Clients : pc[u] = "await" => ran'[u] = ran[u] /\ to'[u] = to[u]
      BY <1>0 DEF TypeOK
    <2> QED
      BY <1>0, <2>1, <2>2, StillPlaced
  <1>8. Tasks'
    BY <1>0 DEF Tasks
  <1> QED
    BY <1>3, <1>4, <1>5, <1>6, <1>7, <1>8 DEF Inv

LEMMA GetInfoInv == ASSUME Inv, NEW l \in Links, GetInfo(l) PROVE Inv'
  <1> USE MsgQAssumption DEF GetInfo, Goto, cpuVars, taskVars, clientVars
  <1>0. /\ TypeOK /\ Locked /\ Calls /\ Placed /\ Tasks /\ Mailboxes
        /\ l \in Clients /\ l \notin Controllers /\ l \notin CPUs
    BY DEF Inv, Clients
  <1>1. TypeOK'
    <2>1. /\ pc' \in [Clients -> Labels] /\ to' \in [Clients -> Links \cup {NoOne}]
          /\ cmd' \in [Clients -> Commands \cup {"GET_INFO", "NONE"}]
          /\ lpc' \in [Links -> {"wait", "info", "ack"}]
      BY <1>0 DEF TypeOK, Labels
    <2>2. UNCHANGED <<msgQLock, msgQAck, procMsg, msgQLocalQ, tpc, procId, event, mbx, hand, ran>>
      OBVIOUS
    <2> HIDE DEF GetInfo
    <2> QED
      BY <1>0, <2>1, <2>2 DEF TypeOK, Labels
  <1>2. Locked'
    BY <1>0 DEF Locked, Holds, Message, TypeOK
  <1>3. Calls'
    <2> SUFFICES ASSUME NEW u \in Clients PROVE CallOK(u)'
      BY DEF Calls
    <2>1. CallOK(u)
      BY <1>0 DEF Calls
    <2>2. CASE u = l
      <3>1. CASE Prev[l] # NoOne /\ Remote(l, Prev[l])
        BY <1>0, <2>1, <2>2, <3>1 DEF CallOK, Calling, Remote, TypeOK
      <3>2. CASE ~(Prev[l] # NoOne /\ Remote(l, Prev[l]))
        BY <1>0, <2>1, <2>2, <3>2 DEF CallOK, Calling, Remote, TypeOK
      <3> QED
        BY <3>1, <3>2
    <2>3. CASE u # l
      <3>1. pc'[u] = pc[u] /\ to'[u] = to[u] /\ cmd'[u] = cmd[u] /\ ran'[u] = ran[u]
        BY <1>0, <2>3 DEF TypeOK
      <3>2. u \in Links => lpc'[u] = lpc[u]
        BY <1>0, <2>3 DEF TypeOK
      <3> QED
        BY <2>1, <3>1, <3>2 DEF CallOK, Calling, Remote
    <2> QED
      BY <2>2, <2>3
  <1>4. Placed'
    <2>1. \A u \in Clients : pc'[u] = "await" <=> pc[u] = "await"
      BY <1>0 DEF TypeOK
    <2>2. \A u \in Clients : pc[u] = "await" => ran'[u] = ran[u] /\ to'[u] = to[u]
      BY <1>0 DEF TypeOK
    <2> QED
      BY <1>0, <2>1, <2>2, StillPlaced
  <1>5. Tasks'
    BY <1>0 DEF Tasks
  <1>6. Mailboxes'
    <2>1. \A u \in Controllers : pc[u] = "mbx" => pc'[u] = "mbx" /\ to'[u] = to[u]
      BY <1>0 DEF Clients, TypeOK
    <2>2. \A r \in Requesters, m \in Links : Waits(r, m) => Waits(r, m)'
      BY <2>1, StillWaits
    <2>3. \A m \in Links : lpc'[m] = "wait" <=> lpc[m] = "wait"
      BY <1>0 DEF TypeOK
    <2> QED
      BY <1>0, <2>2, <2>3, StillMailboxes
  <1> QED
    BY <1>1, <1>2, <1>3, <1>4, <1>5, <1>6 DEF Inv

(* The lock is free, so nobody on the CPU is past Lock, and no MsgQ task      *)
(* serves the message that is filled.                                       *)
LEMMA LockInv == ASSUME Inv, NEW t \in Clients, Lock(t) PROVE Inv'
  <1> USE MsgQAssumption DEF Lock, Goto, taskVars, linkVars
  <1>0. TypeOK /\ Locked /\ Calls /\ Placed /\ Tasks /\ Mailboxes /\ Cpu[t] \in CPUs
    BY DEF Inv
  <1>1. TypeOK'
    <2>1. Message(t) \in Messages
      BY <1>0 DEF TypeOK, Calls, CallOK, Message, Messages
    <2> QED
      BY <1>0, <2>1 DEF TypeOK, Messages
  <1>2. Locked'
    <2>1. \A u \in Clients : Holds(u) => Cpu[u] # Cpu[t]
      BY <1>0 DEF Locked
    <2> QED
      BY <1>0, <2>1 DEF Locked, Holds, Message, TypeOK
  <1>3. Calls'
    BY <1>0 DEF Calls, CallOK, Calling, Remote, TypeOK
  <1>4. Placed'
    <2>1. \A u \in Clients : pc'[u] = "await" <=> pc[u] = "await"
      BY <1>0 DEF TypeOK
    <2> QED
      BY <1>0, <2>1, StillPlaced
  <1>5. Tasks'
    BY <1>0 DEF Tasks
  <1>6. Mailboxes'
    <2>1. ASSUME NEW d \in CPUs, tpc[d] = "mbx" PROVE procMsg'[procId[d]] = procMsg[procId[d]]
      <3>1. PICK u \in Clients : Awaits(u, procId[d])
        BY <2>1, Serving
      <3>2. procId[d] # Cpu[t]
        BY <1>0, <3>1 DEF Awaits, Locked, Holds
      <3> QED
        BY <1>0, <3>2 DEF TypeOK
    <2>2. \A u \in Controllers : pc[u] = "mbx" => pc'[u] = "mbx" /\ to'[u] = to[u]
      BY <1>0 DEF Clients, TypeOK
    <2>3. \A r \in Requesters, m \in Links : Waits(r, m) => Waits(r, m)'
      BY <2>1, <2>2, StillWaits
    <2> QED
      BY <1>0, <2>3, StillMailboxes
  <1> QED
    BY <1>1, <1>2, <1>3, <1>4, <1>5, <1>6 DEF Inv

(* Nobody on the CPU awaits an acknowledgement, so none is cleared.         *)
LEMMA ClearAckInv == ASSUME Inv, NEW t \in Clients, ClearAck(t) PROVE Inv'
  <1> USE MsgQAssumption DEF ClearAck, Goto, taskVars, linkVars
  <1>0. TypeOK /\ Locked /\ Calls /\ Placed /\ Tasks /\ Mailboxes /\ Cpu[t] \in CPUs
    BY DEF Inv
  <1>1. TypeOK'
    BY <1>0 DEF TypeOK
  <1>2. Locked'
    BY <1>0 DEF Locked, Holds, Message, TypeOK
  <1>3. Calls'
    BY <1>0 DEF Calls, CallOK, Calling, Remote, TypeOK
  <1>4. Placed'
    <2>1. \A u \in Clients : ~Awaits(u, Cpu[t])
      BY <1>0, OneHolder DEF Awaits, Holds
    <2>2. msgQAck[Cpu[t]] # 1
      BY <1>0, <2>1, Nowhere DEF At
    <2>3. msgQAck' = msgQAck
      BY <1>0, <2>2 DEF TypeOK
    <2>4. \A u \in Clients : pc'[u] = "await" <=> pc[u] = "await"
      BY <1>0 DEF TypeOK
    <2> QED
      BY <1>0, <2>3, <2>4, StillPlaced
  <1>5. Tasks'
    BY <1>0 DEF Tasks
  <1>6. Mailboxes'
    <2>1. \A u \in Controllers : pc[u] = "mbx" => pc'[u] = "mbx" /\ to'[u] = to[u]
      BY <1>0 DEF Clients, TypeOK
    <2>2. \A r \in Requesters, m \in Links : Waits(r, m) => Waits(r, m)'
      BY <2>1, StillWaits
    <2> QED
      BY <1>0, <2>2, StillMailboxes
  <1> QED
    BY <1>1, <1>2, <1>3, <1>4, <1>5, <1>6 DEF Inv

LEMMA MbxReturnInv == ASSUME Inv, NEW t \in Clients, MbxReturn(t) PROVE Inv'
  <1> USE MsgQAssumption DEF MbxReturn, Returns, Goto, cpuVars, taskVars, linkVars
  <1>0. TypeOK /\ Locked /\ Calls /\ Placed /\ Tasks /\ Mailboxes
    BY DEF Inv
  <1>1. TypeOK'
    <2>1. ran' \in [Clients -> Seq(Links)]
      BY <1>0, EmptySeq DEF TypeOK
    <2> QED
      BY <1>0, <2>1 DEF TypeOK
  <1>2. Locked'
    BY <1>0 DEF Locked, Holds, Message, TypeOK
  <1>3. Calls'
    BY <1>0 DEF Calls, CallOK, Calling, Remote, TypeOK
  <1>4. Placed'
    <2>1. \A u \in Clients : pc'[u] = "await" <=> pc[u] = "await"
      BY <1>0 DEF TypeOK
    <2>2. \A u \in Clients : pc[u] = "await" => ran'[u] = ran[u] /\ to'[u] = to[u]
      BY <1>0 DEF TypeOK
    <2> QED
      BY <1>0, <2>1, <2>2, StillPlaced
  <1>5. Tasks'
    BY <1>0 DEF Tasks
  <1>6. Mailboxes'
    <2>1. \A u \in Controllers : pc[u] = "mbx" => pc'[u] = "mbx" /\ to'[u] = to[u]
      BY <1>0 DEF Clients, TypeOK
    <2>2. \A r \in Requesters, m \in Links : Waits(r, m) => Waits(r, m)'
      BY <2>1, StillWaits
    <2> QED
      BY <1>0, <2>2, StillMailboxes
  <1> QED
    BY <1>1, <1>2, <1>3, <1>4, <1>5, <1>6 DEF Inv

(* The command of the CPU goes from nowhere to the event.                   *)
LEMMA NotifyInv == ASSUME Inv, NEW t \in Clients, Notify(t) PROVE Inv'
  <1> USE MsgQAssumption DEF Notify, Goto, Raise, cpuVars, taskVars, linkVars
  <1>0. TypeOK /\ Locked /\ Calls /\ Placed /\ Tasks /\ Mailboxes
    BY DEF Inv
  <1>b. Cpu[t] \in CPUs /\ Cpu[to[t]] \in CPUs /\ Cpu[t] # Cpu[to[t]] /\ ran[t] = << >>
    BY <1>0 DEF Clients, Calls, CallOK, Calling, Remote
  <1>a. PICK a \in CPUs, b \in CPUs : a = Cpu[t] /\ b = Cpu[to[t]] /\ a # b
    BY <1>b
  <1>1. TypeOK'
    BY <1>0 DEF TypeOK
  <1>2. Locked'
    BY <1>0 DEF Locked, Holds, Message, TypeOK
  <1>3. Calls'
    BY <1>0 DEF Calls, CallOK, Calling, Remote, TypeOK
  <1>4. Placed'
    <2> SUFFICES ASSUME NEW c \in CPUs
                 PROVE  \E d \in CPUs, i \in 0 .. 5 : At(c, d, i)' /\ Sound(c, d, i)'
      BY DEF Placed
    <2>1. \A x, y \in CPUs : event'[<<x, y>>] = IF x = a /\ y = b THEN "MSG" ELSE event[<<x, y>>]
      BY <1>0, <1>a DEF TypeOK
    <2>2. event[<<a, b>>] = "none"
      BY <1>a
    <2>3. \A u \in Clients : Awaits(u, c)' <=> Awaits(u, c) \/ (u = t /\ c = a)
      BY <1>0, <1>a DEF Awaits, TypeOK
    <2>4. UNCHANGED <<msgQLocalQ, procId, msgQAck, tpc, ran, to>>
      OBVIOUS
    <2>5. CASE c = a
      <3>1. \A u \in Clients : ~Awaits(u, a)
        BY <1>0, <1>a, OneHolder DEF Awaits, Holds
      <3>2. PICK d \in CPUs : At(a, d, 0)
        BY <1>0, <1>a, <3>1, Nowhere
      <3>3. At(a, b, 1)'
        BY <1>a, <2>1, <2>2, <2>4, <3>2 DEF At
      <3>4. Sound(a, b, 1)'
        <4>1. \A u \in Clients : Awaits(u, a)' <=> u = t
          BY <2>3, <2>5, <3>1
        <4>2. b = Cpu[to'[t]]
          BY <1>a, <2>4
        <4> QED
          BY <1>b, <2>4, <4>1, <4>2 DEF Sound, HasRun
      <3> QED
        BY <1>a, <2>5, <3>3, <3>4
    <2>6. CASE c # a
      <3>1. PICK d \in CPUs, i \in 0 .. 5 : At(c, d, i) /\ Sound(c, d, i)
        BY <1>0 DEF Placed
      <3>2. At(c, d, i)'
        BY <1>a, <2>1, <2>2, <2>4, <2>6, <3>1 DEF At
      <3>3. Sound(c, d, i)'
        BY <2>3, <2>4, <2>6, <3>1 DEF Sound, HasRun
      <3> QED
        BY <3>2, <3>3
    <2> QED
      BY <2>5, <2>6
  <1>5. Tasks'
    BY <1>0 DEF Tasks
  <1>6. Mailboxes'
    <2>1. \A u \in Controllers : pc[u] = "mbx" => pc'[u] = "mbx" /\ to'[u] = to[u]
      BY <1>0 DEF Clients, TypeOK
    <2>2. \A r \in Requesters, m \in Links : Waits(r, m) => Waits(r, m)'
      BY <2>1, StillWaits
    <2> QED
      BY <1>0, <2>2, StillMailboxes
  <1> QED
    BY <1>1, <1>2, <1>3, <1>4, <1>5, <1>6 DEF Inv

(* The one who waits takes the acknowledgement, and the command is nowhere.  *)
LEMMA Awaited ==
  ASSUME Inv, NEW t \in Clients, Await(t)
  PROVE  /\ ran[t] = <<to[t]>>
         /\ \E d \in CPUs : At(Cpu[t], d, 5)
  <1>1. PICK d \in CPUs, i \in 0 .. 5 : At(Cpu[t], d, i) /\ Sound(Cpu[t], d, i)
    BY MsgQAssumption DEF Inv, Placed
  <1>2. i = 5
    BY <1>1 DEF Await, At
  <1> QED
    BY <1>1, <1>2 DEF Await, Sound, Awaits, HasRun

LEMMA AwaitInv == ASSUME Inv, NEW t \in Clients, Await(t) PROVE Inv'
  <1> USE MsgQAssumption DEF Await, Returns, Goto, taskVars
  <1>0. TypeOK /\ Locked /\ Calls /\ Placed /\ Tasks /\ Mailboxes /\ Cpu[t] \in CPUs
    BY DEF Inv
  <1>1. TypeOK'
    <2>1. ran' \in [Clients -> Seq(Links)]
      BY <1>0, EmptySeq DEF TypeOK
    <2>2. lpc' \in [Links -> {"wait", "info", "ack"}]
      BY <1>0 DEF TypeOK
    <2> QED
      BY <1>0, <2>1, <2>2 DEF TypeOK
  <1>2. Locked'
    <2> SUFFICES ASSUME NEW u \in Clients, Holds(u)'
                 PROVE  msgQLock'[Cpu[u]] = u /\ procMsg'[Cpu[u]] = Message(u)'
      BY DEF Locked
    <2>1. u # t /\ Holds(u) /\ to'[u] = to[u] /\ cmd'[u] = cmd[u]
      BY <1>0 DEF Holds, TypeOK
    <2>2. Cpu[u] # Cpu[t]
      BY <1>0, <2>1, OneHolder DEF Holds
    <2> QED
      BY <1>0, <2>1, <2>2 DEF Locked, Message, TypeOK
  <1>3. Calls'
    <2> SUFFICES ASSUME NEW u \in Clients PROVE CallOK(u)'
      BY DEF Calls
    <2>1. CallOK(u)
      BY <1>0 DEF Calls
    <2>2. CASE u = t
      BY <1>0, <2>2 DEF CallOK, Calling, TypeOK
    <2>3. CASE u # t
      <3>1. pc'[u] = pc[u] /\ to'[u] = to[u] /\ cmd'[u] = cmd[u] /\ ran'[u] = ran[u]
        BY <1>0, <2>3 DEF TypeOK
      <3>2. u \in Links => lpc'[u] = lpc[u]
        BY <1>0, <2>3 DEF TypeOK
      <3> QED
        BY <2>1, <3>1, <3>2 DEF CallOK, Calling, Remote
    <2> QED
      BY <2>2, <2>3
  <1>4. Placed'
    <2> SUFFICES ASSUME NEW c \in CPUs
                 PROVE  \E d \in CPUs, i \in 0 .. 5 : At(c, d, i)' /\ Sound(c, d, i)'
      BY DEF Placed
    <2>1. msgQAck'[Cpu[t]] = 0 /\ \A x \in CPUs : x # Cpu[t] => msgQAck'[x] = msgQAck[x]
      BY <1>0 DEF TypeOK
    <2>2. \A u \in Clients : Awaits(u, c)' <=> Awaits(u, c) /\ u # t
      BY <1>0 DEF Awaits, TypeOK
    <2>3. UNCHANGED <<msgQLocalQ, procId, event, tpc>>
      OBVIOUS
    <2>4. \A u \in Clients : u # t => ran'[u] = ran[u] /\ to'[u] = to[u]
      BY <1>0 DEF TypeOK
    <2>5. CASE c = Cpu[t]
      <3>1. PICK d \in CPUs : At(c, d, 5)
        BY <2>5, Awaited
      <3>2. At(c, d, 0)'
        BY <2>1, <2>3, <2>5, <3>1 DEF At
      <3>3. \A u \in Clients : ~Awaits(u, c)'
        BY <1>0, <2>2, <2>5, OneHolder DEF Awaits, Holds
      <3>4. Sound(c, d, 0)'
        BY <3>3 DEF Sound
      <3> QED
        BY <3>2, <3>4
    <2>6. CASE c # Cpu[t]
      <3>1. PICK d \in CPUs, i \in 0 .. 5 : At(c, d, i) /\ Sound(c, d, i)
        BY <1>0 DEF Placed
      <3>2. At(c, d, i)'
        BY <2>1, <2>3, <2>6, <3>1 DEF At
      <3>3. \A u \in Clients : Awaits(u, c) => u # t
        BY <2>6 DEF Awaits
      <3>4. Sound(c, d, i)'
        BY <2>2, <2>3, <2>4, <3>1, <3>3 DEF Sound, HasRun
      <3> QED
        BY <3>2, <3>4
    <2> QED
      BY <2>5, <2>6
  <1>5. Tasks'
    BY <1>0 DEF Tasks
  <1>6. Mailboxes'
    <2>1. \A u \in Controllers : pc[u] = "mbx" => pc'[u] = "mbx" /\ to'[u] = to[u]
      BY <1>0 DEF Clients, TypeOK
    <2>2. \A r \in Requesters, m \in Links : Waits(r, m) => Waits(r, m)'
      BY <2>1, StillWaits
    <2>3. t \in Links => lpc[t] = "info"
      BY <1>0 DEF Calls, CallOK
    <2>4. \A m \in Links : lpc'[m] = "wait" <=> lpc[m] = "wait"
      BY <1>0, <2>3 DEF TypeOK
    <2> QED
      BY <1>0, <2>2, <2>4, StillMailboxes
  <1> QED
    BY <1>1, <1>2, <1>3, <1>4, <1>5, <1>6 DEF Inv

-----------------------------------------------------------------------------
(* The steps of the receiver.                                               *)

(* Queues of distinct elements: what they hold when one is put or taken.     *)
LEMMA PutDistinct ==
  ASSUME NEW S, NEW q \in Seq(S), NEW x \in S,
         \A j, k \in DOMAIN q : q[j] = q[k] => j = k, \A k \in DOMAIN q : q[k] # x
  PROVE  /\ Append(q, x) \in Seq(S) /\ Len(Append(q, x)) = Len(q) + 1
         /\ \A j, k \in DOMAIN Append(q, x) : Append(q, x)[j] = Append(q, x)[k] => j = k
         /\ \A y : (\E k \in DOMAIN Append(q, x) : Append(q, x)[k] = y)
                     <=> (\E k \in DOMAIN q : q[k] = y) \/ y = x
  <1> DEFINE r == Append(q, x)
  <1>1. /\ r \in Seq(S) /\ Len(r) = Len(q) + 1 /\ Len(q) \in Nat
        /\ DOMAIN q = 1 .. Len(q) /\ DOMAIN r = 1 .. Len(q) + 1
        /\ \A k \in 1 .. Len(q) : r[k] = q[k]
        /\ r[Len(q) + 1] = x
    BY AppendProperties, LenProperties
  <1> HIDE DEF r
  <1>2. DOMAIN r = DOMAIN q \cup {Len(q) + 1} /\ Len(q) + 1 \notin DOMAIN q
    BY <1>1
  <1>3. \A j, k \in DOMAIN r : r[j] = r[k] => j = k
    BY <1>1, <1>2
  <1>4. \A y : (\E k \in DOMAIN r : r[k] = y) <=> (\E k \in DOMAIN q : q[k] = y) \/ y = x
    BY <1>1, <1>2
  <1> QED
    BY <1>1, <1>3, <1>4 DEF r

LEMMA TakeDistinct ==
  ASSUME NEW S, NEW q \in Seq(S), q # << >>, \A j, k \in DOMAIN q : q[j] = q[k] => j = k
  PROVE  /\ Tail(q) \in Seq(S) /\ Len(Tail(q)) <= Len(q) /\ Head(q) \in S
         /\ \A j, k \in DOMAIN Tail(q) : Tail(q)[j] = Tail(q)[k] => j = k
         /\ \E k \in DOMAIN q : q[k] = Head(q)
         /\ \A y : (\E k \in DOMAIN Tail(q) : Tail(q)[k] = y)
                     <=> (\E k \in DOMAIN q : q[k] = y) /\ y # Head(q)
  <1> DEFINE r == Tail(q)
  <1>1. /\ r \in Seq(S) /\ Len(q) \in Nat \ {0} /\ DOMAIN q = 1 .. Len(q)
        /\ DOMAIN r = 1 .. Len(q) - 1 /\ Len(r) = Len(q) - 1
        /\ \A k \in 1 .. Len(q) - 1 : r[k] = q[k + 1]
        /\ Head(q) = q[1] /\ Head(q) \in S
    BY HeadTailProperties, EmptySeq, LenProperties
  <1> HIDE DEF r
  <1>2. \A k \in DOMAIN r : k + 1 \in DOMAIN q /\ r[k] = q[k + 1] /\ k \in Nat
    BY <1>1
  <1>3. \A j, k \in DOMAIN r : r[j] = r[k] => j = k
    <2> SUFFICES ASSUME NEW j \in DOMAIN r, NEW k \in DOMAIN r, r[j] = r[k] PROVE j = k
      OBVIOUS
    <2>1. j + 1 = k + 1
      BY <1>2
    <2> QED
      BY <1>2, <2>1
  <1>4. \A y : (\E k \in DOMAIN r : r[k] = y) => (\E k \in DOMAIN q : q[k] = y) /\ y # q[1]
    <2> SUFFICES ASSUME NEW y, NEW k \in DOMAIN r, r[k] = y
                 PROVE  (\E j \in DOMAIN q : q[j] = y) /\ y # q[1]
      OBVIOUS
    <2>1. 1 \in DOMAIN q /\ k + 1 # 1
      BY <1>1, <1>2
    <2> QED
      BY <1>2, <2>1
  <1>5. \A y : (\E k \in DOMAIN q : q[k] = y) /\ y # q[1] => \E k \in DOMAIN r : r[k] = y
    <2> SUFFICES ASSUME NEW y, NEW k \in DOMAIN q, q[k] = y, y # q[1]
                 PROVE  \E j \in DOMAIN r : r[j] = y
      OBVIOUS
    <2>1. k - 1 \in DOMAIN r /\ (k - 1) + 1 = k
      BY <1>1
    <2>2. r[k - 1] = y
      BY <1>2, <2>1
    <2> QED
      BY <2>1, <2>2
  <1>6. 1 \in DOMAIN q
    BY <1>1
  <1> QED
    BY <1>1, <1>3, <1>4, <1>5, <1>6 DEF r

(* In the queue of b are neither b itself nor a CPU whose event is raised:   *)
(* one more fits.                                                           *)
LEMMA QueueFits ==
  ASSUME Inv, Room, NEW a \in CPUs, NEW b \in CPUs, event[<<a, b>>] = "MSG"
  PROVE  Len(msgQLocalQ[b]) < QueMax
  <1>0. TypeOK /\ Locked /\ Calls /\ Placed /\ Tasks
    BY DEF Inv
  <1> DEFINE q == msgQLocalQ[b]
             S == (CPUs \ {a}) \ {b}
  <1>1. q \in Seq(CPUs) /\ \A j, k \in DOMAIN q : q[j] = q[k] => j = k
    BY <1>0 DEF TypeOK, Tasks
  <1>2. ASSUME NEW c \in CPUs, event[<<c, b>>] = "MSG" \/ \E k \in DOMAIN q : q[k] = c
        PROVE  c # b
    <2>1. PICK d \in CPUs, i \in 0 .. 5 : At(c, d, i) /\ Sound(c, d, i)
      BY <1>0 DEF Placed
    <2>2. i # 0 /\ d = b
      <3>1. CASE event[<<c, b>>] = "MSG"
        <4>1. event[<<c, b>>] = "MSG" => i = 1 /\ b = d
          BY <2>1 DEF At
        <4> QED
          BY <3>1, <4>1
      <3>2. CASE \E k \in DOMAIN q : q[k] = c
        <4>1. (\E k \in DOMAIN q : q[k] = c) => i = 2 /\ b = d
          BY <2>1 DEF At
        <4> QED
          BY <3>2, <4>1
      <3> QED
        BY <1>2, <3>1, <3>2
    <2>3. PICK t \in Clients : Awaits(t, c) /\ d = Cpu[to[t]]
      BY <2>1, <2>2 DEF Sound
    <2> QED
      BY <1>0, <2>2, <2>3 DEF Awaits, Calls, CallOK, Calling, Remote
  <1>3. ASSUME NEW k \in DOMAIN q PROVE q[k] # a
    <2>1. PICK d \in CPUs, i \in 0 .. 5 : At(a, d, i) /\ Sound(a, d, i)
      BY <1>0 DEF Placed
    <2>2. i = 1
      BY <2>1 DEF At
    <2>3. (\E j \in DOMAIN q : q[j] = a) => i = 2
      BY <2>1 DEF At
    <2> QED
      BY <2>2, <2>3
  <1>4. a # b
    BY <1>2
  <1>5. Len(q) \in Nat /\ DOMAIN q = 1 .. Len(q) /\ q \in [1 .. Len(q) -> CPUs]
    BY <1>1, LenProperties
  <1>6. q \in [1 .. Len(q) -> S]
    <2>1. ASSUME NEW k \in 1 .. Len(q) PROVE q[k] \in S
      BY <1>2, <1>3, <1>5
    <2> QED
      BY <1>5, <2>1
  <1>7. q \in Injection(1 .. Len(q), S)
    BY <1>1, <1>5, <1>6 DEF Injection, IsInjective
  <1>8. IsFiniteSet(CPUs) /\ Cardinality(CPUs) \in Nat /\ QueMax >= Cardinality(CPUs) - 1
    BY FS_CardinalityType DEF Room
  <1>9. IsFiniteSet(CPUs \ {a}) /\ Cardinality(CPUs \ {a}) = Cardinality(CPUs) - 1
    BY <1>8, FS_RemoveElement
  <1>10. IsFiniteSet(S) /\ Cardinality(S) = Cardinality(CPUs) - 2
    <2>1. b \in CPUs \ {a}
      BY <1>4
    <2>2. IsFiniteSet(S) /\ Cardinality(S) = Cardinality(CPUs \ {a}) - 1
      BY <1>9, <2>1, FS_RemoveElement
    <2> QED
      BY <1>8, <1>9, <2>2
  <1>11. Cardinality(1 .. Len(q)) <= Cardinality(S)
    BY <1>7, <1>10, FS_Injection
  <1>12. Cardinality(1 .. Len(q)) = Len(q)
    <2> HIDE DEF q
    <2> DEFINE n == Len(q)
    <2>1. n \in Nat
      BY <1>5
    <2> HIDE DEF n
    <2>2. Cardinality(1 .. n) = IF 1 > n THEN 0 ELSE n - 1 + 1
      BY <2>1, FS_Interval
    <2>3. Cardinality(1 .. n) = n
      BY <2>1, <2>2
    <2> QED
      BY <2>3 DEF n
  <1> QED
    BY <1>5, <1>8, <1>10, <1>11, <1>12, MsgQAssumption

LEMMA NotifyHandlerInv ==
  ASSUME Inv, NEW a \in CPUs, NEW b \in CPUs, NotifyHandler(a, b) PROVE Inv'
  <1> USE MsgQAssumption DEF NotifyHandler, linkVars, clientVars
  <1>0. TypeOK /\ Locked /\ Calls /\ Placed /\ Tasks /\ Mailboxes
    BY DEF Inv
  <1>e. \A x, y \in CPUs : event'[<<x, y>>] = IF x = a /\ y = b THEN "none" ELSE event[<<x, y>>]
    BY <1>0 DEF TypeOK
  <1>p. \A c \in CPUs : \E d \in CPUs, i \in 0 .. 5 : At(c, d, i) /\ Sound(c, d, i)
    BY <1>0 DEF Placed
  <1>r. /\ Locked' /\ Calls'
        /\ \A c \in CPUs, u \in Clients : Awaits(u, c)' <=> Awaits(u, c)
    BY <1>0 DEF Locked, Holds, Message, Calls, CallOK, Calling, Remote, Awaits
  <1>m. Mailboxes'
    <2>1. \A r \in Requesters, m \in Links : Waits(r, m) => Waits(r, m)'
      BY StillWaits
    <2> QED
      BY <1>0, <2>1, StillMailboxes
  <1>1. CASE event[<<a, b>>] = "ACK"
    <2>1. TypeOK'
      BY <1>0, <1>1 DEF TypeOK
    <2>2. Tasks'
      BY <1>0, <1>1 DEF Tasks
    <2>3. msgQAck'[b] = 1 /\ \A x \in CPUs : x # b => msgQAck'[x] = msgQAck[x]
      BY <1>0, <1>1 DEF TypeOK
    <2>4. UNCHANGED <<msgQLocalQ, procId, tpc, ran, to>>
      BY <1>1
    <2>5. Placed'
      <3> SUFFICES ASSUME NEW c \in CPUs
                   PROVE  \E d \in CPUs, i \in 0 .. 5 : At(c, d, i)' /\ Sound(c, d, i)'
        BY DEF Placed
      <3>1. PICK d \in CPUs, i \in 0 .. 5 : At(c, d, i) /\ Sound(c, d, i)
        BY <1>p
      <3>2. CASE c = b
        <4>1. i = 4 /\ d = a
          BY <1>1, <3>1, <3>2 DEF At
        <4>2. At(c, d, 5)'
          BY <1>1, <1>e, <2>3, <2>4, <3>1, <3>2, <4>1 DEF At
        <4>3. Sound(c, d, 5)'
          BY <1>r, <2>4, <3>1, <4>1 DEF Sound, HasRun
        <4> QED
          BY <4>2, <4>3
      <3>3. CASE c # b
        <4>1. At(c, d, i)'
          BY <1>1, <1>e, <2>3, <2>4, <3>1, <3>3 DEF At
        <4>2. Sound(c, d, i)'
          BY <1>r, <2>4, <3>1 DEF Sound, HasRun
        <4> QED
          BY <4>1, <4>2
      <3> QED
        BY <3>2, <3>3
    <2> QED
      BY <1>r, <1>m, <2>1, <2>2, <2>5 DEF Inv
  <1>2. CASE event[<<a, b>>] # "ACK"
    <2>0. event[<<a, b>>] = "MSG"
      BY <1>0, <1>2 DEF TypeOK
    <2> DEFINE q == msgQLocalQ[b]
    <2>1. q \in Seq(CPUs) /\ (\A j, k \in DOMAIN q : q[j] = q[k] => j = k) /\ Len(q) <= QueMax
      BY <1>0 DEF TypeOK, Tasks
    <2>2. PICK d \in CPUs, i \in 0 .. 5 : At(a, d, i) /\ Sound(a, d, i)
      BY <1>p
    <2>3. i = 1 /\ d = b
      BY <2>0, <2>2 DEF At
    <2>4. \A k \in DOMAIN q : q[k] # a
      <3>1. (\E k \in DOMAIN q : q[k] = a) => i = 2
        BY <2>2 DEF At
      <3> QED
        BY <2>3, <3>1
    <2>5. UNCHANGED <<msgQAck, procId, tpc, ran, to>>
      BY <1>2
    <2>6. CASE Len(q) < QueMax
      <3>0. PICK r \in Seq(CPUs) :
              /\ r = Append(q, a) /\ Len(r) = Len(q) + 1 /\ Len(q) \in Nat
              /\ \A j, k \in DOMAIN r : r[j] = r[k] => j = k
              /\ \A y \in CPUs : (\E k \in DOMAIN r : r[k] = y)
                                  <=> (\E k \in DOMAIN q : q[k] = y) \/ y = a
        <4> HIDE DEF q
        <4>1. Len(q) \in Nat
          BY <2>1, LenProperties
        <4> DEFINE z == Append(q, a)
        <4>2. /\ z \in Seq(CPUs) /\ Len(z) = Len(q) + 1
              /\ \A j, k \in DOMAIN z : z[j] = z[k] => j = k
              /\ \A y : (\E k \in DOMAIN z : z[k] = y) <=> (\E k \in DOMAIN q : q[k] = y) \/ y = a
          BY <2>1, <2>4, PutDistinct
        <4> QED
          BY <4>1, <4>2
      <3>1. msgQLocalQ' = [msgQLocalQ EXCEPT ![b] = r]
        BY <1>0, <1>2, <2>6, <3>0 DEF TypeOK
      <3>2. msgQLocalQ'[b] = r /\ \A x \in CPUs : x # b => msgQLocalQ'[x] = msgQLocalQ[x]
        BY <1>0, <3>1 DEF TypeOK
      <3>3. TypeOK'
        <4>1. msgQLocalQ' \in [CPUs -> Seq(CPUs)]
          BY <1>0, <3>1 DEF TypeOK
        <4>2. event' \in [CPUs \X CPUs -> {"none", "MSG", "ACK"}]
          BY <1>0 DEF TypeOK
        <4> QED
          BY <1>0, <1>2, <2>5, <4>1, <4>2 DEF TypeOK
      <3>4. Tasks'
        <4>1. Len(r) <= QueMax
          BY <2>6, <3>0
        <4> SUFFICES ASSUME NEW e \in CPUs
                     PROVE  /\ Len(msgQLocalQ'[e]) <= QueMax
                            /\ \A j, k \in DOMAIN msgQLocalQ'[e] :
                                 msgQLocalQ'[e][j] = msgQLocalQ'[e][k] => j = k
                            /\ tpc'[e] = "get" <=> procId'[e] = NoOne
          BY DEF Tasks
        <4>2. /\ Len(msgQLocalQ[e]) <= QueMax
              /\ \A j, k \in DOMAIN msgQLocalQ[e] : msgQLocalQ[e][j] = msgQLocalQ[e][k] => j = k
              /\ tpc[e] = "get" <=> procId[e] = NoOne
          BY <1>0 DEF Tasks
        <4>3. CASE e = b
          <5>1. msgQLocalQ'[e] = r /\ tpc'[e] = tpc[e] /\ procId'[e] = procId[e]
            BY <2>5, <3>2, <4>3
          <5> QED
            BY <3>0, <4>1, <4>2, <5>1
        <4>4. CASE e # b
          BY <2>5, <3>2, <4>2, <4>4
        <4> QED
          BY <4>3, <4>4
      <3>5. Placed'
        <4> SUFFICES ASSUME NEW c \in CPUs
                     PROVE  \E f \in CPUs, n \in 0 .. 5 : At(c, f, n)' /\ Sound(c, f, n)'
          BY DEF Placed
        <4>1. CASE c = a
          <5>1. At(a, b, 2)'
            <6>1. ASSUME NEW e \in CPUs
                  PROVE  /\ event'[<<a, e>>] # "MSG" /\ event'[<<e, a>>] # "ACK" /\ procId'[e] # a
                         /\ (\E k \in DOMAIN msgQLocalQ'[e] : msgQLocalQ'[e][k] = a) <=> e = b
              <7>1. /\ event[<<a, e>>] = "MSG" <=> e = b
                    /\ event[<<e, a>>] # "ACK" /\ procId[e] # a
                    /\ ~\E k \in DOMAIN msgQLocalQ[e] : msgQLocalQ[e][k] = a
                BY <2>2, <2>3 DEF At
              <7> QED
                BY <1>e, <2>0, <2>5, <3>0, <3>2, <7>1
            <6>2. msgQAck'[a] # 1
              BY <2>2, <2>3, <2>5 DEF At
            <6> QED
              BY <6>1, <6>2 DEF At
          <5>2. Sound(a, b, 2)'
            BY <1>r, <2>2, <2>3, <2>5 DEF Sound, HasRun
          <5> QED
            BY <4>1, <5>1, <5>2
        <4>2. CASE c # a
          <5>1. PICK f \in CPUs, n \in 0 .. 5 : At(c, f, n) /\ Sound(c, f, n)
            BY <1>p
          <5>2. At(c, f, n)'
            <6>1. ASSUME NEW e \in CPUs
                  PROVE  /\ event'[<<c, e>>] = "MSG" <=> event[<<c, e>>] = "MSG"
                         /\ event'[<<e, c>>] = "ACK" <=> event[<<e, c>>] = "ACK"
                         /\ (\E k \in DOMAIN msgQLocalQ'[e] : msgQLocalQ'[e][k] = c)
                              <=> (\E k \in DOMAIN msgQLocalQ[e] : msgQLocalQ[e][k] = c)
              <7>1. (\E k \in DOMAIN msgQLocalQ'[e] : msgQLocalQ'[e][k] = c)
                      <=> (\E k \in DOMAIN msgQLocalQ[e] : msgQLocalQ[e][k] = c)
                <8>1. CASE e = b
                  <9>1. msgQLocalQ'[e] = r /\ msgQLocalQ[e] = q
                    BY <3>2, <8>1
                  <9> HIDE DEF q
                  <9> QED
                    BY <3>0, <4>2, <9>1
                <8>2. CASE e # b
                  BY <3>2, <8>2
                <8> QED
                  BY <8>1, <8>2
              <7> QED
                BY <1>e, <2>0, <4>2, <7>1
            <6> QED
              BY <2>5, <5>1, <6>1 DEF At
          <5>3. Sound(c, f, n)'
            BY <1>r, <2>5, <5>1 DEF Sound, HasRun
          <5> QED
            BY <5>2, <5>3
        <4> QED
          BY <4>1, <4>2
      <3> QED
        BY <1>r, <1>m, <3>3, <3>4, <3>5 DEF Inv
    <2>7. CASE ~(Len(q) < QueMax)
      <3>1. msgQLocalQ' = msgQLocalQ
        BY <1>0, <1>2, <2>7 DEF TypeOK
      <3>2. ~Room
        BY <2>0, <2>7, QueueFits
      <3>3. TypeOK'
        BY <1>0, <1>2, <3>1 DEF TypeOK
      <3>4. Tasks'
        BY <1>0, <2>5, <3>1 DEF Tasks
      <3>5. Placed'
        <4> SUFFICES ASSUME NEW c \in CPUs
                     PROVE  \E f \in CPUs, n \in 0 .. 5 : At(c, f, n)' /\ Sound(c, f, n)'
          BY DEF Placed
        <4>1. CASE c = a
          <5>1. At(a, b, 0)'
            BY <1>e, <2>0, <2>2, <2>3, <2>5, <3>1 DEF At
          <5>2. Sound(a, b, 0)'
            BY <1>r, <2>2, <2>3, <2>5, <3>2 DEF Sound, HasRun, Room
          <5> QED
            BY <4>1, <5>1, <5>2
        <4>2. CASE c # a
          <5>1. PICK f \in CPUs, n \in 0 .. 5 : At(c, f, n) /\ Sound(c, f, n)
            BY <1>p
          <5>2. At(c, f, n)'
            BY <1>e, <2>0, <2>5, <3>1, <4>2, <5>1 DEF At
          <5>3. Sound(c, f, n)'
            BY <1>r, <2>5, <5>1 DEF Sound, HasRun
          <5> QED
            BY <5>2, <5>3
        <4> QED
          BY <4>1, <4>2
      <3> QED
        BY <1>r, <1>m, <3>3, <3>4, <3>5 DEF Inv
    <2> QED
      BY <2>6, <2>7
  <1> QED
    BY <1>1, <1>2

LEMMA GetInv == ASSUME Inv, NEW b \in CPUs, Get(b) PROVE Inv'
  <1> USE MsgQAssumption DEF Get, cpuVars, linkVars, clientVars
  <1>0. TypeOK /\ Locked /\ Calls /\ Placed /\ Tasks /\ Mailboxes
    BY DEF Inv
  <1> DEFINE q == msgQLocalQ[b]
  <1>1. q \in Seq(CPUs) /\ q # << >> /\ \A j, k \in DOMAIN q : q[j] = q[k] => j = k
    BY <1>0 DEF TypeOK, Tasks
  <1>q. PICK r \in Seq(CPUs), a \in CPUs :
          /\ r = Tail(q) /\ a = Head(q) /\ Len(r) <= Len(q) /\ Len(q) \in Nat /\ Len(r) \in Nat
          /\ \A j, k \in DOMAIN r : r[j] = r[k] => j = k
          /\ \E k \in DOMAIN q : q[k] = a
          /\ \A y \in CPUs : (\E k \in DOMAIN r : r[k] = y) <=> (\E k \in DOMAIN q : q[k] = y) /\ y # a
    <2> HIDE DEF q
    <2> DEFINE z == Tail(q)
    <2>1. /\ z \in Seq(CPUs) /\ Len(z) <= Len(q) /\ Head(q) \in CPUs
          /\ \A j, k \in DOMAIN z : z[j] = z[k] => j = k
          /\ \E k \in DOMAIN q : q[k] = Head(q)
          /\ \A y : (\E k \in DOMAIN z : z[k] = y) <=> (\E k \in DOMAIN q : q[k] = y) /\ y # Head(q)
      BY <1>1, TakeDistinct
    <2>2. Len(q) \in Nat /\ Len(z) \in Nat
      BY <1>1, <2>1, LenProperties
    <2> DEFINE h == Head(q)
    <2>3. z = Tail(q) /\ h = Head(q)
      OBVIOUS
    <2>4. /\ z \in Seq(CPUs) /\ h \in CPUs /\ \E k \in DOMAIN q : q[k] = h
          /\ \A y \in CPUs : (\E k \in DOMAIN z : z[k] = y) <=> (\E k \in DOMAIN q : q[k] = y) /\ y # h
      BY <2>1
    <2> HIDE DEF z, h
    <2> USE <2>4
    <2> WITNESS z \in Seq(CPUs), h \in CPUs
    <2> QED
      BY <2>1, <2>2, <2>3, <2>4
  <1>2. /\ msgQLocalQ'[b] = r /\ procId'[b] = a /\ tpc'[b] = "run" /\ tpc[b] = "get"
        /\ procId[b] = NoOne
        /\ \A x \in CPUs : x # b =>
             msgQLocalQ'[x] = msgQLocalQ[x] /\ procId'[x] = procId[x] /\ tpc'[x] = tpc[x]
    BY <1>0, <1>q DEF TypeOK, Tasks
  <1>3. UNCHANGED <<msgQAck, event, ran, to, pc>>
    OBVIOUS
  <1>4. TypeOK'
    <2>1. procId' = [procId EXCEPT ![b] = a] /\ msgQLocalQ' = [msgQLocalQ EXCEPT ![b] = r]
      BY <1>0, <1>q DEF TypeOK
    <2>2. procId' \in [CPUs -> CPUs \cup {NoOne}] /\ msgQLocalQ' \in [CPUs -> Seq(CPUs)]
      BY <1>0, <2>1 DEF TypeOK
    <2>3. tpc' \in [CPUs -> {"get", "run", "mbx", "ack"}]
      BY <1>0 DEF TypeOK
    <2> QED
      BY <1>0, <2>2, <2>3 DEF TypeOK
  <1>5. Locked' /\ Calls'
    BY <1>0 DEF Locked, Holds, Message, Calls, CallOK, Calling, Remote
  <1>6. Tasks'
    <2>1. NoOne \notin CPUs
      OBVIOUS
    <2>2. Len(q) <= QueMax /\ QueMax \in Nat
      BY <1>0 DEF Tasks
    <2>3. Len(r) <= QueMax
      BY <1>q, <2>2
    <2> QED
      BY <1>0, <1>2, <1>q, <2>1, <2>3 DEF Tasks
  <1>7. Placed'
    <2> SUFFICES ASSUME NEW c \in CPUs
                 PROVE  \E d \in CPUs, i \in 0 .. 5 : At(c, d, i)' /\ Sound(c, d, i)'
      BY DEF Placed
    <2>1. PICK d \in CPUs, i \in 0 .. 5 : At(c, d, i) /\ Sound(c, d, i)
      BY <1>0 DEF Placed
    <2>2. \A u \in Clients : Awaits(u, c)' <=> Awaits(u, c)
      BY <1>3 DEF Awaits
    <2>3. CASE c = a
      <3>1. i = 2 /\ d = b
        <4>1. (\E k \in DOMAIN q : q[k] = a) => i = 2 /\ b = d
          BY <2>1, <2>3 DEF At
        <4> QED
          BY <1>q, <4>1
      <3>2. At(c, b, 3)'
        <4>1. ASSUME NEW e \in CPUs
              PROVE  /\ event'[<<c, e>>] # "MSG" /\ event'[<<e, c>>] # "ACK"
                     /\ ~\E k \in DOMAIN msgQLocalQ'[e] : msgQLocalQ'[e][k] = c
                     /\ procId'[e] = c <=> e = b
          <5>1. e = b \/ ~\E k \in DOMAIN msgQLocalQ[e] : msgQLocalQ[e][k] = c
            BY <2>1, <3>1 DEF At
          <5>2. event[<<c, e>>] # "MSG" /\ event[<<e, c>>] # "ACK" /\ procId[e] # c
            BY <2>1, <3>1 DEF At
          <5> QED
            BY <1>2, <1>3, <1>q, <2>3, <5>1, <5>2
        <4>2. msgQAck'[c] # 1
          BY <1>3, <2>1, <3>1 DEF At
        <4> QED
          BY <4>1, <4>2 DEF At
      <3>3. Sound(c, b, 3)'
        BY <1>2, <1>3, <2>1, <2>2, <3>1 DEF Sound, HasRun
      <3> QED
        BY <3>2, <3>3
    <2>4. CASE c # a
      <3>1. At(c, d, i)'
        <4>1. ASSUME NEW e \in CPUs
              PROVE  /\ procId'[e] = c <=> procId[e] = c
                     /\ (\E k \in DOMAIN msgQLocalQ'[e] : msgQLocalQ'[e][k] = c)
                           <=> (\E k \in DOMAIN msgQLocalQ[e] : msgQLocalQ[e][k] = c)
          BY <1>2, <1>q, <2>4
        <4> QED
          BY <1>3, <2>1, <4>1 DEF At
      <3>2. i = 3 => d # b
        BY <1>2, <2>1 DEF At
      <3>3. Sound(c, d, i)'
        BY <1>2, <1>3, <2>1, <2>2, <3>2 DEF Sound, HasRun
      <3> QED
        BY <3>1, <3>3
    <2> QED
      BY <2>3, <2>4
  <1>8. Mailboxes'
    <2>1. \A x \in Requesters, m \in Links : Waits(x, m) => Waits(x, m)'
      BY <1>2, <1>3 DEF Waits
    <2> QED
      BY <1>0, <2>1, StillMailboxes
  <1> QED
    BY <1>4, <1>5, <1>6, <1>7, <1>8 DEF Inv

(* The command that d serves has not run; when it does, it has run once.    *)
LEMMA RunsOnce ==
  ASSUME Inv, NEW d \in CPUs, tpc[d] \in {"run", "mbx"}, RanBy(procMsg[procId[d]])
  PROVE  \E t \in Clients :
           /\ Awaits(t, procId[d]) /\ pc[t] = "await" /\ to[t] \in Links
           /\ At(procId[d], d, 3) /\ Sound(procId[d], d, 3)
           /\ ran' \in [Clients -> Seq(Links)] /\ ran[t] = << >> /\ ran'[t] = <<to[t]>>
           /\ \A u \in Clients : u # t => ran'[u] = ran[u]
  <1>1. PICK t \in Clients :
          /\ Awaits(t, procId[d]) /\ to[t] \in Links
          /\ procMsg[procId[d]] = Message(t) /\ ran[t] = << >>
          /\ At(procId[d], d, 3) /\ Sound(procId[d], d, 3)
    BY Serving
  <1>2. ran' = [ran EXCEPT ![t] = Append(ran[t], to[t])]
    <2>1. procMsg[procId[d]].by = t /\ procMsg[procId[d]].link = to[t]
      BY <1>1 DEF Message
    <2> QED
      BY <2>1 DEF RanBy
  <1>3. Append(ran[t], to[t]) = <<to[t]>> /\ <<to[t]>> \in Seq(Links)
    BY <1>1
  <1>4. /\ ran' \in [Clients -> Seq(Links)] /\ ran'[t] = <<to[t]>>
        /\ \A u \in Clients : u # t => ran'[u] = ran[u]
    BY <1>2, <1>3 DEF Inv, TypeOK
  <1> QED
    BY <1>1, <1>4 DEF Awaits

(* The command that d serves runs: it stays where it is, and its caller's    *)
(* history has the link.                                                    *)
LEMMA RunPlaced ==
  ASSUME Inv, NEW d \in CPUs, tpc[d] \in {"run", "mbx"},
         tpc' = [tpc EXCEPT ![d] = "ack"], RanBy(procMsg[procId[d]]),
         UNCHANGED <<event, msgQLocalQ, procId, msgQAck, pc, to>>
  PROVE  /\ Placed' /\ ran' \in [Clients -> Seq(Links)]
         /\ \E t \in Clients : pc[t] = "await" /\ \A u \in Clients : u # t => ran'[u] = ran[u]
  <1> USE MsgQAssumption
  <1>0. TypeOK /\ Locked /\ Calls /\ Placed /\ Tasks
    BY DEF Inv
  <1>4. PICK t \in Clients :
          /\ Awaits(t, procId[d]) /\ pc[t] = "await"
          /\ At(procId[d], d, 3) /\ Sound(procId[d], d, 3)
          /\ ran' \in [Clients -> Seq(Links)] /\ ran'[t] = <<to[t]>>
          /\ \A u \in Clients : u # t => ran'[u] = ran[u]
    BY RunsOnce
  <1>5. tpc'[d] = "ack" /\ \A e \in CPUs : e # d => tpc'[e] = tpc[e]
    BY <1>0 DEF TypeOK
  <1>6. Placed'
    <2> SUFFICES ASSUME NEW c \in CPUs
                 PROVE  \E e \in CPUs, i \in 0 .. 5 : At(c, e, i)' /\ Sound(c, e, i)'
      BY DEF Placed
    <2>1. \A u \in Clients : Awaits(u, c)' <=> Awaits(u, c)
      BY DEF Awaits
    <2>2. PICK e \in CPUs, i \in 0 .. 5 : At(c, e, i) /\ Sound(c, e, i)
      BY <1>0 DEF Placed
    <2>3. At(c, e, i)'
      BY <2>2 DEF At
    <2>4. CASE c = procId[d]
      <3>1. i = 3 /\ e = d
        BY <2>2, <2>4 DEF At
      <3>2. \A u \in Clients : Awaits(u, c) => u = t
        BY <1>0, <1>4, <2>4, OneHolder DEF Awaits, Holds
      <3>3. Sound(c, e, i)'
        BY <1>4, <1>5, <2>1, <2>2, <3>1, <3>2 DEF Sound, HasRun
      <3> QED
        BY <2>3, <3>3
    <2>5. CASE c # procId[d]
      <3>1. i = 3 => e # d
        BY <2>2, <2>5 DEF At
      <3>2. \A u \in Clients : Awaits(u, c) => u # t
        BY <1>4, <2>5 DEF Awaits
      <3>3. Sound(c, e, i)'
        BY <1>4, <1>5, <2>1, <2>2, <3>1, <3>2 DEF Sound, HasRun
      <3> QED
        BY <2>3, <3>3
    <2> QED
      BY <2>4, <2>5
  <1> QED
    BY <1>4, <1>6

LEMMA TaskRunInv == ASSUME Inv, NEW d \in CPUs, TaskRun(d) PROVE Inv'
  <1> USE MsgQAssumption DEF TaskRun, cpuVars, clientVars
  <1>0. TypeOK /\ Locked /\ Calls /\ Placed /\ Tasks /\ Mailboxes
    BY DEF Inv
  <1> DEFINE m == procMsg[procId[d]]
  <1>1. PICK t \in Clients : to[t] \in Links /\ m = Message(t) /\ pc[t] = "await" /\ procId[d] \in CPUs
    BY Serving DEF Awaits
  <1>2. CASE m.cmd = "GET_INFO"
    <2>1. /\ tpc' = [tpc EXCEPT ![d] = "ack"] /\ RanBy(m)
          /\ UNCHANGED <<event, msgQLocalQ, procId, msgQAck, pc, to, cmd, mbx, hand, lpc,
                         msgQLock, procMsg>>
      BY <1>2
    <2>2. /\ Placed' /\ ran' \in [Clients -> Seq(Links)]
          /\ \E v \in Clients : pc[v] = "await" /\ \A u \in Clients : u # v => ran'[u] = ran[u]
      BY <2>1, RunPlaced
    <2>3. TypeOK'
      BY <1>0, <2>1, <2>2 DEF TypeOK
    <2>4. Locked'
      BY <1>0, <2>1 DEF Locked, Holds, Message
    <2>5. Calls'
      BY <1>0, <2>1, <2>2 DEF Calls, CallOK, Calling, Remote
    <2>6. Tasks'
      BY <1>0, <2>1 DEF Tasks, TypeOK
    <2>7. \A r \in Requesters, l \in Links : Waits(r, l) => Waits(r, l)'
      BY <1>0, <2>1 DEF Waits, TypeOK
    <2>8. Mailboxes'
      BY <1>0, <2>1, <2>7, StillMailboxes
    <2> QED
      BY <2>2, <2>3, <2>4, <2>5, <2>6, <2>8 DEF Inv
  <1>3. CASE m.cmd # "GET_INFO"
    <2> DEFINE e == [from |-> d, cmd |-> m.cmd]
    <2>1. /\ tpc' = [tpc EXCEPT ![d] = "mbx"] /\ mbx' = [mbx EXCEPT ![to[t]] = Append(@, e)]
          /\ UNCHANGED <<event, msgQLocalQ, procId, msgQAck, pc, to, cmd, hand, lpc,
                         msgQLock, procMsg, ran>>
      BY <1>1, <1>3 DEF Message
    <2>2. e \in Entries /\ e.from = d
      <3>1. m.cmd = cmd[t] /\ cmd[t] # "NONE" /\ cmd[t] \in Commands \cup {"GET_INFO", "NONE"}
        BY <1>0, <1>1 DEF Message, TypeOK, Calls, CallOK
      <3> QED
        BY <1>3, <3>1 DEF Entries
    <2>3. tpc'[d] = "mbx" /\ tpc[d] = "run" /\ \A x \in CPUs : x # d => tpc'[x] = tpc[x]
      BY <1>0, <2>1 DEF TypeOK
    <2>4. /\ \A l \in Links : ~Waits(d, l)
          /\ \A r \in Requesters, l \in Links : Waits(r, l) => Waits(r, l)'
          /\ Waits(d, to[t])'
      BY <1>1, <2>1, <2>3 DEF Waits, Message
    <2>5. PICK l \in Links : l = to[t]
      BY <1>1
    <2>6. Mailboxes' /\ mbx' \in [Links -> Seq(Entries)]
      <3> HIDE DEF e
      <3>1. Waits(d, l)'
        BY <1>1, <2>1, <2>3, <2>5 DEF Waits, Message
      <3> QED
        BY <1>0, <2>1, <2>2, <2>4, <2>5, <3>1, PutMailboxes
    <2>7. TypeOK'
      <3>1. mbx' \in [Links -> Seq([from : Controllers \cup CPUs, cmd : Commands])]
        BY <2>6 DEF Entries
      <3> HIDE DEF e
      <3> QED
        BY <1>0, <2>1, <3>1 DEF TypeOK
    <2>8. Locked'
      BY <1>0, <2>1 DEF Locked, Holds, Message
    <2>9. Calls'
      BY <1>0, <2>1 DEF Calls, CallOK, Calling, Remote
    <2>10. Tasks'
      BY <1>0, <2>1, <2>3 DEF Tasks
    <2>11. Placed'
      <3> SUFFICES ASSUME NEW c \in CPUs
                   PROVE  \E f \in CPUs, i \in 0 .. 5 : At(c, f, i)' /\ Sound(c, f, i)'
        BY DEF Placed
      <3>1. PICK f \in CPUs, i \in 0 .. 5 : At(c, f, i) /\ Sound(c, f, i)
        BY <1>0 DEF Placed
      <3>2. At(c, f, i)'
        BY <2>1, <3>1 DEF At
      <3>3. HasRun(f, i)' <=> HasRun(f, i)
        BY <2>3 DEF HasRun
      <3>4. Sound(c, f, i)'
        BY <2>1, <3>1, <3>3 DEF Sound, Awaits
      <3> QED
        BY <3>2, <3>4
    <2> QED
      BY <2>6, <2>7, <2>8, <2>9, <2>10, <2>11 DEF Inv
  <1> QED
    BY <1>2, <1>3

LEMMA TaskAckInv == ASSUME Inv, NEW d \in CPUs, TaskAck(d) PROVE Inv'
  <1> USE MsgQAssumption DEF TaskAck, Raise, cpuVars, linkVars, clientVars
  <1>0. TypeOK /\ Locked /\ Calls /\ Placed /\ Tasks /\ Mailboxes
    BY DEF Inv
  <1>1. PICK a \in CPUs : a = procId[d] /\ a # d
    <2>1. tpc[d] # "get"
      OBVIOUS
    <2>2. procId[d] \in CPUs /\ procId[d] # d
      <3> HIDE DEF TaskAck
      <3> QED
        BY <2>1, Serving
    <2> QED
      BY <2>2
  <1>2. event[<<d, a>>] = "none" /\ event' = [event EXCEPT ![<<d, a>>] = "ACK"]
    BY <1>1
  <1>3. \A x, y \in CPUs : event'[<<x, y>>] = IF x = d /\ y = a THEN "ACK" ELSE event[<<x, y>>]
    BY <1>0, <1>2 DEF TypeOK
  <1>4. /\ procId'[d] = NoOne /\ tpc'[d] = "get" /\ tpc[d] = "ack"
        /\ \A x \in CPUs : x # d => procId'[x] = procId[x] /\ tpc'[x] = tpc[x]
    BY <1>0 DEF TypeOK
  <1>5. UNCHANGED <<msgQLocalQ, msgQAck, ran, to, pc>>
    OBVIOUS
  <1>6. TypeOK'
    <2>1. event' \in [CPUs \X CPUs -> {"none", "MSG", "ACK"}]
      BY <1>0, <1>2 DEF TypeOK
    <2>2. /\ procId' \in [CPUs -> CPUs \cup {NoOne}]
          /\ tpc' \in [CPUs -> {"get", "run", "mbx", "ack"}]
      BY <1>0 DEF TypeOK
    <2> QED
      BY <1>0, <2>1, <2>2 DEF TypeOK
  <1>7. Locked' /\ Calls'
    BY <1>0 DEF Locked, Holds, Message, Calls, CallOK, Calling, Remote
  <1>8. Tasks'
    BY <1>0, <1>4, <1>5 DEF Tasks
  <1>9. Placed'
    <2> SUFFICES ASSUME NEW c \in CPUs
                 PROVE  \E e \in CPUs, i \in 0 .. 5 : At(c, e, i)' /\ Sound(c, e, i)'
      BY DEF Placed
    <2>1. PICK e \in CPUs, i \in 0 .. 5 : At(c, e, i) /\ Sound(c, e, i)
      BY <1>0 DEF Placed
    <2>2. \A u \in Clients : Awaits(u, c)' <=> Awaits(u, c)
      BY <1>5 DEF Awaits
    <2>3. CASE c = a
      <3>1. i = 3 /\ e = d
        BY <1>1, <2>1, <2>3 DEF At
      <3>2. At(c, d, 4)'
        <4>1. ASSUME NEW f \in CPUs
              PROVE  /\ event'[<<c, f>>] # "MSG" /\ procId'[f] # c
                     /\ event'[<<f, c>>] = "ACK" <=> f = d
                     /\ ~\E k \in DOMAIN msgQLocalQ'[f] : msgQLocalQ'[f][k] = c
          <5>1. /\ event[<<c, f>>] # "MSG" /\ event[<<f, c>>] # "ACK"
                /\ procId[f] = c <=> f = d
                /\ ~\E k \in DOMAIN msgQLocalQ[f] : msgQLocalQ[f][k] = c
            BY <2>1, <3>1 DEF At
          <5> QED
            BY <1>1, <1>3, <1>4, <1>5, <2>3, <5>1
        <4>2. msgQAck'[c] # 1
          BY <1>5, <2>1, <3>1 DEF At
        <4> QED
          BY <4>1, <4>2 DEF At
      <3>3. Sound(c, d, 4)'
        BY <1>4, <1>5, <2>1, <2>2, <3>1 DEF Sound, HasRun
      <3> QED
        BY <3>2, <3>3
    <2>4. CASE c # a
      <3>1. At(c, e, i)'
        <4>1. ASSUME NEW f \in CPUs
              PROVE  /\ event'[<<c, f>>] = "MSG" <=> event[<<c, f>>] = "MSG"
                     /\ event'[<<f, c>>] = "ACK" <=> event[<<f, c>>] = "ACK"
                     /\ procId'[f] = c <=> procId[f] = c
          BY <1>1, <1>2, <1>3, <1>4, <2>4
        <4> QED
          BY <1>5, <2>1, <4>1 DEF At
      <3>2. i = 3 => e # d
        BY <1>1, <2>1, <2>4 DEF At
      <3>3. Sound(c, e, i)'
        BY <1>4, <1>5, <2>1, <2>2, <3>2 DEF Sound, HasRun
      <3> QED
        BY <3>1, <3>3
    <2> QED
      BY <2>3, <2>4
  <1>10. Mailboxes'
    <2>1. \A x \in Requesters, m \in Links : Waits(x, m) => Waits(x, m)'
      BY <1>4, <1>5 DEF Waits
    <2> QED
      BY <1>0, <2>1, StillMailboxes
  <1> QED
    BY <1>6, <1>7, <1>8, <1>9, <1>10 DEF Inv

(* The link's task takes the first entry of its mailbox in hand.            *)
LEMMA LinkReceiveInv == ASSUME Inv, NEW l \in Links, LinkReceive(l) PROVE Inv'
  <1> USE MsgQAssumption DEF LinkReceive, cpuVars, taskVars, clientVars
  <1>0. TypeOK /\ Locked /\ Calls /\ Placed /\ Tasks /\ Mailboxes
    BY DEF Inv
  <1> DEFINE s == mbx[l]
  <1>1. s \in Seq(Entries) /\ s # << >>
    BY <1>0 DEF TypeOK, Entries
  <1>2. /\ Head(s) \in Entries /\ Head(s) = s[1] /\ Len(s) \in Nat \ {0}
        /\ Tail(s) \in Seq(Entries) /\ DOMAIN s = 1 .. Len(s)
        /\ DOMAIN Tail(s) = 1 .. Len(s) - 1
        /\ \A k \in 1 .. Len(s) - 1 : Tail(s)[k] = s[k + 1]
    <2> HIDE DEF s
    <2> QED
      BY <1>1, HeadTailProperties, EmptySeq, LenProperties
  <1>3. mbx \in [Links -> Seq(Entries)] /\ mbx' = [mbx EXCEPT ![l] = Tail(s)]
    BY <1>0 DEF TypeOK, Entries
  <1>4. /\ mbx' \in [Links -> Seq(Entries)] /\ mbx'[l] = Tail(s)
        /\ \A m \in Links : m # l => mbx'[m] = mbx[m]
    <2> HIDE DEF s
    <2> QED
      BY <1>2, <1>3
  <1>5. hand \in [Links -> Entries \cup {NoCmd}] /\ hand' = [hand EXCEPT ![l] = Head(s)]
    BY <1>0 DEF TypeOK, Entries
  <1>6. /\ hand' \in [Links -> Entries \cup {NoCmd}] /\ hand'[l] = Head(s)
        /\ \A m \in Links : m # l => hand'[m] = hand[m]
    <2> HIDE DEF s
    <2> QED
      BY <1>2, <1>5
  <1>7. /\ lpc' \in [Links -> {"wait", "info", "ack"}] /\ lpc'[l] # "wait"
        /\ \A m \in Links : m # l => lpc'[m] = lpc[m]
    BY <1>0 DEF TypeOK
  <1>8. UNCHANGED <<msgQLock, msgQAck, procMsg, msgQLocalQ, tpc, procId, event, pc, to, cmd, ran>>
    OBVIOUS
  <1>9. TypeOK'
    <2>1. /\ mbx' \in [Links -> Seq([from : Controllers \cup CPUs, cmd : Commands])]
          /\ hand' \in [Links -> [from : Controllers \cup CPUs, cmd : Commands] \cup {NoCmd}]
      BY <1>4, <1>6 DEF Entries
    <2> HIDE DEF s, LinkReceive
    <2> QED
      BY <1>0, <1>7, <1>8, <2>1 DEF TypeOK
  <1>10. Locked' /\ Tasks'
    BY <1>0, <1>8 DEF Locked, Holds, Message, Tasks
  <1>11. Calls'
    <2> SUFFICES ASSUME NEW u \in Clients PROVE CallOK(u)'
      BY DEF Calls
    <2>1. CallOK(u)
      BY <1>0 DEF Calls
    <2>2. u = l => pc[u] = "idle"
      BY <2>1 DEF CallOK
    <2> QED
      BY <1>7, <1>8, <2>1, <2>2 DEF CallOK, Calling, Remote
  <1>12. Placed'
    BY <1>0, <1>8, StillPlaced
  <1>13. \A r \in Requesters, m \in Links : Waits(r, m)' <=> Waits(r, m)
    BY <1>8 DEF Waits
  <1>14. Mailboxes'
    <2> SUFFICES ASSUME NEW m \in Links PROVE MailboxOK(m)'
      BY DEF Mailboxes
    <2>1. MailboxOK(m)
      BY <1>0 DEF Mailboxes
    <2>2. CASE m # l
      <3>1. \A r \in Requesters : /\ InHand(r, m)' <=> InHand(r, m)
                                  /\ \A k \in Nat : Queued(r, m, k)' <=> Queued(r, m, k)
        BY <1>4, <1>6, <2>2 DEF InHand, Queued
      <3>2. lpc'[m] = lpc[m] /\ hand'[m] = hand[m]
        BY <1>6, <1>7, <2>2
      <3> QED
        BY <1>13, <2>1, <3>1, <3>2 DEF MailboxOK
    <2>3. CASE m = l
      <3>1. hand'[l] # NoCmd
        BY <1>2, <1>6 DEF Entries, NoCmd, Commands
      <3> HIDE DEF s
      <3>2. \A r \in Requesters : InHand(r, l)' <=> s[1].from = r
        BY <1>2, <1>6, <3>1 DEF InHand
      <3>3. s = mbx[l]
        BY DEF s
      <3>4. \A r \in Requesters : s[1].from = r <=> Queued(r, l, 1)
        BY <1>2, <3>3 DEF Queued
      <3>5. \A r \in Requesters, k \in Nat : Queued(r, l, k)' => Queued(r, l, k + 1) /\ k + 1 # 1
        BY <1>2, <1>4, <3>3 DEF Queued
      <3>6. ASSUME NEW r \in Requesters, InHand(r, l)' PROVE Waits(r, l)'
        BY <1>13, <2>1, <2>3, <3>2, <3>4, <3>6 DEF MailboxOK
      <3>7. ASSUME NEW r \in Requesters, NEW k \in Nat, Queued(r, l, k)'
            PROVE  /\ Waits(r, l)' /\ ~InHand(r, l)'
                   /\ \A j \in Nat : Queued(r, l, j)' => j = k
        <4>1. Queued(r, l, k + 1) /\ k + 1 \in Nat /\ k + 1 # 1
          BY <3>5, <3>7
        <4>2. Waits(r, l) /\ \A j \in Nat : Queued(r, l, j) => j = k + 1
          BY <2>1, <2>3, <4>1 DEF MailboxOK
        <4>3. ~InHand(r, l)'
          BY <3>2, <3>4, <4>1, <4>2
        <4>4. ASSUME NEW j \in Nat, Queued(r, l, j)' PROVE j = k
          <5>1. Queued(r, l, j + 1) /\ j + 1 \in Nat
            BY <3>5, <4>4
          <5>2. j + 1 = k + 1
            BY <4>2, <5>1
          <5> QED
            BY <5>2
        <4> QED
          BY <1>13, <4>2, <4>3, <4>4
      <3> QED
        BY <1>7, <2>3, <3>1, <3>6, <3>7 DEF MailboxOK
    <2> QED
      BY <2>2, <2>3
  <1> QED
    BY <1>9, <1>10, <1>11, <1>12, <1>14 DEF Inv

(* The link's task acknowledges what it has in hand, and nobody else waits   *)
(* less than before.                                                        *)
LEMMA AckMailboxes ==
  ASSUME TypeOK, Mailboxes, NEW l \in Links, NEW r \in Requesters, InHand(r, l),
         hand' = [hand EXCEPT ![l] = NoCmd], lpc' = [lpc EXCEPT ![l] = "wait"], UNCHANGED mbx,
         \A x \in Requesters, m \in Links : x # r /\ Waits(x, m) => Waits(x, m)'
  PROVE  Mailboxes'
  <1> SUFFICES ASSUME NEW m \in Links PROVE MailboxOK(m)'
    BY DEF Mailboxes
  <1>1. MailboxOK(m) /\ MailboxOK(l)
    BY DEF Mailboxes
  <1>2. \A x \in Requesters, k \in Nat : Queued(x, m, k)' <=> Queued(x, m, k)
    BY DEF Queued
  <1>3. \A n \in Links : Waits(r, n) => n = l
    BY <1>1 DEF MailboxOK, Waits
  <1>4. \A x \in Requesters, k \in Nat : Queued(x, m, k) => x # r
    BY <1>1, <1>3 DEF MailboxOK
  <1>5. CASE m = l
    <2>1. lpc'[m] = "wait" /\ hand'[m] = NoCmd
      BY <1>5 DEF TypeOK
    <2>2. \A x \in Requesters : ~InHand(x, m)'
      BY <2>1 DEF InHand
    <2> QED
      BY <1>1, <1>2, <1>4, <2>1, <2>2 DEF MailboxOK
  <1>6. CASE m # l
    <2>1. lpc'[m] = lpc[m] /\ hand'[m] = hand[m]
      BY <1>6 DEF TypeOK
    <2>2. \A x \in Requesters : InHand(x, m)' <=> InHand(x, m)
      BY <2>1 DEF InHand
    <2>3. \A x \in Requesters : InHand(x, m) => x # r
      BY <1>1, <1>3, <1>6 DEF MailboxOK
    <2> QED
      BY <1>1, <1>2, <1>4, <2>1, <2>2, <2>3 DEF MailboxOK
  <1> QED
    BY <1>5, <1>6

LEMMA LinkAckInv == ASSUME Inv, NEW l \in Links, LinkAck(l) PROVE Inv'
  <1> USE MsgQAssumption DEF LinkAck, Goto, cpuVars
  <1>0. TypeOK /\ Locked /\ Calls /\ Placed /\ Tasks /\ Mailboxes
    BY DEF Inv
  <1>1. hand[l] # NoCmd /\ hand[l].from \in Requesters /\ MailboxOK(l)
    BY <1>0 DEF TypeOK, Mailboxes, MailboxOK, Requesters
  <1>2. PICK r \in Requesters : r = hand[l].from
    BY <1>1
  <1>3. InHand(r, l) /\ Waits(r, l)
    BY <1>1, <1>2 DEF InHand, MailboxOK
  <1>4. /\ hand' \in [Links -> [from : Controllers \cup CPUs, cmd : Commands] \cup {NoCmd}]
        /\ lpc' \in [Links -> {"wait", "info", "ack"}]
        /\ hand' = [hand EXCEPT ![l] = NoCmd] /\ lpc' = [lpc EXCEPT ![l] = "wait"]
        /\ \A u \in Links : u # l => lpc'[u] = lpc[u]
    BY <1>0 DEF TypeOK
  <1>5. UNCHANGED <<msgQLock, msgQAck, procMsg, msgQLocalQ, procId, event, mbx, to, cmd>>
    OBVIOUS
  <1>6. l \in Clients => pc[l] = "idle"
    BY <1>0 DEF Calls, CallOK
  <1>7. CASE r \in CPUs
    <2>1. tpc[r] = "mbx"
      BY <1>3, <1>7 DEF Waits
    <2>2. RanBy(procMsg[procId[r]]) /\ tpc' = [tpc EXCEPT ![r] = "ack"] /\ UNCHANGED pc
      BY <1>2, <1>7
    <2>3. /\ Placed' /\ ran' \in [Clients -> Seq(Links)]
          /\ \E v \in Clients : pc[v] = "await" /\ \A u \in Clients : u # v => ran'[u] = ran[u]
      BY <1>5, <1>7, <2>1, <2>2, RunPlaced
    <2>4. /\ tpc' \in [CPUs -> {"get", "run", "mbx", "ack"}] /\ tpc'[r] = "ack"
          /\ \A x \in CPUs : x # r => tpc'[x] = tpc[x]
      BY <1>0, <1>7, <2>2 DEF TypeOK
    <2> HIDE DEF LinkAck
    <2>5. TypeOK'
      BY <1>0, <1>4, <1>5, <2>2, <2>3, <2>4 DEF TypeOK
    <2>6. Locked'
      BY <1>0, <1>5, <2>2 DEF Locked, Holds, Message
    <2>7. Calls'
      <3> SUFFICES ASSUME NEW u \in Clients PROVE CallOK(u)'
        BY DEF Calls
      <3>1. CallOK(u)
        BY <1>0 DEF Calls
      <3>2. pc[u] # "await" => ran'[u] = ran[u]
        BY <2>3
      <3> QED
        BY <1>4, <1>5, <1>6, <2>2, <3>1, <3>2 DEF CallOK, Calling, Remote
    <2>8. Tasks'
      BY <1>0, <1>5, <2>1, <2>4 DEF Tasks
    <2>9. \A x \in Requesters, m \in Links : x # r /\ Waits(x, m) => Waits(x, m)'
      BY <1>5, <2>2, <2>4 DEF Waits
    <2>10. Mailboxes'
      BY <1>0, <1>3, <1>4, <1>5, <2>9, AckMailboxes
    <2> QED
      BY <2>3, <2>5, <2>6, <2>7, <2>8, <2>10 DEF Inv
  <1>8. CASE r \notin CPUs
    <2>1. r \in Clients /\ r \in Controllers /\ pc[r] = "mbx" /\ to[r] = l
      BY <1>3, <1>8 DEF Waits, Requesters, Clients
    <2>2. /\ ran' = [ran EXCEPT ![r] = Append(@, l)] /\ pc' = [pc EXCEPT ![r] = "acked"]
          /\ UNCHANGED tpc
      BY <1>2, <1>8
    <2>3. ran[r] = << >> /\ ran[r] \in Seq(Links)
      BY <1>0, <2>1 DEF Calls, CallOK, TypeOK
    <2>4. /\ ran' \in [Clients -> Seq(Links)] /\ ran'[r] = <<l>>
          /\ \A u \in Clients : u # r => ran'[u] = ran[u]
      BY <1>0, <2>1, <2>2, <2>3 DEF TypeOK
    <2>5. /\ pc' \in [Clients -> Labels] /\ pc'[r] = "acked"
          /\ \A u \in Clients : u # r => pc'[u] = pc[u]
      BY <1>0, <2>1, <2>2 DEF TypeOK, Labels
    <2> HIDE DEF LinkAck
    <2>6. TypeOK'
      BY <1>0, <1>4, <1>5, <2>2, <2>4, <2>5 DEF TypeOK, Labels
    <2>7. Locked'
      BY <1>0, <1>5, <2>5 DEF Locked, Holds, Message
    <2>8. Calls'
      <3> SUFFICES ASSUME NEW u \in Clients PROVE CallOK(u)'
        BY DEF Calls
      <3>1. CallOK(u)
        BY <1>0 DEF Calls
      <3>2. CASE u = r
        <4>1. u \notin Links
          BY <2>1, <3>2
        <4> QED
          BY <1>5, <2>1, <2>4, <2>5, <3>1, <3>2, <4>1 DEF CallOK, Calling, Remote
      <3>3. CASE u # r
        BY <1>4, <1>5, <1>6, <2>4, <2>5, <3>1, <3>3 DEF CallOK, Calling, Remote
      <3> QED
        BY <3>2, <3>3
    <2>9. Tasks'
      BY <1>0, <1>5, <2>2 DEF Tasks
    <2>10. \A x \in Requesters, m \in Links : x # r /\ Waits(x, m) => Waits(x, m)'
      BY <1>5, <2>2, <2>5 DEF Waits, Requesters, Clients
    <2>11. Mailboxes'
      BY <1>0, <1>3, <1>4, <1>5, <2>10, AckMailboxes
    <2>12. Placed'
      <3>1. \A u \in Clients : pc'[u] = "await" <=> pc[u] = "await"
        BY <2>1, <2>5
      <3>2. \A u \in Clients : pc[u] = "await" => ran'[u] = ran[u] /\ to'[u] = to[u]
        BY <1>5, <2>1, <2>4
      <3> QED
        BY <1>0, <1>5, <2>2, <3>1, <3>2, StillPlaced
    <2> QED
      BY <2>6, <2>7, <2>8, <2>9, <2>11, <2>12 DEF Inv
  <1> QED
    BY <1>7, <1>8

LEMMA StutterInv == Inv /\ UNCHANGED vars => Inv'
  <1> SUFFICES ASSUME Inv, UNCHANGED vars PROVE Inv'
    OBVIOUS
  <1> USE DEF vars, cpuVars, taskVars, linkVars, clientVars
  <1>0. TypeOK /\ Locked /\ Calls /\ Placed /\ Tasks /\ Mailboxes
    BY DEF Inv
  <1>1. TypeOK' /\ Tasks'
    BY <1>0 DEF TypeOK, Tasks
  <1>2. Locked' /\ Calls'
    BY <1>0 DEF Locked, Holds, Message, Calls, CallOK, Calling, Remote
  <1>3. Placed'
    BY <1>0, StillPlaced
  <1>4. Mailboxes'
    BY <1>0, StillWaits, StillMailboxes
  <1> QED
    BY <1>1, <1>2, <1>3, <1>4 DEF Inv

LEMMA NextInv == Inv /\ [Next]_vars => Inv'
  <1> SUFFICES ASSUME Inv, [Next]_vars PROVE Inv'
    OBVIOUS
  <1>1. ASSUME NEW t \in Controllers, NEW l \in Links, NEW k \in Commands, Control(t, l, k)
        PROVE  Inv'
    BY <1>1, ControlInv
  <1>2. ASSUME NEW t \in Clients, Lock(t) \/ Notify(t) \/ Sends(t) PROVE Inv'
    BY <1>2, LockInv, NotifyInv, ClearAckInv, AwaitInv, MbxReturnInv DEF Sends
  <1>3. ASSUME NEW c \in CPUs, NEW d \in CPUs, NotifyHandler(c, d) PROVE Inv'
    BY <1>3, NotifyHandlerInv
  <1>4. ASSUME NEW d \in CPUs, TaskStep(d) PROVE Inv'
    BY <1>4, GetInv, TaskRunInv, TaskAckInv DEF TaskStep
  <1>5. ASSUME NEW l \in Links, LinkStep(l) PROVE Inv'
    BY <1>5, LinkReceiveInv, GetInfoInv, LinkAckInv DEF LinkStep
  <1>6. CASE UNCHANGED vars
    BY <1>6, StutterInv
  <1> QED
    BY <1>1, <1>2, <1>3, <1>4, <1>5, <1>6 DEF Next

-----------------------------------------------------------------------------
(* The types of all variables: in particular a MsgQ task never looks at the  *)
(* message of no CPU, or at one that was not filled.                         *)
THEOREM TypeCorrect == Spec => []TypeOK
  <1>1. Inv => TypeOK
    BY DEF Inv
  <1> QED
    BY <1>1, InitInv, NextInv, PTL DEF Spec

(* What a caller copies back from the message is its own, whoever else on    *)
(* its CPU calls at the same time.                                          *)
THEOREM AnswersOwn == Spec => AnswerOwn
  <1> DEFINE Own == \A t \in Clients : Await(t) => procMsg[Cpu[t]] = Message(t)
  <1>1. Inv /\ [Next]_vars => [Own]_vars
    BY DEF Inv, Locked, Holds, Await
  <1>2. Inv /\ [Next]_vars => Inv'
    BY NextInv
  <1>3. AnswerOwn <=> [][Own]_vars
    BY DEF AnswerOwn
  <1> HIDE DEF Own
  <1> QED
    BY <1>1, <1>2, <1>3, InitInv, PTL DEF Spec

(* The command of a CPU is counted at the one place where it is.            *)
LEMMA PlacesOf ==
  ASSUME Inv, NEW c \in CPUs, NEW d \in CPUs, NEW i \in 0 .. 5, At(c, d, i)
  PROVE  Places(c) = IF i = 0 THEN 0 ELSE 1
  <1> DEFINE M == {e \in CPUs : event[<<c, e>>] = "MSG"}
             Q == {p \in CPUs \X (1 .. QueMax) :
                     p[2] \in DOMAIN msgQLocalQ[p[1]] /\ msgQLocalQ[p[1]][p[2]] = c}
             T == {e \in CPUs : procId[e] = c}
             A == {e \in CPUs : event[<<e, c>>] = "ACK"}
  <1>1. Cardinality(M) = IF i = 1 THEN 1 ELSE 0
    <2>1. \A e \in CPUs : event[<<c, e>>] = "MSG" <=> (i = 1 /\ e = d)
      BY DEF At
    <2>2. M = IF i = 1 THEN {d} ELSE {}
      BY <2>1
    <2> QED
      BY <2>2, FS_Singleton, FS_EmptySet
  <1>2. Cardinality(T) = IF i = 3 THEN 1 ELSE 0
    <2>1. \A e \in CPUs : procId[e] = c <=> (i = 3 /\ e = d)
      BY DEF At
    <2>2. T = IF i = 3 THEN {d} ELSE {}
      BY <2>1
    <2> QED
      BY <2>2, FS_Singleton, FS_EmptySet
  <1>3. Cardinality(A) = IF i = 4 THEN 1 ELSE 0
    <2>1. \A e \in CPUs : event[<<e, c>>] = "ACK" <=> (i = 4 /\ e = d)
      BY DEF At
    <2>2. A = IF i = 4 THEN {d} ELSE {}
      BY <2>1
    <2> QED
      BY <2>2, FS_Singleton, FS_EmptySet
  <1>4. msgQAck[c] = IF i = 5 THEN 1 ELSE 0
    BY DEF At, Inv, TypeOK
  <1>5. Cardinality(Q) = IF i = 2 THEN 1 ELSE 0
    <2>1. \A e \in CPUs : (\E k \in DOMAIN msgQLocalQ[e] : msgQLocalQ[e][k] = c) <=> (i = 2 /\ e = d)
      BY DEF At
    <2>2. CASE i # 2
      <3>1. Q = {}
        BY <2>1, <2>2
      <3> QED
        BY <2>2, <3>1, FS_EmptySet
    <2>3. CASE i = 2
      <3>1. PICK k \in DOMAIN msgQLocalQ[d] : msgQLocalQ[d][k] = c
        BY <2>1, <2>3
      <3>2. /\ \A j \in DOMAIN msgQLocalQ[d] : msgQLocalQ[d][j] = c => j = k
            /\ Len(msgQLocalQ[d]) <= QueMax /\ msgQLocalQ[d] \in Seq(CPUs)
        BY <3>1 DEF Inv, Tasks, TypeOK
      <3>3. k \in 1 .. QueMax
        <4>1. k \in 1 .. Len(msgQLocalQ[d]) /\ Len(msgQLocalQ[d]) \in Nat
          BY <3>1, <3>2, LenProperties
        <4> QED
          BY <3>2, <4>1, MsgQAssumption
      <3>4. Q = {<<d, k>>}
        <4>1. <<d, k>> \in Q
          BY <3>1, <3>3
        <4>2. ASSUME NEW p \in Q PROVE p = <<d, k>>
          <5>1. p[1] \in CPUs /\ p[2] \in 1 .. QueMax /\ p = <<p[1], p[2]>>
            OBVIOUS
          <5>2. p[1] = d
            BY <2>1, <5>1
          <5>3. p[2] = k
            BY <3>2, <5>1, <5>2
          <5> QED
            BY <5>1, <5>2, <5>3
        <4> QED
          BY <4>1, <4>2
      <3> HIDE DEF Q
      <3> QED
        BY <2>3, <3>4, FS_Singleton
    <2> QED
      BY <2>2, <2>3
  <1>6. Places(c) = Cardinality(M) + Cardinality(Q) + Cardinality(T) + Cardinality(A) + msgQAck[c]
    BY DEF Places
  <1> HIDE DEF M, Q, T, A
  <1> QED
    BY <1>1, <1>2, <1>3, <1>4, <1>5, <1>6

(* If the local queue of a CPU has room for every other CPU, no command is   *)
(* dropped or doubled and no acknowledgement is late.                       *)
THEOREM CommandsCounted == ASSUME Room PROVE Spec => []OneCommandPerCpu
  <1>1. Inv => OneCommandPerCpu
    <2> SUFFICES ASSUME Inv, NEW c \in CPUs
                 PROVE  Places(c) = IF \E t \in Clients : Cpu[t] = c /\ pc[t] = "await" THEN 1 ELSE 0
      BY DEF OneCommandPerCpu
    <2>1. PICK d \in CPUs, i \in 0 .. 5 : At(c, d, i) /\ Sound(c, d, i)
      BY DEF Inv, Placed
    <2>2. Places(c) = IF i = 0 THEN 0 ELSE 1
      BY <2>1, PlacesOf
    <2>3. i = 0 <=> ~\E t \in Clients : Cpu[t] = c /\ pc[t] = "await"
      BY <2>1 DEF Sound, Awaits
    <2> QED
      BY <2>2, <2>3
  <1> QED
    BY <1>1, InitInv, NextInv, PTL DEF Spec

-----------------------------------------------------------------------------
(* The refinement.                                                          *)

(* What a caller's state is for Rpc.                                        *)
LEMMA CalledIs ==
  ASSUME Calls, NEW t \in Clients, pc[t] \in Labels, ran[t] \in Seq(Links)
  PROVE  /\ pc[t] = "idle" => Called(t) = "idle"
         /\ pc[t] # "idle" /\ ran[t] = << >> => Called(t) = "called"
         /\ pc[t] # "idle" /\ ran[t] = <<to[t]>> => Called(t) = "run"
  <1>1. pc[t] = "idle" => ran[t] = << >>
    BY DEF Calls, CallOK
  <1>2. << >> # <<to[t]>>
    OBVIOUS
  <1> QED
    BY <1>1, <1>2 DEF Called

LEMMA CalledStays ==
  ASSUME NEW u \in Clients, pc'[u] = "idle" <=> pc[u] = "idle", ran'[u] = ran[u], to'[u] = to[u]
  PROVE  Called(u)' = Called(u)
  BY DEF Called

(* A step of one caller is a step of Rpc.                                   *)
LEMMA RpcCall ==
  ASSUME Inv, Inv', NEW t \in Clients, NEW l \in Links,
         pc[t] = "idle", pc'[t] # "idle", ran' = ran, to' = [to EXCEPT ![t] = l],
         \A u \in Clients : u # t => pc'[u] = pc[u]
  PROVE  R!Next
  <1>1. Called(t) = "idle" /\ Called(t)' = "called"
    <2>1. ran[t] = << >> /\ pc[t] \in Labels /\ pc'[t] \in Labels /\ ran[t] \in Seq(Links)
      BY DEF Inv, TypeOK, Calls, CallOK, Labels
    <2> QED
      BY <2>1 DEF Called
  <1>2. ASSUME NEW u \in Clients, u # t PROVE Called(u)' = Called(u)
    <2>1. to'[u] = to[u] /\ pc'[u] = pc[u] /\ ran'[u] = ran[u]
      BY <1>2 DEF Inv, TypeOK
    <2> QED
      BY <2>1, CalledStays
  <1>3. R!Call(t, l)
    BY <1>1, <1>2 DEF R!Call
  <1> QED
    BY <1>3 DEF R!Next

LEMMA RpcRun ==
  ASSUME Inv, NEW t \in Clients, pc[t] # "idle", pc'[t] # "idle", to' = to,
         ran[t] = << >>, ran'[t] = <<to[t]>>,
         \A u \in Clients : u # t => ran'[u] = ran[u] /\ pc'[u] = pc[u]
  PROVE  R!Next
  <1>1. Called(t) = "called" /\ Called(t)' = "run"
    BY DEF Called
  <1>2. \A u \in Clients : u # t => Called(u)' = Called(u)
    BY CalledStays
  <1>3. R!Run(t)
    BY <1>1, <1>2 DEF R!Run
  <1> QED
    BY <1>3 DEF R!Next

LEMMA RpcReturn ==
  ASSUME Inv, NEW t \in Clients, pc[t] # "idle", ran[t] = <<to[t]>>, Returns(t)
  PROVE  R!Next
  <1>1. pc'[t] = "idle" /\ ran'[t] = << >> /\ to' = [to EXCEPT ![t] = NoOne]
    BY DEF Inv, TypeOK, Returns, Goto
  <1>2. Called(t) = "run" /\ Called(t)' = "idle"
    BY <1>1 DEF Called
  <1>3. ASSUME NEW u \in Clients, u # t PROVE Called(u)' = Called(u)
    <2>1. to'[u] = to[u] /\ pc'[u] = pc[u] /\ ran'[u] = ran[u]
      BY <1>3 DEF Inv, TypeOK, Returns, Goto
    <2> QED
      BY <2>1, CalledStays
  <1>4. R!Return(t)
    BY <1>1, <1>2, <1>3 DEF R!Return
  <1> QED
    BY <1>4 DEF R!Next

LEMMA RpcStutter ==
  ASSUME ran' = ran, to' = to, \A u \in Clients : pc'[u] = "idle" <=> pc[u] = "idle"
  PROVE  UNCHANGED R!rpcVars
  <1>1. \A u \in Clients : Called(u)' = Called(u)
    BY CalledStays
  <1> QED
    BY <1>1 DEF R!rpcVars

LEMMA StepRpc == Inv /\ Inv' /\ [Next]_vars => [R!Next]_(R!rpcVars)
  <1> SUFFICES ASSUME Inv, Inv', [Next]_vars PROVE R!Next \/ UNCHANGED R!rpcVars
    OBVIOUS
  <1> USE MsgQAssumption DEF cpuVars, taskVars, linkVars, clientVars
  <1>0. TypeOK
    BY DEF Inv
  <1>1. ASSUME NEW t \in Controllers, NEW l \in Links, NEW k \in Commands, Control(t, l, k)
        PROVE  R!Next
    <2>1. t \in Clients /\ pc[t] = "idle" /\ to' = [to EXCEPT ![t] = l] /\ ran' = ran
      BY <1>1 DEF Control, Clients
    <2>2. pc'[t] # "idle" /\ \A u \in Clients : u # t => pc'[u] = pc[u]
      BY <1>0, <1>1, <2>1 DEF Control, Goto, TypeOK
    <2> QED
      BY <2>1, <2>2, RpcCall
  <1>2. ASSUME NEW t \in Clients, Lock(t) \/ Notify(t) \/ ClearAck(t) PROVE UNCHANGED R!rpcVars
    <2>1. ran' = ran /\ to' = to
      BY <1>2 DEF Lock, Notify, ClearAck
    <2>2. \A u \in Clients : pc'[u] = "idle" <=> pc[u] = "idle"
      BY <1>0, <1>2 DEF Lock, Notify, ClearAck, Goto, TypeOK
    <2> QED
      BY <2>1, <2>2, RpcStutter
  <1>3. ASSUME NEW t \in Clients, Await(t) PROVE R!Next
    <2>1. pc[t] # "idle" /\ Returns(t)
      BY <1>3 DEF Await
    <2> QED
      BY <1>3, <2>1, Awaited, RpcReturn
  <1>4. ASSUME NEW t \in Clients, MbxReturn(t) PROVE R!Next
    <2>1. pc[t] # "idle" /\ Returns(t) /\ ran[t] = <<to[t]>>
      BY <1>4 DEF MbxReturn, Inv, Calls, CallOK
    <2> QED
      BY <2>1, RpcReturn
  <1>5. ASSUME NEW c \in CPUs, NEW d \in CPUs, NotifyHandler(c, d) PROVE UNCHANGED R!rpcVars
    BY <1>5, RpcStutter DEF NotifyHandler
  <1>6. ASSUME NEW d \in CPUs, Get(d) \/ TaskAck(d) PROVE UNCHANGED R!rpcVars
    BY <1>6, RpcStutter DEF Get, TaskAck
  <1>7. ASSUME NEW d \in CPUs, TaskRun(d) PROVE R!Next \/ UNCHANGED R!rpcVars
    <2>1. pc' = pc /\ to' = to
      BY <1>7 DEF TaskRun
    <2>2. ran' = ran \/ (RanBy(procMsg[procId[d]]) /\ tpc[d] = "run")
      BY <1>7 DEF TaskRun
    <2>3. CASE ran' = ran
      BY <2>1, <2>3, RpcStutter
    <2>4. CASE RanBy(procMsg[procId[d]]) /\ tpc[d] = "run"
      BY <2>1, <2>4, RunsOnce, RpcRun
    <2> QED
      BY <2>2, <2>3, <2>4
  <1>8. ASSUME NEW l \in Links, LinkReceive(l) PROVE UNCHANGED R!rpcVars
    BY <1>8, RpcStutter DEF LinkReceive
  <1>9. ASSUME NEW l \in Links, GetInfo(l) PROVE R!Next \/ UNCHANGED R!rpcVars
    <2>1. l \in Clients /\ pc[l] = "idle" /\ ran' = ran
      BY <1>9 DEF GetInfo, Clients
    <2>2. CASE Prev[l] # NoOne /\ Remote(l, Prev[l])
      <3>1. to' = [to EXCEPT ![l] = Prev[l]] /\ Prev[l] \in Links
        BY <1>9, <2>2 DEF GetInfo
      <3>2. pc'[l] # "idle" /\ \A u \in Clients : u # l => pc'[u] = pc[u]
        BY <1>0, <1>9, <2>1, <2>2 DEF GetInfo, Goto, TypeOK
      <3> QED
        BY <2>1, <3>1, <3>2, RpcCall
    <2>3. CASE ~(Prev[l] # NoOne /\ Remote(l, Prev[l]))
      <3>1. pc' = pc /\ to' = to
        BY <1>9, <2>3 DEF GetInfo
      <3> QED
        BY <2>1, <3>1, RpcStutter
    <2> QED
      BY <2>2, <2>3
  <1>10. ASSUME NEW l \in Links, LinkAck(l) PROVE R!Next
    <2>1. hand[l] # NoCmd /\ hand[l].from \in Requesters /\ MailboxOK(l)
      BY <1>10 DEF LinkAck, Inv, TypeOK, Mailboxes, MailboxOK, Requesters
    <2>2. PICK r \in Requesters : r = hand[l].from
      BY <2>1
    <2>3. Waits(r, l)
      BY <2>1, <2>2 DEF InHand, MailboxOK
    <2>4. to' = to
      BY <1>10 DEF LinkAck
    <2>5. CASE r \in CPUs
      <3>1. tpc[r] = "mbx" /\ pc' = pc /\ RanBy(procMsg[procId[r]])
        BY <1>10, <2>2, <2>3, <2>5 DEF LinkAck, Waits
      <3> QED
        BY <2>4, <2>5, <3>1, RunsOnce, RpcRun
    <2>6. CASE r \notin CPUs
      <3>1. r \in Clients /\ pc[r] = "mbx" /\ to[r] = l
        BY <2>3, <2>6 DEF Waits, Requesters, Clients
      <3>2. ran' = [ran EXCEPT ![r] = Append(@, l)] /\ pc' = [pc EXCEPT ![r] = "acked"]
        BY <1>10, <2>2, <2>6 DEF LinkAck, Goto
      <3>3. ran[r] = << >>
        BY <3>1 DEF Inv, Calls, CallOK
      <3>4. /\ ran'[r] = <<to[r]>> /\ pc'[r] # "idle"
            /\ \A u \in Clients : u # r => ran'[u] = ran[u] /\ pc'[u] = pc[u]
        BY <1>0, <3>1, <3>2, <3>3 DEF TypeOK
      <3> QED
        BY <2>4, <3>1, <3>3, <3>4, RpcRun
    <2> QED
      BY <2>5, <2>6
  <1>11. CASE UNCHANGED vars
    BY <1>11, RpcStutter DEF vars
  <1> QED
    BY <1>1, <1>2, <1>3, <1>4, <1>5, <1>6, <1>7, <1>8, <1>9, <1>10, <1>11
       DEF Next, Sends, TaskStep, LinkStep

LEMMA InitRpc == Init => R!Init
  <1> SUFFICES ASSUME Init PROVE R!Init
    OBVIOUS
  <1>1. \A t \in Clients : Called(t) = "idle"
    BY DEF Init, Called
  <1> QED
    BY <1>1 DEF Init, R!Init

(* A command runs once, on the link it was sent to, between its call and its *)
(* return, for any CPUs, links and callers, commands nested and crossing.    *)
THEOREM Refinement == Spec => IsRpc
  <1>1. Inv /\ [Next]_vars => Inv'
    BY NextInv
  <1>2. Spec => R!Init /\ [][R!Next]_(R!rpcVars)
    BY <1>1, InitInv, InitRpc, StepRpc, PTL DEF Spec
  <1> QED
    BY <1>2 DEF IsRpc, R!Spec
=============================================================================
