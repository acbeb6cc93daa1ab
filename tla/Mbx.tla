--------------------------------- MODULE Mbx ---------------------------------
(***************************************************************************)
(* Commands to links on one CPU: the mailboxes of utils_mbx.c, the tasks of  *)
(* utils_tsk.c, each with a mailbox of its own, and the task of              *)
(* utils_tsk_multi_mbx.c, which serves the mailboxes of several links.       *)
(*                                                                         *)
(* Threads and interrupts (Senders) tell a link that data waits for it:      *)
(* SYSTEM_CMD_NEW_DATA by Utils_mbxSendCmd, which never waits.  Controllers   *)
(* send other commands by Utils_mbxSendMsg, which waits for a free message,  *)
(* and for the acknowledgement if they ask for one.  A queue operation is    *)
(* one step (module UtilsQue).  A message is [cmd, from, slot]: the pointer   *)
(* the sender compares is told by from, the ack queue by slot (0: no ack).   *)
(***************************************************************************)
EXTENDS Integers, FiniteSets, Sequences, SequencesExt, FiniteSetsExt

CONSTANTS Own,          \* links whose task serves only them
          Sharing,      \* links served by the multi-mailbox task
          Pri,          \* per sharing link: index of its queue, 0 the highest
          Multi,        \* the multi-mailbox task
          Senders, Controllers, NoOne,
          PoolMax,      \* UTILS_MBX_MSG_POOL_MAX
          TriggerMax,   \* UTILS_TASK_MULTI_MBX_RECV_QUE_LEN_MAX
          AckMax,       \* UTILS_MBX_ACK_QUE_CNT_MAX
          MaxData       \* buffers the producers of a link have

Links   == Own \cup Sharing
Threads == Senders \cup Controllers
Tasks   == Own \cup {Multi}
Pris    == {Pri[l] : l \in Sharing}
Slots   == 1 .. AckMax

ASSUME MbxAssumption ==
  /\ Own \cap Sharing = {} /\ Multi \notin Links
  /\ Senders \cap Controllers = {} /\ NoOne \notin Threads
  /\ Sharing # {} /\ Pri \in [Sharing -> Nat]
  /\ IsFiniteSet(Links) /\ IsFiniteSet(Threads)
  /\ PoolMax \in Nat /\ TriggerMax \in Nat /\ AckMax \in Nat /\ MaxData \in Nat

VARIABLES
  free,       \* messages in gUtils_mbxMsgPoolFreeQue
  recvQue,    \* per link: the messages in its mailbox
  ackQue,     \* per slot of gSystem_objCommon.mbx: acknowledgements
  inUse,      \*   ackQueInUse
  trigger,    \* per priority: recvQue of the multi-mailbox task
  semTskPend, \* its semaphore
  pc, to,     \* per thread: where it is in its call, and the link it calls
  slot, ack,  \* per controller: its ack queue (0: none), whether it waits
  tpc, cur,   \* per task: where it is, and the link it serves
  hand,       \*   the message it handles
  pri,        \* the priority the multi-mailbox task looks at
  data,       \* per link: buffers that wait for it
  refused     \* history: a SendCmd about them failed

threadVars == <<pc, to, slot, ack>>
taskVars   == <<tpc, cur, hand, pri>>
vars == <<free, recvQue, ackQue, inUse, trigger, semTskPend, threadVars, taskVars,
          data, refused>>

NewData        == [cmd |-> "NEW_DATA", from |-> NoOne, slot |-> 0]
Control(c, k)  == [cmd |-> "CONTROL", from |-> c, slot |-> k]
Messages       == {NewData} \cup [cmd : {"CONTROL"}, from : Controllers, slot : 0 .. AckMax]
NoMsg          == [cmd |-> "NONE", from |-> NoOne, slot |-> 0]

Goto(t, label) == pc' = [pc EXCEPT ![t] = label]

Init ==
  /\ free = PoolMax
  /\ recvQue = [l \in Links |-> << >>]
  /\ ackQue = [k \in Slots |-> << >>] /\ inUse = [k \in Slots |-> FALSE]
  /\ trigger = [p \in Pris |-> << >>] /\ semTskPend = 0
  /\ pc = [t \in Threads |-> "idle"] /\ to = [t \in Threads |-> NoOne]
  /\ slot = [c \in Controllers |-> 0] /\ ack = [c \in Controllers |-> FALSE]
  /\ tpc = [t \in Tasks |-> "wait"] /\ cur = [t \in Tasks |-> NoOne]
  /\ hand = [t \in Tasks |-> NoMsg] /\ pri = Min(Pris)
  /\ data = [l \in Links |-> 0] /\ refused = [l \in Links |-> FALSE]

-----------------------------------------------------------------------------
(* Utils_mbxSendCmd and Utils_mbxSendMsg.                                   *)

(* Data is put where the link will look for it, then the link is told.  A    *)
(* producer has only so many buffers until the link processes them.         *)
Produce(s, l) ==
  /\ pc[s] = "idle" /\ Goto(s, "alloc")
  /\ to' = [to EXCEPT ![s] = l]
  /\ data[l] < MaxData
  /\ data' = [data EXCEPT ![l] = @ + 1]
  /\ UNCHANGED <<free, recvQue, ackQue, inUse, trigger, semTskPend, slot, ack, taskVars, refused>>

(* A controller needs an ack queue even if it does not wait; when all are    *)
(* in use the call fails.                                                   *)
Ask(c, l, a) ==
  /\ pc[c] = "idle"
  /\ \E k \in Slots : ~inUse[k]
  /\ LET k == Min({j \in Slots : ~inUse[j]}) IN
       /\ slot' = [slot EXCEPT ![c] = k]
       /\ inUse' = [inUse EXCEPT ![k] = TRUE]
  /\ Goto(c, "alloc")
  /\ to' = [to EXCEPT ![c] = l]
  /\ ack' = [ack EXCEPT ![c] = a]
  /\ UNCHANGED <<free, recvQue, ackQue, trigger, semTskPend, taskVars, data, refused>>

(* A sender that finds the pool empty fails; a controller waits.            *)
Alloc(t) ==
  /\ pc[t] = "alloc"
  /\ \/ free > 0 /\ free' = free - 1 /\ Goto(t, "put") /\ UNCHANGED <<to, refused>>
     \/ /\ free = 0 /\ t \in Senders
        /\ Goto(t, "idle") /\ to' = [to EXCEPT ![t] = NoOne]
        /\ refused' = [refused EXCEPT ![to[t]] = data[to[t]] > 0]
        /\ UNCHANGED free
  /\ UNCHANGED <<recvQue, ackQue, inUse, trigger, semTskPend, slot, ack, taskVars, data>>

(* A mailbox holds as many messages as the pool: it is never full.          *)
Put(t) ==
  /\ pc[t] = "put"
  /\ recvQue' = [recvQue EXCEPT ![to[t]] =
       Append(@, IF t \in Senders THEN NewData ELSE Control(t, IF ack[t] THEN slot[t] ELSE 0))]
  /\ IF to[t] \in Sharing
     THEN Goto(t, "trigger") /\ UNCHANGED to
     ELSE IF t \in Senders
          THEN Goto(t, "idle") /\ to' = [to EXCEPT ![t] = NoOne]
          ELSE Goto(t, "sent") /\ UNCHANGED to
  /\ UNCHANGED <<free, ackQue, inUse, trigger, semTskPend, slot, ack, taskVars, data, refused>>

(* Mutant of Trigger: a mailbox already in the queue is not put there again. *)
TriggerOnce(t) ==
  /\ pc[t] = "trigger"
  /\ LET p == Pri[to[t]] IN
       trigger' = IF to[t] \in ToSet(trigger[p]) THEN trigger
                                                 ELSE [trigger EXCEPT ![p] = Append(@, to[t])]
  /\ Goto(t, "post")
  /\ UNCHANGED <<free, recvQue, ackQue, inUse, semTskPend, to, slot, ack, taskVars, data, refused>>

(* Utils_tskMultiMbxTrigger: the mailbox goes into the queue of its          *)
(* priority; when that is full a controller waits, while a sender loses the  *)
(* trigger and fails although its message is in the mailbox ...             *)
Trigger(t) ==
  /\ pc[t] = "trigger"
  /\ LET p == Pri[to[t]] IN
     \/ /\ Len(trigger[p]) < TriggerMax
        /\ trigger' = [trigger EXCEPT ![p] = Append(@, to[t])]
        /\ UNCHANGED refused
     \/ /\ Len(trigger[p]) >= TriggerMax /\ t \in Senders
        /\ refused' = [refused EXCEPT ![to[t]] = data[to[t]] > 0]
        /\ UNCHANGED trigger
  /\ Goto(t, "post")
  /\ UNCHANGED <<free, recvQue, ackQue, inUse, semTskPend, to, slot, ack, taskVars, data>>

(* ... and the task is woken.                                               *)
Post(t) ==
  /\ pc[t] = "post"
  /\ semTskPend' = 1
  /\ IF t \in Senders THEN Goto(t, "idle") /\ to' = [to EXCEPT ![t] = NoOne]
                      ELSE Goto(t, "sent") /\ UNCHANGED to
  /\ UNCHANGED <<free, recvQue, ackQue, inUse, trigger, slot, ack, taskVars, data, refused>>

(* The wait for the acknowledgement: a message that is not the one sent is   *)
(* freed too and the wait goes on.                                          *)
GetAck(c) ==
  /\ c \in Controllers /\ pc[c] = "sent" /\ ack[c]
  /\ ackQue[slot[c]] # << >>
  /\ ackQue' = [ackQue EXCEPT ![slot[c]] = Tail(@)]
  /\ Goto(c, IF Head(ackQue[slot[c]]).from = c THEN "acked" ELSE "sent")
  /\ free' = free + 1
  /\ UNCHANGED <<recvQue, inUse, trigger, semTskPend, to, slot, ack, taskVars, data, refused>>

(* Mutant of Release: the ack queue is released before the ack arrived.     *)
ReleaseEarly(c) ==
  /\ c \in Controllers /\ pc[c] = "sent"
  /\ Goto(c, "idle")
  /\ inUse' = [inUse EXCEPT ![slot[c]] = FALSE]
  /\ slot' = [slot EXCEPT ![c] = 0] /\ ack' = [ack EXCEPT ![c] = FALSE]
  /\ to' = [to EXCEPT ![c] = NoOne]
  /\ UNCHANGED <<free, recvQue, ackQue, trigger, semTskPend, taskVars, data, refused>>

Release(c) ==
  /\ c \in Controllers /\ pc[c] = IF ack[c] THEN "acked" ELSE "sent"
  /\ Goto(c, "idle")
  /\ inUse' = [inUse EXCEPT ![slot[c]] = FALSE]
  /\ slot' = [slot EXCEPT ![c] = 0] /\ ack' = [ack EXCEPT ![c] = FALSE]
  /\ to' = [to EXCEPT ![c] = NoOne]
  /\ UNCHANGED <<free, recvQue, ackQue, trigger, semTskPend, taskVars, data, refused>>

-----------------------------------------------------------------------------
(* The tasks.                                                               *)

(* Task t takes the first message of the mailbox of l.                      *)
Receive(t, l) ==
  /\ hand' = [hand EXCEPT ![t] = Head(recvQue[l])]
  /\ recvQue' = [recvQue EXCEPT ![l] = Tail(@)]
  /\ cur' = [cur EXCEPT ![t] = l]
  /\ tpc' = [tpc EXCEPT ![t] = "handle"]

(* Utils_tskMain.                                                           *)
OwnReceive(l) ==
  /\ l \in Own /\ tpc[l] = "wait" /\ recvQue[l] # << >>
  /\ Receive(l, l)
  /\ UNCHANGED <<free, ackQue, inUse, trigger, semTskPend, threadVars, pri, data, refused>>

(* Utils_tskMultiMbxMain waits for its semaphore ...                        *)
MultiWake ==
  /\ tpc[Multi] = "wait" /\ semTskPend = 1
  /\ semTskPend' = 0
  /\ tpc' = [tpc EXCEPT ![Multi] = "scan"]
  /\ UNCHANGED <<free, recvQue, ackQue, inUse, trigger, threadVars, cur, hand, pri, data, refused>>

(* ... then empties the queue of each priority in turn.  The trigger of a    *)
(* message that was flushed finds an empty mailbox.                         *)
MultiTake ==
  /\ tpc[Multi] = "scan" /\ trigger[pri] # << >>
  /\ trigger' = [trigger EXCEPT ![pri] = Tail(@)]
  /\ LET l == Head(trigger[pri]) IN
       IF recvQue[l] = << >> THEN UNCHANGED <<recvQue, hand, cur, tpc>>
                             ELSE Receive(Multi, l)
  /\ UNCHANGED <<free, ackQue, inUse, semTskPend, threadVars, pri, data, refused>>

(* Mutant of MultiNext: only the first queue is looked at.                  *)
MultiFirstOnly ==
  /\ tpc[Multi] = "scan" /\ trigger[pri] = << >>
  /\ tpc' = [tpc EXCEPT ![Multi] = "wait"] /\ UNCHANGED pri
  /\ UNCHANGED <<free, recvQue, ackQue, inUse, trigger, semTskPend, threadVars, cur, hand,
                 data, refused>>

MultiNext ==
  /\ tpc[Multi] = "scan" /\ trigger[pri] = << >>
  /\ LET lower == {p \in Pris : p > pri} IN
       IF lower = {} THEN tpc' = [tpc EXCEPT ![Multi] = "wait"] /\ pri' = Min(Pris)
                     ELSE pri' = Min(lower) /\ UNCHANGED tpc
  /\ UNCHANGED <<free, recvQue, ackQue, inUse, trigger, semTskPend, threadVars, cur, hand,
                 data, refused>>

(* Mutant of AckOrFree: an acknowledged message is freed as well.           *)
AckAndFree(m) ==
  /\ free' = free + 1
  /\ IF m.slot # 0 THEN ackQue' = [ackQue EXCEPT ![m.slot] = Append(@, m)] ELSE UNCHANGED ackQue

(* Mutant of AckOrFree: the message is freed whether or not an ack is due.  *)
FreeOnly(m) == free' = free + 1 /\ UNCHANGED ackQue

(* Utils_mbxAckOrFreeMsg.                                                   *)
AckOrFree(m) ==
  IF m.slot # 0 THEN ackQue' = [ackQue EXCEPT ![m.slot] = Append(@, m)] /\ UNCHANGED free
                ELSE free' = free + 1 /\ UNCHANGED ackQue

(* A task whose handler returns looks for the next message.                 *)
Ready(t) == IF t = Multi THEN "scan" ELSE "wait"

(* A link's handler: a CONTROL command is carried out, then acknowledged ... *)
Handle(t) ==
  /\ tpc[t] = "handle"
  /\ AckOrFree(hand[t])
  /\ hand' = [hand EXCEPT ![t] = NoMsg]
  /\ IF hand[t].cmd = "NEW_DATA"
     THEN tpc' = [tpc EXCEPT ![t] = "flush"] /\ UNCHANGED cur
     ELSE tpc' = [tpc EXCEPT ![t] = Ready(t)] /\ cur' = [cur EXCEPT ![t] = NoOne]
  /\ UNCHANGED <<recvQue, inUse, trigger, semTskPend, threadVars, pri, data, refused>>

(* Mutant of Flush: a message flushed is taken for handled.                 *)
FlushReturns(t) ==
  /\ tpc[t] = "flush"
  /\ LET q == recvQue[cur[t]] IN
       IF q # << >> /\ Head(q).cmd = "NEW_DATA"
       THEN /\ recvQue' = [recvQue EXCEPT ![cur[t]] = Tail(@)]
            /\ AckOrFree(Head(q))
            /\ tpc' = [tpc EXCEPT ![t] = Ready(t)] /\ cur' = [cur EXCEPT ![t] = NoOne]
       ELSE /\ tpc' = [tpc EXCEPT ![t] = "process"]
            /\ UNCHANGED <<recvQue, free, ackQue, cur>>
  /\ UNCHANGED <<inUse, trigger, semTskPend, threadVars, hand, pri, data, refused>>

(* ... for NEW_DATA the message is freed first, then those like it at the    *)
(* head of the mailbox (Utils_tskFlushMsg) ...                              *)
Flush(t) ==
  /\ tpc[t] = "flush"
  /\ LET q == recvQue[cur[t]] IN
       IF q # << >> /\ Head(q).cmd = "NEW_DATA"
       THEN /\ recvQue' = [recvQue EXCEPT ![cur[t]] = Tail(@)]
            /\ AckOrFree(Head(q))
            /\ UNCHANGED tpc
       ELSE tpc' = [tpc EXCEPT ![t] = "process"] /\ UNCHANGED <<recvQue, free, ackQue>>
  /\ UNCHANGED <<inUse, trigger, semTskPend, threadVars, cur, hand, pri, data, refused>>

(* ... and only then the data is taken.                                     *)
Process(t) ==
  /\ tpc[t] = "process"
  /\ data' = [data EXCEPT ![cur[t]] = 0]
  /\ tpc' = [tpc EXCEPT ![t] = Ready(t)] /\ cur' = [cur EXCEPT ![t] = NoOne]
  /\ refused' = [refused EXCEPT ![cur[t]] = FALSE]
  /\ UNCHANGED <<free, recvQue, ackQue, inUse, trigger, semTskPend, threadVars, hand, pri>>

-----------------------------------------------------------------------------
Sends(t) == Alloc(t) \/ Put(t) \/ Trigger(t) \/ Post(t)
Waits(c) == GetAck(c) \/ Release(c)

Runs(t) ==
  \/ OwnReceive(t) \/ Handle(t) \/ Flush(t) \/ Process(t)
  \/ t = Multi /\ (MultiWake \/ MultiTake \/ MultiNext)

Next ==
  \/ \E s \in Senders, l \in Links : Produce(s, l)
  \/ \E c \in Controllers, l \in Links, a \in BOOLEAN : Ask(c, l, a)
  \/ \E t \in Threads : Sends(t)
  \/ \E c \in Controllers : Waits(c)
  \/ \E t \in Tasks : Runs(t)

Spec == Init /\ [][Next]_vars

(* Calls and tasks run on; a controller that waits for a message or for room *)
(* in a trigger queue gets it in turn.  Nobody has to call.                 *)
FairSpec ==
  /\ Spec
  /\ \A t \in Threads : SF_vars(Sends(t))
  /\ \A c \in Controllers : WF_vars(Waits(c))
  /\ \A t \in Tasks : WF_vars(Runs(t))

-----------------------------------------------------------------------------
TypeOK ==
  /\ free \in 0 .. PoolMax
  /\ recvQue \in [Links -> Seq(Messages)] /\ ackQue \in [Slots -> Seq(Messages)]
  /\ inUse \in [Slots -> BOOLEAN]
  /\ trigger \in [Pris -> Seq(Sharing)] /\ semTskPend \in {0, 1}
  /\ pc \in [Threads -> {"idle", "alloc", "put", "trigger", "post", "sent", "acked"}]
  /\ to \in [Threads -> Links \cup {NoOne}]
  /\ slot \in [Controllers -> 0 .. AckMax] /\ ack \in [Controllers -> BOOLEAN]
  /\ tpc \in [Tasks -> {"wait", "scan", "handle", "flush", "process"}]
  /\ cur \in [Tasks -> Links \cup {NoOne}]
  /\ hand \in [Tasks -> Messages \cup {NoMsg}] /\ pri \in Pris
  /\ data \in [Links -> 0 .. MaxData] /\ refused \in [Links -> BOOLEAN]

Total(f) == FoldFunction(LAMBDA q, n : Len(q) + n, 0, f)

(* Every message of the pool is in one place: free, allocated by a thread,   *)
(* in a mailbox, in a handler or in an ack queue.  None leaks, whichever     *)
(* way a call ends, and none is freed twice.                                *)
MessageConserved ==
  free + Cardinality({t \in Threads : pc[t] = "put"}) + Total(recvQue)
       + Cardinality({t \in Tasks : hand[t] # NoMsg}) + Total(ackQue) = PoolMax

(* The acknowledgement in an ack queue answers the message of the controller *)
(* that holds the queue and is waiting on it: the warning "Received          *)
(* unexpected ack msg" (utils_mbx.c:494) never comes.                       *)
AckExpected ==
  \A k \in Slots : \A i \in DOMAIN ackQue[k] :
     LET c == ackQue[k][i].from IN
       slot[c] = k /\ inUse[k] /\ ack[c] /\ pc[c] \in {"trigger", "post", "sent"}

(* The multi-mailbox task sleeps only when no mailbox waits in any of its    *)
(* queues, or a thread is about to wake it.                                 *)
SleepJustified ==
  tpc[Multi] = "wait" /\ semTskPend = 0 =>
    (\A p \in Pris : trigger[p] = << >>) \/ \E t \in Threads : pc[t] = "post"

(* A message in the mailbox of a link of the multi-mailbox task has a trigger *)
(* of its own, made or about to be made: "This task is trigger whenever a    *)
(* message is sent" (utils_tsk_multi_mbx.c:23).  A message without one stays *)
(* where it is until another is sent to the link.                           *)
TriggersOf(l) == {i \in DOMAIN trigger[Pri[l]] : trigger[Pri[l]][i] = l}
Triggered(l) ==
  l \in Sharing =>
    Len(recvQue[l]) <= Cardinality(TriggersOf(l))
                         + Cardinality({t \in Threads : pc[t] = "trigger" /\ to[t] = l})

(* A flush left triggers of its messages in the queue of the task.           *)
Stale(l) == Cardinality(TriggersOf(l)) > Len(recvQue[l])

(* Only one thing takes a message's trigger: its sender finds the queue of    *)
(* the task full, stale triggers of another link among those in it.  Whatever *)
(* is taken, flushed or sent otherwise, triggers and messages stay in step.  *)
LostTo(s, l, m) ==
  /\ pc[s] = "trigger" /\ to[s] = l /\ pc'[s] = "post"
  /\ Len(trigger[Pri[l]]) >= TriggerMax
  /\ m # l /\ Pri[m] = Pri[l] /\ Stale(m)
LostToStale ==
  [][\A l \in Sharing :
        Triggered(l) /\ ~Triggered(l)' => \E s \in Senders, m \in Sharing : LostTo(s, l, m)]_vars

(* Data a link was told of is processed: a SendCmd that succeeds is enough,  *)
(* although the handler flushes the commands of data it has not seen yet,    *)
(* unless a message of the link has lost its trigger.                       *)
DataProcessedOf(l) == data[l] > 0 ~> (data[l] = 0 \/ refused[l] \/ ~Triggered(l))
DataProcessed == \A l \in Links : DataProcessedOf(l)

(* A controller's call returns, unless a message lost its trigger: what is   *)
(* left behind in any mailbox may be the controller's, or the pool's last.   *)
CallReturns ==
  \A c \in Controllers : pc[c] # "idle" ~> (pc[c] = "idle" \/ \E l \in Sharing : ~Triggered(l))
=============================================================================
