--------------------------------- MODULE MsgQ ---------------------------------
(***************************************************************************)
(* Commands to links on other CPUs: system_ipc_msgq.c on the notify events   *)
(* of system_ipc_notify.c, called by system_linkApi.c.                       *)
(*                                                                         *)
(* A CPU has one message in shared memory, taken by msgQLock for a whole     *)
(* command.  The sender fills it, raises an event on the link's CPU and      *)
(* waits for msgQAck; there the interrupt queues the sender's CPU for the     *)
(* MsgQ task, which answers GET_INFO itself, passes any other command        *)
(* through the link's mailbox (module Mbx: a queue with acknowledgements     *)
(* here), and raises an event back.  A link's CREATE handler itself asks the *)
(* previous link for its channels, on whatever CPU that is.                  *)
(***************************************************************************)
EXTENDS Integers, Sequences, FiniteSets

CONSTANTS CPUs, Controllers, Links,
          Cpu,     \* the CPU of a controller or a link
          Prev,    \* the previous link of a link, or NoOne
          Chain,   \* the links a controller commands
          NoOne,
          QueMax   \* SYSTEM_IPC_MSGQ_MAX_ELEMENTS

Clients == Controllers \cup Links

ASSUME MsgQAssumption ==
  /\ CPUs \cap Clients = {} /\ Controllers \cap Links = {} /\ NoOne \notin CPUs \cup Clients
  /\ Cpu \in [Clients -> CPUs] /\ Prev \in [Links -> Links \cup {NoOne}]
  /\ Chain \in [Controllers -> SUBSET Links] /\ QueMax \in Nat

VARIABLES
  msgQLock, msgQAck,  \* per CPU: holder of the lock (NoOne: free); the ack semaphore
  procMsg,            \*   its message: link, command and, as history, who filled it
  msgQLocalQ,         \*   CPUs whose messages wait for its MsgQ task
  tpc, procId,        \*   where that task is, and the CPU it serves
  event,              \* per pair of CPUs: the event raised and not yet taken
  mbx,                \* per link: commands in its mailbox
  lpc, hand,          \*   where its task is, the command it carries out
  pc, to, cmd,        \* per client: where it is in its call, and with what
  ran                 \* history: the links that ran the command of a client

cpuVars    == <<msgQLock, msgQAck, procMsg>>
taskVars   == <<msgQLocalQ, tpc, procId>>
linkVars   == <<mbx, lpc, hand>>
clientVars == <<pc, to, cmd>>
vars == <<cpuVars, taskVars, event, linkVars, clientVars, ran>>

Commands == {"CREATE", "START"}       \* START for every command that asks nobody
NoMsg    == [link |-> NoOne, cmd |-> "NONE", by |-> NoOne]
NoCmd    == [from |-> NoOne, cmd |-> "NONE"]

(* The clients that call: a link does if it has a previous link elsewhere.   *)
Callers == Controllers \cup {l \in Links : Prev[l] # NoOne /\ Cpu[Prev[l]] # Cpu[l]}

Goto(t, label) == pc' = [pc EXCEPT ![t] = label]
Remote(t, l)   == Cpu[l] # Cpu[t]

Init ==
  /\ msgQLock = [c \in CPUs |-> NoOne] /\ msgQAck = [c \in CPUs |-> 0]
  /\ procMsg = [c \in CPUs |-> NoMsg] /\ msgQLocalQ = [c \in CPUs |-> << >>]
  /\ tpc = [c \in CPUs |-> "get"] /\ procId = [c \in CPUs |-> NoOne]
  /\ event = [p \in CPUs \X CPUs |-> "none"]
  /\ mbx = [l \in Links |-> << >>] /\ lpc = [l \in Links |-> "wait"]
  /\ hand = [l \in Links |-> NoCmd]
  /\ pc = [t \in Clients |-> "idle"] /\ cmd = [t \in Clients |-> "NONE"]
  /\ to = [t \in Clients |-> NoOne]
  /\ ran = [t \in Clients |-> << >>]

-----------------------------------------------------------------------------
(* The caller.                                                              *)

(* System_linkControl: through the mailbox if the link is on this CPU,       *)
(* by System_ipcMsgQSendMsg otherwise.                                       *)
Control(t, l, k) ==
  /\ pc[t] = "idle" /\ l \in Chain[t]
  /\ to' = [to EXCEPT ![t] = l] /\ cmd' = [cmd EXCEPT ![t] = k]
  /\ IF Remote(t, l)
     THEN Goto(t, "lock") /\ UNCHANGED mbx
     ELSE Goto(t, "mbx") /\ mbx' = [mbx EXCEPT ![l] = Append(@, [from |-> t, cmd |-> k])]
  /\ UNCHANGED <<cpuVars, taskVars, event, lpc, hand, ran>>

(* System_linkGetInfo, called by the CREATE handler of l: a link of this CPU *)
(* is asked directly.                                                       *)
GetInfo(l) ==
  /\ lpc[l] = "info" /\ pc[l] = "idle"
  /\ IF Prev[l] # NoOne /\ Remote(l, Prev[l])
     THEN /\ Goto(l, "lock") /\ UNCHANGED lpc
          /\ to' = [to EXCEPT ![l] = Prev[l]] /\ cmd' = [cmd EXCEPT ![l] = "GET_INFO"]
     ELSE lpc' = [lpc EXCEPT ![l] = "ack"] /\ UNCHANGED clientVars
  /\ UNCHANGED <<cpuVars, taskVars, event, mbx, hand, ran>>

Message(t) == [link |-> to[t], cmd |-> cmd[t], by |-> t]

(* Mutant of Lock: the message is filled without waiting for the lock.      *)
LockAlways(t) ==
  /\ pc[t] = "lock"
  /\ msgQLock' = [msgQLock EXCEPT ![Cpu[t]] = t]
  /\ procMsg' = [procMsg EXCEPT ![Cpu[t]] = Message(t)]
  /\ Goto(t, "clear")
  /\ UNCHANGED <<msgQAck, taskVars, event, linkVars, to, cmd, ran>>

(* The message of this CPU is filled under the lock.                        *)
Lock(t) ==
  /\ pc[t] = "lock" /\ msgQLock[Cpu[t]] = NoOne
  /\ msgQLock' = [msgQLock EXCEPT ![Cpu[t]] = t]
  /\ procMsg' = [procMsg EXCEPT ![Cpu[t]] = Message(t)]
  /\ Goto(t, "clear")
  /\ UNCHANGED <<msgQAck, taskVars, event, linkVars, to, cmd, ran>>

(* A pending acknowledgement is cleared ...                                 *)
ClearAck(t) ==
  /\ pc[t] = "clear"
  /\ msgQAck' = [msgQAck EXCEPT ![Cpu[t]] = 0]
  /\ Goto(t, "notify")
  /\ UNCHANGED <<msgQLock, procMsg, taskVars, event, linkVars, to, cmd, ran>>

(* Notify_sendEvent waits until the previous event was taken (waitClear).    *)
Raise(c, d, type) ==
  /\ event[<<c, d>>] = "none"
  /\ event' = [event EXCEPT ![<<c, d>>] = type]

(* ... the link's CPU is notified ...                                       *)
Notify(t) ==
  /\ pc[t] = "notify"
  /\ Raise(Cpu[t], Cpu[to[t]], "MSG")
  /\ Goto(t, "await")
  /\ UNCHANGED <<cpuVars, taskVars, linkVars, to, cmd, ran>>

Returns(t) ==
  /\ Goto(t, "idle")
  /\ to' = [to EXCEPT ![t] = NoOne] /\ cmd' = [cmd EXCEPT ![t] = "NONE"]
  /\ ran' = [ran EXCEPT ![t] = << >>]

(* Mutant of Await: the wait for the acknowledgement times out.             *)
AwaitTimeout(t) ==
  /\ pc[t] = "await"
  /\ msgQAck' = [msgQAck EXCEPT ![Cpu[t]] = 0]
  /\ msgQLock' = [msgQLock EXCEPT ![Cpu[t]] = NoOne]
  /\ Returns(t)
  /\ lpc' = IF t \in Links THEN [lpc EXCEPT ![t] = "ack"] ELSE lpc
  /\ UNCHANGED <<procMsg, taskVars, event, mbx, hand>>

(* ... and its acknowledgement waited for; the status and the parameters are *)
(* copied from the message and the lock is given up.                        *)
Await(t) ==
  /\ pc[t] = "await" /\ msgQAck[Cpu[t]] = 1
  /\ msgQAck' = [msgQAck EXCEPT ![Cpu[t]] = 0]
  /\ msgQLock' = [msgQLock EXCEPT ![Cpu[t]] = NoOne]
  /\ Returns(t)
  /\ lpc' = IF t \in Links THEN [lpc EXCEPT ![t] = "ack"] ELSE lpc
  /\ UNCHANGED <<procMsg, taskVars, event, mbx, hand>>

(* The mailbox acknowledged a command to a link of this CPU.                *)
MbxReturn(t) ==
  /\ pc[t] = "acked"
  /\ Returns(t)
  /\ UNCHANGED <<cpuVars, taskVars, event, linkVars>>

-----------------------------------------------------------------------------
(* The receiver.                                                            *)

(* Mutant of NotifyHandler: a queue that holds an entry takes no other.      *)
NotifyHandlerOneEntry(c, d) ==
  /\ event[<<c, d>>] # "none"
  /\ event' = [event EXCEPT ![<<c, d>>] = "none"]
  /\ IF event[<<c, d>>] = "ACK"
     THEN msgQAck' = [msgQAck EXCEPT ![d] = 1] /\ UNCHANGED msgQLocalQ
     ELSE /\ msgQLocalQ' = [msgQLocalQ EXCEPT ![d] = IF @ = << >> THEN <<c>> ELSE @]
          /\ UNCHANGED msgQAck
  /\ UNCHANGED <<msgQLock, procMsg, tpc, procId, linkVars, clientVars, ran>>

(* System_ipcNotifyHandler, in the interrupt of CPU d for an event of c.     *)
(* A message that finds the queue full is dropped.                          *)
NotifyHandler(c, d) ==
  /\ event[<<c, d>>] # "none"
  /\ event' = [event EXCEPT ![<<c, d>>] = "none"]
  /\ IF event[<<c, d>>] = "ACK"
     THEN msgQAck' = [msgQAck EXCEPT ![d] = 1] /\ UNCHANGED msgQLocalQ
     ELSE /\ msgQLocalQ' = [msgQLocalQ EXCEPT ![d] =
                              IF Len(@) < QueMax THEN Append(@, c) ELSE @]
          /\ UNCHANGED msgQAck
  /\ UNCHANGED <<msgQLock, procMsg, tpc, procId, linkVars, clientVars, ran>>

(* System_ipcMsgQTaskMain.                                                  *)
Get(d) ==
  /\ tpc[d] = "get" /\ msgQLocalQ[d] # << >>
  /\ procId' = [procId EXCEPT ![d] = Head(msgQLocalQ[d])]
  /\ msgQLocalQ' = [msgQLocalQ EXCEPT ![d] = Tail(@)]
  /\ tpc' = [tpc EXCEPT ![d] = "run"]
  /\ UNCHANGED <<cpuVars, event, linkVars, clientVars, ran>>

RanBy(m) == ran' = [ran EXCEPT ![m.by] = Append(@, m.link)]

(* Mutant of TaskRun: every command goes through the link's mailbox.        *)
TaskRunMbx(d) ==
  /\ tpc[d] = "run"
  /\ LET m == procMsg[procId[d]] IN
       mbx' = [mbx EXCEPT ![m.link] = Append(@, [from |-> d, cmd |-> m.cmd])]
  /\ tpc' = [tpc EXCEPT ![d] = "mbx"]
  /\ UNCHANGED <<cpuVars, msgQLocalQ, procId, event, lpc, hand, clientVars, ran>>

(* GET_INFO is answered by this task, another command by the link's.        *)
TaskRun(d) ==
  /\ tpc[d] = "run"
  /\ LET m == procMsg[procId[d]] IN
       IF m.cmd = "GET_INFO"
       THEN RanBy(m) /\ tpc' = [tpc EXCEPT ![d] = "ack"] /\ UNCHANGED mbx
       ELSE /\ mbx' = [mbx EXCEPT ![m.link] = Append(@, [from |-> d, cmd |-> m.cmd])]
            /\ tpc' = [tpc EXCEPT ![d] = "mbx"] /\ UNCHANGED ran
  /\ UNCHANGED <<cpuVars, msgQLocalQ, procId, event, lpc, hand, clientVars>>

TaskAck(d) ==
  /\ tpc[d] = "ack"
  /\ Raise(d, procId[d], "ACK")
  /\ procId' = [procId EXCEPT ![d] = NoOne] /\ tpc' = [tpc EXCEPT ![d] = "get"]
  /\ UNCHANGED <<cpuVars, msgQLocalQ, linkVars, clientVars, ran>>

(* A link's task takes a command ...                                        *)
LinkReceive(l) ==
  /\ lpc[l] = "wait" /\ mbx[l] # << >>
  /\ hand' = [hand EXCEPT ![l] = Head(mbx[l])]
  /\ mbx' = [mbx EXCEPT ![l] = Tail(@)]
  /\ lpc' = [lpc EXCEPT ![l] = IF Head(mbx[l]).cmd = "CREATE" THEN "info" ELSE "ack"]
  /\ UNCHANGED <<cpuVars, taskVars, event, clientVars, ran>>

(* Mutant of LinkAck: the acknowledgement of a remote caller is forgotten.   *)
LinkAckLocal(l) ==
  /\ lpc[l] = "ack"
  /\ LET r == hand[l].from IN
       IF r \in CPUs
       THEN RanBy(procMsg[procId[r]]) /\ UNCHANGED <<pc, tpc>>
       ELSE /\ ran' = [ran EXCEPT ![r] = Append(@, l)] /\ Goto(r, "acked")
            /\ UNCHANGED tpc
  /\ hand' = [hand EXCEPT ![l] = NoCmd] /\ lpc' = [lpc EXCEPT ![l] = "wait"]
  /\ UNCHANGED <<cpuVars, msgQLocalQ, procId, event, mbx, to, cmd>>

(* ... and acknowledges it when its handler is done.                        *)
LinkAck(l) ==
  /\ lpc[l] = "ack"
  /\ LET r == hand[l].from IN
       IF r \in CPUs
       THEN /\ RanBy(procMsg[procId[r]]) /\ tpc' = [tpc EXCEPT ![r] = "ack"]
            /\ UNCHANGED pc
       ELSE /\ ran' = [ran EXCEPT ![r] = Append(@, l)] /\ Goto(r, "acked")
            /\ UNCHANGED tpc
  /\ hand' = [hand EXCEPT ![l] = NoCmd] /\ lpc' = [lpc EXCEPT ![l] = "wait"]
  /\ UNCHANGED <<cpuVars, msgQLocalQ, procId, event, mbx, to, cmd>>

-----------------------------------------------------------------------------
Sends(t) == ClearAck(t) \/ Await(t) \/ MbxReturn(t)
TaskStep(d) == Get(d) \/ TaskRun(d) \/ TaskAck(d)
LinkStep(l) == LinkReceive(l) \/ GetInfo(l) \/ LinkAck(l)

Next ==
  \/ \E t \in Controllers, l \in Links, k \in Commands : Control(t, l, k)
  \/ \E t \in Clients : Lock(t) \/ Notify(t) \/ Sends(t)
  \/ \E c, d \in CPUs : NotifyHandler(c, d)
  \/ \E d \in CPUs : TaskStep(d)
  \/ \E l \in Links : LinkStep(l)

Spec == Init /\ [][Next]_vars

(* Tasks and interrupts run.  The lock is a semaphore that serves its        *)
(* waiters in turn, and a task that spins for an event to be taken is not     *)
(* overtaken for ever by the other task of its CPU that raises it.  Nobody   *)
(* has to issue a command.                                                  *)
FairSpec ==
  /\ Spec
  /\ \A t \in Callers : SF_vars(Lock(t) \/ Notify(t)) /\ WF_vars(Sends(t))
  /\ \A c, d \in CPUs : c # d => WF_vars(NotifyHandler(c, d))
  /\ \A d \in CPUs : SF_vars(TaskStep(d))
  /\ \A l \in Links : WF_vars(LinkStep(l))

-----------------------------------------------------------------------------
TypeOK ==
  LET entries == [from : Controllers \cup CPUs, cmd : Commands] IN
  /\ msgQLock \in [CPUs -> Clients \cup {NoOne}] /\ msgQAck \in [CPUs -> {0, 1}]
  /\ procMsg \in [CPUs -> {NoMsg} \cup
                   [link : Links, cmd : Commands \cup {"GET_INFO"}, by : Clients]]
  /\ msgQLocalQ \in [CPUs -> Seq(CPUs)]
  /\ tpc \in [CPUs -> {"get", "run", "mbx", "ack"}] /\ procId \in [CPUs -> CPUs \cup {NoOne}]
  /\ event \in [CPUs \X CPUs -> {"none", "MSG", "ACK"}]
  /\ mbx \in [Links -> Seq(entries)] /\ hand \in [Links -> entries \cup {NoCmd}]
  /\ lpc \in [Links -> {"wait", "info", "ack"}]
  /\ pc \in [Clients -> {"idle", "mbx", "acked", "lock", "clear", "notify", "await"}]
  /\ to \in [Clients -> Links \cup {NoOne}]
  /\ cmd \in [Clients -> Commands \cup {"GET_INFO", "NONE"}]
  /\ ran \in [Clients -> Seq(Links)]

(* Where the command of CPU c is: on its way, waiting, being served by CPU d *)
(* in its turn, or acknowledged.                                            *)
Places(c) ==
  Cardinality({d \in CPUs : event[<<c, d>>] = "MSG"})
  + Cardinality({p \in CPUs \X (1 .. QueMax) :
                   p[2] \in DOMAIN msgQLocalQ[p[1]] /\ msgQLocalQ[p[1]][p[2]] = c})
  + Cardinality({d \in CPUs : procId[d] = c})
  + Cardinality({d \in CPUs : event[<<d, c>>] = "ACK"})
  + msgQAck[c]

(* A CPU whose thread waits for an acknowledgement has exactly one command   *)
(* in the system, any other CPU none: the local queue, whose writer ignores  *)
(* that it is full, drops nothing, and the acknowledgement that ends the      *)
(* wait is never a late one of an earlier command.                          *)
OneCommandPerCpu ==
  \A c \in CPUs :
    Places(c) = IF \E t \in Clients : Cpu[t] = c /\ pc[t] = "await" THEN 1 ELSE 0

(* The status and the parameters a caller copies back are those of the       *)
(* message it sent: nobody on its CPU filled it again meanwhile.             *)
AnswerOwn == [][\A t \in Clients : Await(t) => procMsg[Cpu[t]] = Message(t)]_vars

(* To callers, all this is a call that runs once on the link it names.       *)
Called(t) ==
  CASE pc[t] = "idle" /\ ran[t] = << >>       -> "idle"
    [] pc[t] # "idle" /\ ran[t] = << >>       -> "called"
    [] pc[t] # "idle" /\ ran[t] = <<to[t]>>   -> "run"
    [] OTHER                                  -> "astray"

R == INSTANCE Rpc WITH call <- [t \in Clients |-> Called(t)], target <- to
IsRpc == R!Spec

(* A command returns: the locks and tasks that a command holds on its way,   *)
(* and those that the nested command of a CREATE handler needs, never wait   *)
(* for one another, as long as no CPU commands the links of one that         *)
(* commands others.                                                         *)
CommandReturns == \A t \in Callers : pc[t] # "idle" ~> pc[t] = "idle"
=============================================================================
