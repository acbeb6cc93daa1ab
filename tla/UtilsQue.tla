------------------------------ MODULE UtilsQue ------------------------------
(***************************************************************************)
(* The queue between the tasks of one CPU, utils_que.c: a circular buffer   *)
(* changed under Hwi_disable, and two binary semaphores, semRd and semWr,   *)
(* on which a task that found the queue empty (full) waits.  The semaphore  *)
(* is posted and waited for outside the critical section, so a task can be  *)
(* preempted between its test and its wait and between its update and its   *)
(* post.  blockedOnGet and blockedOnPut are written and never read: left    *)
(* out, as are the calls that only look (IsEmpty, IsFull, Peek, count).     *)
(* An argument or a slot that nothing reads any more is cleared.            *)
(***************************************************************************)
EXTENDS Integers, FiniteSets, Sequences

CONSTANTS MaxElements,  \* size of the queue
          Elements,     \* values put in it
          Putters,      \* tasks that call Utils_quePut
          Getters,      \* tasks that call Utils_queGet
          Timeout,      \* per task: "NO_WAIT", "TIMED" or "FOREVER"
          MinCount,     \* per getter: its minCount argument
          Blocking,     \* flags: the sides, "get" and "put", whose calls may block
          MaxUnBlocks,  \* bound: calls of Utils_queUnBlock
          NoElem        \* content of a slot nothing was put in

Sides == {"get", "put"}
Tasks == Putters \cup Getters

ASSUME UtilsQueAssumption ==
  /\ MaxElements \in Nat \ {0}
  /\ IsFiniteSet(Putters) /\ IsFiniteSet(Getters) /\ Putters \cap Getters = {}
  /\ NoElem \notin Elements
  /\ Timeout \in [Tasks -> {"NO_WAIT", "TIMED", "FOREVER"}]
  /\ MinCount \in [Getters -> Nat]
  /\ Blocking \subseteq Sides
  /\ MaxUnBlocks \in Nat

VARIABLES que,       \* curRd, curWr, count and the slots of the handle
          sem,       \* semRd ("get") and semWr ("put")
          force,     \* forceUnblockGet and forceUnblockPut
          pc,        \* where each task is in its call
          arg,       \* the element a putter puts
          result,    \* what each task's last call returned
          unblocks   \* calls of Utils_queUnBlock so far

vars == <<que, sem, force, pc, arg, result, unblocks>>

Pending == [status |-> "pending"]
Refused == [status |-> "EFAIL"]
Done    == [status |-> "SOK"]
Got(e)  == [status |-> "SOK", elem |-> e]

Side(t)  == IF t \in Getters THEN "get" ELSE "put"
Other(s) == IF s = "get" THEN "put" ELSE "get"

(* minCount as Utils_queGet corrects it.                                    *)
Least == [g \in Getters |-> CASE MinCount[g] = 0           -> 1
                              [] MinCount[g] > MaxElements -> MaxElements
                              [] OTHER                     -> MinCount[g]]

(* The test in the critical section.                                        *)
Ready(t) == IF t \in Getters THEN que.count >= Least[t] ELSE que.count < MaxElements

Goto(t, label) == pc' = [pc EXCEPT ![t] = label]
Return(t, res) == result' = [result EXCEPT ![t] = res]

Blocked(s) == {t \in Tasks : Side(t) = s /\ pc[t] = "blocked"}

(* BspOsal_semPost on the semaphores of the sides S wakes the tasks W: one   *)
(* of those that wait on each, if there is one; else the semaphore, which   *)
(* is binary, stays posted.                                                 *)
Posted(S, W) ==
  /\ W \subseteq UNION {Blocked(s) : s \in S}
  /\ \A s \in S : IF Blocked(s) = {} THEN TRUE ELSE \E t \in Blocked(s) : W \cap Blocked(s) = {t}
  /\ sem' = [s \in Sides |-> IF s \in S /\ Blocked(s) = {} THEN 1 ELSE sem[s]]

-----------------------------------------------------------------------------
Init ==
  /\ que = [curRd |-> 0, curWr |-> 0, count |-> 0,
            slot |-> [i \in 0 .. MaxElements - 1 |-> NoElem]]
  /\ sem = [s \in Sides |-> 0]
  /\ force = [s \in Sides |-> FALSE]
  /\ pc = [t \in Tasks |-> "idle"]
  /\ arg = [t \in Putters |-> NoElem]
  /\ result = [t \in Tasks |-> Done]
  /\ unblocks = 0

Call(t) ==
  /\ pc[t] = "idle"
  /\ \E e \in Elements : arg' = IF t \in Putters THEN [arg EXCEPT ![t] = e] ELSE arg
  /\ Goto(t, "try")
  /\ Return(t, Pending)
  /\ UNCHANGED <<que, sem, force, unblocks>>

(* After a success the task posts the other side's semaphore, if it exists.  *)
AfterTry(t) == IF Other(Side(t)) \in Blocking THEN "post" ELSE "idle"

(* The critical section of Utils_quePut when there is room ...              *)
PutTry(t) ==
  /\ t \in Putters /\ pc[t] = "try" /\ Ready(t)
  /\ que' = [que EXCEPT !.slot[que.curWr] = arg[t], !.count = @ + 1,
                        !.curWr = (@ + 1) % MaxElements]
  /\ arg' = [arg EXCEPT ![t] = NoElem]
  /\ Return(t, Done)
  /\ Goto(t, AfterTry(t))
  /\ UNCHANGED <<sem, force, unblocks>>

(* ... and of Utils_queGet when there are enough elements.                  *)
GetTry(t) ==
  /\ t \in Getters /\ pc[t] = "try" /\ Ready(t)
  /\ que' = [que EXCEPT !.count = @ - 1, !.curRd = (@ + 1) % MaxElements,
                        !.slot[que.curRd] = NoElem]
  /\ Return(t, Got(que.slot[que.curRd]))
  /\ Goto(t, AfterTry(t))
  /\ UNCHANGED <<sem, force, arg, unblocks>>

(* Otherwise a call that may not wait fails and another goes on to wait.    *)
TryFails(t) ==
  /\ pc[t] = "try" /\ ~Ready(t)
  /\ IF Timeout[t] = "NO_WAIT" \/ Side(t) \notin Blocking
     THEN Return(t, Refused) /\ Goto(t, "idle")
     ELSE Goto(t, "wait") /\ UNCHANGED result
  /\ UNCHANGED <<que, sem, force, arg, unblocks>>

Post(t) ==
  /\ pc[t] = "post"
  /\ \E W \in SUBSET Tasks :
       /\ Posted({Other(Side(t))}, W)
       /\ pc' = [u \in Tasks |-> CASE u = t -> "idle" [] u \in W -> "woken" [] OTHER -> pc[u]]
  /\ UNCHANGED <<que, force, arg, result, unblocks>>

(* Mutant of Wait: a post made before the wait is forgotten.                *)
WaitForgetful(t) ==
  /\ pc[t] = "wait"
  /\ Goto(t, "blocked")
  /\ sem' = [sem EXCEPT ![Side(t)] = 0]
  /\ UNCHANGED <<que, force, arg, result, unblocks>>

(* BspOsal_semWait takes a posted semaphore at once ...                     *)
Wait(t) ==
  /\ pc[t] = "wait"
  /\ Goto(t, IF sem[Side(t)] = 1 THEN "woken" ELSE "blocked")
  /\ sem' = [sem EXCEPT ![Side(t)] = 0]
  /\ UNCHANGED <<que, force, arg, result, unblocks>>

(* ... or waits until it is posted or the time is up.                       *)
Expire(t) ==
  /\ pc[t] = "blocked" /\ Timeout[t] = "TIMED"
  /\ Goto(t, "leave")
  /\ UNCHANGED <<que, sem, force, arg, result, unblocks>>

(* A woken task leaves if it finds that the queue was unblocked, else it    *)
(* looks again.  The flag is read without a lock ...                        *)
Interrupted(t) ==
  /\ pc[t] = "woken" /\ force[Side(t)]
  /\ Goto(t, "leave")
  /\ UNCHANGED <<que, sem, force, arg, result, unblocks>>

Retry(t) ==
  /\ pc[t] = "woken" /\ ~force[Side(t)]
  /\ Goto(t, "try")
  /\ UNCHANGED <<que, sem, force, arg, result, unblocks>>

(* Mutant of WaitFails: the flag is left as it is.                          *)
WaitFailsUncleared(t) ==
  /\ pc[t] = "leave"
  /\ Return(t, Refused)
  /\ Goto(t, "idle")
  /\ UNCHANGED <<que, sem, force, arg, unblocks>>

(* ... and cleared later, whoever has read it or set it again since.        *)
WaitFails(t) ==
  /\ pc[t] = "leave"
  /\ force' = [force EXCEPT ![Side(t)] = FALSE]
  /\ Return(t, Refused)
  /\ Goto(t, "idle")
  /\ UNCHANGED <<que, sem, arg, unblocks>>

(* Utils_queUnBlock, under Task_disable.                                    *)
UnBlock ==
  /\ unblocks < MaxUnBlocks /\ unblocks' = unblocks + 1
  /\ force' = [s \in Sides |-> s \in Blocking \/ force[s]]
  /\ \E W \in SUBSET Tasks :
       /\ Posted(Blocking, W)
       /\ pc' = [t \in Tasks |-> IF t \in W THEN "woken" ELSE pc[t]]
  /\ UNCHANGED <<que, arg, result>>

(* Utils_queReset, which leaves the semaphores as they are.  Its user (a      *)
(* decoder channel being opened) calls it when no task is in a call.        *)
Reset ==
  /\ \A t \in Tasks : pc[t] = "idle"
  /\ que' = [curRd |-> 0, curWr |-> 0, count |-> 0,
             slot |-> [i \in 0 .. MaxElements - 1 |-> NoElem]]
  /\ force' = [s \in Sides |-> FALSE]
  /\ UNCHANGED <<sem, pc, arg, result, unblocks>>

(* The steps of a call once it was made.                                    *)
Runs(t) ==
  \/ PutTry(t) \/ GetTry(t) \/ TryFails(t) \/ Post(t)
  \/ Wait(t) \/ Expire(t) \/ Interrupted(t) \/ Retry(t) \/ WaitFails(t)

Next == (\E t \in Tasks : Call(t) \/ Runs(t)) \/ UnBlock \/ Reset

(* Every task that can run gets to: the scheduler runs the tasks of lower   *)
(* priority when the others wait.  No task has to call.                     *)
Spec == Init /\ [][Next]_vars
FairSpec == Spec /\ \A t \in Tasks : WF_vars(Runs(t))

-----------------------------------------------------------------------------
TypeOK ==
  /\ que \in [curRd : 0 .. MaxElements - 1, curWr : 0 .. MaxElements - 1,
              count : 0 .. MaxElements,
              slot : [0 .. MaxElements - 1 -> Elements \cup {NoElem}]]
  /\ sem \in [Sides -> {0, 1}]
  /\ force \in [Sides -> BOOLEAN]
  /\ pc \in [Tasks -> {"idle", "try", "post", "wait", "blocked", "woken", "leave"}]
  /\ arg \in [Putters -> Elements \cup {NoElem}]
  /\ result \in [Tasks -> {Pending, Refused, Done} \cup {Got(e) : e \in Elements \cup {NoElem}}]
  /\ unblocks \in 0 .. MaxUnBlocks

Contents == [i \in 1 .. que.count |-> que.slot[(que.curRd + i - 1) % MaxElements]]

Patience == [t \in Tasks |-> IF Side(t) \in Blocking THEN Timeout[t] ELSE "NO_WAIT"]

Alone(t) == \A u \in Tasks \ {t} : Side(u) # Side(t) \/ Patience[u] = "NO_WAIT"

(* Whatever the tasks' interleaving, the calls act as on a bounded queue:   *)
(* elements come out in order, each once; a call that does not wait fails    *)
(* only for want of room or of elements; one that waits for ever fails only *)
(* on an UnBlock that no call of its side had failed on when it looked.     *)
Queue == INSTANCE BoundedQueue WITH q <- Contents, kick <- force, Capacity <- MaxElements,
                                    Senders <- Putters, Receivers <- Getters,
                                    leaving <- {t \in Tasks : pc[t] = "leave"}
IsBoundedQueue == Queue!Spec

(* A task sleeps only for a reason: when it is blocked in semWait, either    *)
(* it could not proceed, or the task that changed that is about to post.     *)
(* The semaphore being binary, this needs a side where no other task waits.  *)
SleepJustified ==
  \A t \in Tasks : (pc[t] = "blocked" /\ Alone(t)) =>
     ~Ready(t) \/ \E u \in Tasks : Side(u) = Other(Side(t)) /\ pc[u] = "post"

(* utils_que.c:310-312 and 166-168: with BSP_OSAL_WAIT_FOREVER "if queue is  *)
(* empty function blocks until atleast one element in the queue is           *)
(* available" (full, free for put): no call waits on while it could proceed. *)
(* It is so on a side where no other task waits.                            *)
Served == \A t \in Tasks :
  Patience[t] = "FOREVER" /\ Alone(t) => []<>(result[t] # Pending \/ ~Ready(t))

=============================================================================
