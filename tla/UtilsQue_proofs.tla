--------------------------- MODULE UtilsQue_proofs ---------------------------
(***************************************************************************)
(* Proofs about the queue of a CPU, for every size, any number of putters    *)
(* and getters, any timeouts and minCounts, whichever sides may block, and   *)
(* any number of unblocks.                                                  *)
(***************************************************************************)
EXTENDS UtilsQue, SequenceTheorems, TLAPS

(* minCount as corrected is between 1 and the size of the queue.             *)
LEMMA LeastIn == Least \in [Getters -> 1 .. MaxElements]
  <1>1. ASSUME NEW g \in Getters PROVE Least[g] \in 1 .. MaxElements
    BY UtilsQueAssumption DEF Least
  <1>2. Least = [g \in Getters |-> Least[g]]
    BY DEF Least
  <1> QED
    BY <1>1, <1>2

LEMMA SideOf ==
  ASSUME NEW t \in Tasks
  PROVE  Side(t) \in Sides /\ Other(Side(t)) \in Sides /\ Other(Side(t)) # Side(t)
  BY DEF Side, Other, Sides

(* An index that runs past the end wraps once.                              *)
LEMMA ModOnce ==
  ASSUME NEW n \in Nat \ {0}, NEW x \in 0 .. 2*n - 1
  PROVE  x % n = IF x < n THEN x ELSE x - n
  OBVIOUS

-----------------------------------------------------------------------------
(* The type invariant.                                                      *)

Slots  == Elements \cup {NoElem}
Queues == [curRd : 0 .. MaxElements - 1, curWr : 0 .. MaxElements - 1,
           count : 0 .. MaxElements, slot : [0 .. MaxElements - 1 -> Slots]]
Results == {Pending, Refused, Done} \cup {Got(e) : e \in Slots}
Labels == {"idle", "try", "post", "wait", "blocked", "woken", "leave"}

LEMMA InitType == Init => TypeOK
  BY UtilsQueAssumption DEF Init, TypeOK, Sides

(* The three states of the queue that a step may lead to.                   *)
LEMMA QueueClosed ==
  ASSUME que \in Queues
  PROVE  /\ \A x \in Slots : que.count < MaxElements =>
              [que EXCEPT !.slot[que.curWr] = x, !.count = @ + 1,
                          !.curWr = (@ + 1) % MaxElements] \in Queues
         /\ que.count >= 1 =>
              [que EXCEPT !.count = @ - 1, !.curRd = (@ + 1) % MaxElements,
                          !.slot[que.curRd] = NoElem] \in Queues
         /\ [curRd |-> 0, curWr |-> 0, count |-> 0,
             slot |-> [i \in 0 .. MaxElements - 1 |-> NoElem]] \in Queues
         /\ que.slot[que.curRd] \in Slots
  <1>1. /\ que.curRd \in 0 .. MaxElements - 1 /\ que.curWr \in 0 .. MaxElements - 1
        /\ que.count \in 0 .. MaxElements /\ que.slot \in [0 .. MaxElements - 1 -> Slots]
    BY DEF Queues
  <1>2. (que.curRd + 1) % MaxElements \in 0 .. MaxElements - 1
    BY <1>1, UtilsQueAssumption
  <1>3. (que.curWr + 1) % MaxElements \in 0 .. MaxElements - 1
    BY <1>1, UtilsQueAssumption
  <1>4. NoElem \in Slots
    BY DEF Slots
  <1>5. ASSUME NEW x \in Slots, que.count < MaxElements
        PROVE  [que EXCEPT !.slot[que.curWr] = x, !.count = @ + 1,
                           !.curWr = (@ + 1) % MaxElements] \in Queues
    <2>1. [que.slot EXCEPT ![que.curWr] = x] \in [0 .. MaxElements - 1 -> Slots]
      BY <1>1
    <2>2. que.count + 1 \in 0 .. MaxElements
      BY <1>1, <1>5, UtilsQueAssumption
    <2> QED
      BY <2>1, <2>2, <1>3 DEF Queues
  <1>6. ASSUME que.count >= 1
        PROVE  [que EXCEPT !.count = @ - 1, !.curRd = (@ + 1) % MaxElements,
                           !.slot[que.curRd] = NoElem] \in Queues
    <2>1. [que.slot EXCEPT ![que.curRd] = NoElem] \in [0 .. MaxElements - 1 -> Slots]
      BY <1>1, <1>4
    <2>2. que.count - 1 \in 0 .. MaxElements
      BY <1>1, <1>6, UtilsQueAssumption
    <2> QED
      BY <2>1, <2>2, <1>2 DEF Queues
  <1>7. /\ 0 \in 0 .. MaxElements - 1 /\ 0 \in 0 .. MaxElements
        /\ [i \in 0 .. MaxElements - 1 |-> NoElem] \in [0 .. MaxElements - 1 -> Slots]
    BY <1>4, UtilsQueAssumption
  <1>8. [curRd |-> 0, curWr |-> 0, count |-> 0,
         slot |-> [i \in 0 .. MaxElements - 1 |-> NoElem]] \in Queues
    BY <1>7 DEF Queues
  <1> QED
    BY <1>1, <1>5, <1>6, <1>8

(* Steps that only move tasks and post semaphores.                          *)
LEMMA PostedType ==
  ASSUME sem \in [Sides -> {0, 1}], NEW S, NEW W, Posted(S, W)
  PROVE  sem' \in [Sides -> {0, 1}]
  BY DEF Posted

LEMMA NextType == TypeOK /\ [Next]_vars => TypeOK'
  <1> SUFFICES ASSUME TypeOK, [Next]_vars PROVE TypeOK'
    OBVIOUS
  <1> DEFINE Rest == /\ sem \in [Sides -> {0, 1}] /\ force \in [Sides -> BOOLEAN]
                     /\ pc \in [Tasks -> Labels]
                     /\ arg \in [Putters -> Slots] /\ result \in [Tasks -> Results]
                     /\ unblocks \in 0 .. MaxUnBlocks
  <1>a. que \in Queues /\ Rest
    BY DEF TypeOK, Queues, Results, Labels, Slots
  <1>b. que' \in Queues /\ Rest' => TypeOK'
    BY DEF TypeOK, Queues, Results, Labels, Slots
  <1>c. /\ Pending \in Results /\ Refused \in Results /\ Done \in Results
        /\ \A x \in Slots : Got(x) \in Results
    BY DEF Results
  <1>d. \A t \in Tasks : AfterTry(t) \in Labels
    BY DEF AfterTry, Labels
  <1>1. ASSUME NEW t \in Tasks, Call(t) PROVE TypeOK'
    BY <1>1, <1>a, <1>b, <1>c DEF Call, Goto, Return, Labels, Slots
  <1>2. ASSUME NEW t \in Tasks, PutTry(t) PROVE TypeOK'
    <2>1. que.count < MaxElements /\ arg[t] \in Slots
      BY <1>2, <1>a, UtilsQueAssumption DEF PutTry, Ready
    <2>2. que' \in Queues
      BY <2>1, <1>2, <1>a, QueueClosed DEF PutTry
    <2> QED
      BY <2>2, <1>2, <1>a, <1>b, <1>c, <1>d DEF PutTry, Goto, Return, Slots
  <1>3. ASSUME NEW t \in Tasks, GetTry(t) PROVE TypeOK'
    <2>1. que.count >= 1
      BY <1>3, <1>a, LeastIn DEF GetTry, Ready, Queues
    <2>2. que' \in Queues /\ que.slot[que.curRd] \in Slots
      BY <2>1, <1>3, <1>a, QueueClosed DEF GetTry
    <2> QED
      BY <2>2, <1>3, <1>a, <1>b, <1>c, <1>d DEF GetTry, Goto, Return
  <1>4. ASSUME NEW t \in Tasks, TryFails(t) PROVE TypeOK'
    BY <1>4, <1>a, <1>b, <1>c DEF TryFails, Goto, Return, Labels
  <1>5. ASSUME NEW t \in Tasks, Post(t) PROVE TypeOK'
    BY <1>5, <1>a, <1>b, PostedType DEF Post, Labels
  <1>6. ASSUME NEW t \in Tasks, Wait(t) PROVE TypeOK'
    BY <1>6, <1>a, <1>b DEF Wait, Goto, Labels
  <1>7. ASSUME NEW t \in Tasks, WaitFails(t) PROVE TypeOK'
    BY <1>7, <1>a, <1>b, <1>c DEF WaitFails, Goto, Return, Labels
  <1>8. ASSUME NEW t \in Tasks, Retry(t) PROVE TypeOK'
    BY <1>8, <1>a, <1>b DEF Retry, Goto, Labels
  <1>9. CASE UnBlock
    BY <1>9, <1>a, <1>b, PostedType, UtilsQueAssumption DEF UnBlock, Labels
  <1>10. CASE Reset
    BY <1>10, <1>a, <1>b, QueueClosed DEF Reset
  <1>11. CASE UNCHANGED vars
    BY <1>11 DEF vars, TypeOK
  <1>12. ASSUME NEW t \in Tasks, Expire(t) \/ Interrupted(t) PROVE TypeOK'
    BY <1>12, <1>a, <1>b DEF Expire, Interrupted, Goto, Labels
  <1> QED
    BY <1>1, <1>2, <1>3, <1>4, <1>5, <1>6, <1>7, <1>8, <1>9, <1>10, <1>11, <1>12
       DEF Next, Runs

(* The count and the indices of the queue stay within its size, and the      *)
(* semaphores binary.                                                       *)
THEOREM TypeCorrect == Spec => []TypeOK
  BY InitType, NextType, PTL DEF Spec

-----------------------------------------------------------------------------
(* Where a task is in its call.                                             *)

Inside == {"try", "wait", "blocked", "woken", "leave"}
Asleep == {"wait", "blocked", "woken", "leave"}

(* A call without a result is one of a task inside it, and one that has to    *)
(* put something; a task waits only on a side that may block, and only when   *)
(* its caller did not forbid it.                                            *)
CallInv ==
  /\ TypeOK
  /\ \A t \in Tasks :
       /\ result[t] = Pending <=> pc[t] \in Inside
       /\ t \in Putters /\ pc[t] \in Inside => arg[t] \in Elements
       /\ pc[t] \in Asleep => Side(t) \in Blocking /\ Timeout[t] # "NO_WAIT"

LEMMA NotPending ==
  /\ Refused # Pending /\ Done # Pending /\ \A x : Got(x) # Pending
  BY DEF Refused, Done, Got, Pending

LEMMA InitCall == Init => CallInv
  BY InitType, NotPending DEF Init, CallInv, Inside, Asleep

(* A step that moves only tasks that sleep, and those to where they wake.    *)
LEMMA WokenCall ==
  ASSUME CallInv, TypeOK', UNCHANGED <<arg, result>>,
         NEW W \in SUBSET Tasks, \A t \in W : pc[t] = "blocked" /\ pc'[t] = "woken",
         \A t \in Tasks \ W : pc'[t] = pc[t] \/ (pc[t] = "post" /\ pc'[t] = "idle")
  PROVE  CallInv'
  BY DEF CallInv, Inside, Asleep

(* A step of one task, which leaves the others where they are.              *)
LEMMA MovedCall ==
  ASSUME CallInv, TypeOK', NEW t \in Tasks, NEW label,
         pc' = [pc EXCEPT ![t] = label],
         \A u \in Tasks \ {t} : result'[u] = result[u],
         \A u \in Putters \ {t} : arg'[u] = arg[u],
         result'[t] = Pending <=> label \in Inside,
         t \in Putters /\ label \in Inside => arg'[t] \in Elements,
         label \in Asleep => Side(t) \in Blocking /\ Timeout[t] # "NO_WAIT"
  PROVE  CallInv'
  BY DEF CallInv, TypeOK, Tasks

LEMMA BlockedIn ==
  ASSUME NEW S, NEW W, Posted(S, W)
  PROVE  W \subseteq Tasks /\ \A t \in W : pc[t] = "blocked"
  BY DEF Posted, Blocked

LEMMA NextCall == CallInv /\ [Next]_vars => CallInv'
  <1> SUFFICES ASSUME CallInv, [Next]_vars PROVE CallInv'
    OBVIOUS
  <1>t. TypeOK /\ TypeOK'
    BY NextType DEF CallInv
  <1> USE DEF Goto, Return
  <1>1. ASSUME NEW t \in Tasks, Call(t) PROVE CallInv'
    <2>1. result'[t] = Pending /\ \A u \in Tasks \ {t} : result'[u] = result[u]
      BY <1>1, <1>t DEF Call, TypeOK
    <2>2. /\ \A u \in Putters \ {t} : arg'[u] = arg[u]
          /\ t \in Putters => arg'[t] \in Elements
      BY <1>1, <1>t DEF Call, TypeOK
    <2>3. pc' = [pc EXCEPT ![t] = "try"]
      BY <1>1 DEF Call
    <2> QED
      BY <2>1, <2>2, <2>3, <1>t, MovedCall DEF Inside, Asleep
  <1>2. ASSUME NEW t \in Tasks, PutTry(t) \/ GetTry(t) PROVE CallInv'
    <2>1. result'[t] # Pending /\ \A u \in Tasks \ {t} : result'[u] = result[u]
      BY <1>2, <1>t, NotPending DEF PutTry, GetTry, TypeOK
    <2>2. \A u \in Putters \ {t} : arg'[u] = arg[u]
      BY <1>2, <1>t DEF PutTry, GetTry, TypeOK
    <2>3. pc' = [pc EXCEPT ![t] = AfterTry(t)]
      BY <1>2 DEF PutTry, GetTry
    <2>4. AfterTry(t) \notin Inside /\ AfterTry(t) \notin Asleep
      BY DEF AfterTry, Inside, Asleep
    <2> QED
      BY <2>1, <2>2, <2>3, <2>4, <1>t, MovedCall
  <1>3. ASSUME NEW t \in Tasks, TryFails(t) PROVE CallInv'
    <2>1. CASE Timeout[t] = "NO_WAIT" \/ Side(t) \notin Blocking
      <3>1. /\ pc' = [pc EXCEPT ![t] = "idle"] /\ result' = [result EXCEPT ![t] = Refused]
            /\ arg' = arg
        BY <1>3, <2>1 DEF TryFails
      <3> QED
        BY <3>1, <1>t, NotPending, MovedCall DEF Inside, Asleep, TypeOK
    <2>2. CASE ~(Timeout[t] = "NO_WAIT" \/ Side(t) \notin Blocking)
      <3>1. pc' = [pc EXCEPT ![t] = "wait"] /\ result' = result /\ arg' = arg
        BY <1>3, <2>2 DEF TryFails
      <3>2. pc[t] \in Inside
        BY <1>3 DEF TryFails, Inside
      <3> QED
        BY <3>1, <3>2, <2>2, <1>t, MovedCall DEF CallInv, Inside, Asleep
    <2> QED
      BY <2>1, <2>2
  <1>4. ASSUME NEW t \in Tasks, Post(t) PROVE CallInv'
    <2>1. PICK W \in SUBSET Tasks :
            /\ Posted({Other(Side(t))}, W)
            /\ pc' = [u \in Tasks |-> CASE u = t -> "idle" [] u \in W -> "woken" [] OTHER -> pc[u]]
      BY <1>4 DEF Post
    <2>2. t \notin W /\ \A u \in W : pc[u] = "blocked"
      BY <1>4, <2>1, BlockedIn DEF Post
    <2>3. /\ \A u \in W : pc'[u] = "woken"
          /\ \A u \in Tasks \ W : pc'[u] = pc[u] \/ (pc[u] = "post" /\ pc'[u] = "idle")
      BY <1>4, <2>1, <2>2 DEF Post
    <2> QED
      BY <1>4, <1>t, <2>2, <2>3, WokenCall DEF Post
  <1>5. ASSUME NEW t \in Tasks, Wait(t) PROVE CallInv'
    <2> DEFINE label == IF sem[Side(t)] = 1 THEN "woken" ELSE "blocked"
    <2>1. pc' = [pc EXCEPT ![t] = label] /\ result' = result /\ arg' = arg
      BY <1>5 DEF Wait
    <2>2. pc[t] \in Inside /\ pc[t] \in Asleep /\ label \in Inside
      BY <1>5 DEF Wait, Inside, Asleep
    <2> HIDE DEF label
    <2> QED
      BY <2>1, <2>2, <1>t, MovedCall DEF CallInv
  <1>6. ASSUME NEW t \in Tasks, WaitFails(t) PROVE CallInv'
    <2>1. /\ pc' = [pc EXCEPT ![t] = "idle"] /\ result' = [result EXCEPT ![t] = Refused]
          /\ arg' = arg
      BY <1>6 DEF WaitFails
    <2> QED
      BY <2>1, <1>t, NotPending, MovedCall DEF Inside, Asleep, TypeOK
  <1>7. ASSUME NEW t \in Tasks, Retry(t) PROVE CallInv'
    <2>1. pc' = [pc EXCEPT ![t] = "try"] /\ result' = result /\ arg' = arg /\ pc[t] \in Inside
      BY <1>7 DEF Retry, Inside
    <2> QED
      BY <2>1, <1>t, MovedCall DEF CallInv, Inside, Asleep
  <1>8. CASE UnBlock
    <2>1. PICK W \in SUBSET Tasks :
            Posted(Blocking, W) /\ pc' = [t \in Tasks |-> IF t \in W THEN "woken" ELSE pc[t]]
      BY <1>8 DEF UnBlock
    <2> QED
      BY <1>8, <1>t, <2>1, BlockedIn, WokenCall DEF UnBlock
  <1>9. CASE Reset
    BY <1>9, <1>t DEF Reset, CallInv
  <1>10. CASE UNCHANGED vars
    BY <1>10, <1>t DEF vars, CallInv
  <1>11. ASSUME NEW t \in Tasks, Expire(t) \/ Interrupted(t) PROVE CallInv'
    <2>1. /\ pc' = [pc EXCEPT ![t] = "leave"] /\ result' = result /\ arg' = arg
          /\ pc[t] \in Inside /\ pc[t] \in Asleep
      BY <1>11 DEF Expire, Interrupted, Inside, Asleep
    <2>2. "leave" \in Inside
      BY DEF Inside
    <2> QED
      BY <2>1, <2>2, <1>t, MovedCall DEF CallInv
  <1> QED
    BY <1>1, <1>2, <1>3, <1>4, <1>5, <1>6, <1>7, <1>8, <1>9, <1>10, <1>11
       DEF Next, Runs

-----------------------------------------------------------------------------
(* No wakeup is lost on a side where one task waits.                        *)

(* A task that can proceed is about to be posted.                           *)
Posting(t)  == \E u \in Tasks : Side(u) = Other(Side(t)) /\ pc[u] = "post"
Justified(t) == ~Ready(t) \/ Posting(t)

SleepInv ==
  /\ CallInv
  /\ \A t \in Tasks : Alone(t) =>
       /\ pc[t] = "wait" => Justified(t) \/ sem[Side(t)] = 1
       /\ pc[t] = "blocked" => Justified(t)

(* On a side where one task waits nobody else sleeps.                       *)
LEMMA AloneAsleep ==
  ASSUME CallInv, NEW t \in Tasks, Alone(t), NEW u \in Tasks, u # t, Side(u) = Side(t)
  PROVE  pc[u] \notin Asleep
  BY SideOf DEF CallInv, Alone, Patience

LEMMA SleepImplied == SleepInv => SleepJustified
  BY DEF SleepInv, SleepJustified, Justified, Posting

LEMMA InitSleep == Init => SleepInv
  BY InitCall DEF Init, SleepInv

(* A step of one task that does not wake, post or sleep disturbs nobody who   *)
(* sleeps, if it leaves them as ready as they were.                         *)
LEMMA UndisturbedSleep ==
  ASSUME SleepInv, CallInv', NEW t \in Tasks, pc[t] # "post",
         \A u \in Tasks \ {t} : pc'[u] = pc[u],
         pc'[t] \notin {"wait", "blocked"}, sem' = sem,
         \A u \in Tasks \ {t} : Ready(u)' /\ pc[u] \in Asleep => Ready(u) \/ Posting(u)'
  PROVE  SleepInv'
  <1>1. \A u \in Tasks : Posting(u) => Posting(u)'
    BY DEF Posting
  <1>2. ASSUME NEW u \in Tasks, Alone(u), u # t, pc[u] \in Asleep, Justified(u)
        PROVE  Justified(u)'
    BY <1>1, <1>2 DEF Justified
  <1> QED
    BY <1>2 DEF SleepInv, Alone, Asleep

(* Posting a side whose one waiting task is blocked wakes it, and otherwise   *)
(* leaves the semaphore posted.                                             *)
LEMMA PostReaches ==
  ASSUME CallInv, NEW S \in SUBSET Sides, NEW W \in SUBSET Tasks, Posted(S, W),
         NEW t \in Tasks, Alone(t), Side(t) \in S
  PROVE  /\ pc[t] = "blocked" => t \in W
         /\ pc[t] = "wait" => sem'[Side(t)] = 1
  <1>1. \A u \in Blocked(Side(t)) : u = t
    BY AloneAsleep DEF Blocked, Asleep
  <1>2. CASE pc[t] = "blocked"
    <2>1. t \in Blocked(Side(t))
      BY <1>2 DEF Blocked
    <2>2. PICK u \in Blocked(Side(t)) : W \cap Blocked(Side(t)) = {u}
      BY <2>1 DEF Posted
    <2> QED
      BY <1>1, <1>2, <2>2
  <1>3. CASE pc[t] = "wait"
    <2>1. Blocked(Side(t)) = {}
      BY <1>1, <1>3 DEF Blocked
    <2> QED
      BY <1>3, <2>1 DEF Posted
  <1> QED
    BY <1>2, <1>3

(* ... and leaves a semaphore that was posted posted.                       *)
LEMMA PostKeeps ==
  ASSUME TypeOK, NEW S, NEW W, Posted(S, W), NEW s \in Sides, sem[s] = 1
  PROVE  sem'[s] = 1
  BY DEF Posted, TypeOK

LEMMA NextSleep == SleepInv /\ [Next]_vars => SleepInv'
  <1> SUFFICES ASSUME SleepInv, [Next]_vars PROVE SleepInv'
    OBVIOUS
  <1>t. CallInv /\ CallInv' /\ TypeOK
    BY NextCall DEF SleepInv, CallInv
  <1>p. pc \in [Tasks -> Labels]
    BY <1>t DEF TypeOK, Labels
  <1>s. que \in Queues
    BY <1>t DEF TypeOK, Queues, Slots
  <1> USE DEF Goto, Return
  <1>1. ASSUME NEW t \in Tasks, Call(t) PROVE SleepInv'
    BY <1>1, <1>t, <1>p, UndisturbedSleep DEF Call, Ready
  <1>2. ASSUME NEW t \in Tasks, PutTry(t) PROVE SleepInv'
    <2>1. que'.count = que.count + 1
      BY <1>2, <1>s DEF PutTry, Queues
    <2>2. pc' = [pc EXCEPT ![t] = AfterTry(t)] /\ pc[t] = "try" /\ sem' = sem
      BY <1>2 DEF PutTry
    <2>3. ASSUME NEW u \in Tasks, u # t, Ready(u)', pc[u] \in Asleep
          PROVE  Ready(u) \/ Posting(u)'
      <3>1. CASE u \in Getters
        <4>1. Side(u) \in Blocking /\ Side(u) = Other(Side(t)) /\ Side(t) = Other(Side(u))
          BY <1>2, <1>t, <2>3, <3>1, UtilsQueAssumption DEF CallInv, Side, Other, PutTry
        <4>2. pc'[t] = "post"
          BY <2>2, <4>1, <1>p DEF AfterTry
        <4> QED
          BY <4>1, <4>2 DEF Posting
      <3>2. CASE u \notin Getters
        <4>1. que'.count < MaxElements
          BY <2>3, <3>2 DEF Ready
        <4>2. que.count < MaxElements
          BY <2>1, <4>1, <1>s, UtilsQueAssumption DEF Queues
        <4> QED
          BY <3>2, <4>2 DEF Ready
      <3> QED
        BY <3>1, <3>2
    <2>4. AfterTry(t) \notin {"wait", "blocked"}
      BY DEF AfterTry
    <2> QED
      BY <1>t, <1>p, <2>2, <2>3, <2>4, UndisturbedSleep
  <1>3. ASSUME NEW t \in Tasks, GetTry(t) PROVE SleepInv'
    <2>1. que'.count = que.count - 1
      BY <1>3, <1>s DEF GetTry, Queues
    <2>2. pc' = [pc EXCEPT ![t] = AfterTry(t)] /\ pc[t] = "try" /\ sem' = sem
      BY <1>3 DEF GetTry
    <2>3. ASSUME NEW u \in Tasks, u # t, Ready(u)', pc[u] \in Asleep
          PROVE  Ready(u) \/ Posting(u)'
      <3>1. CASE u \notin Getters
        <4>1. Side(u) \in Blocking /\ Side(u) = Other(Side(t)) /\ Side(t) = Other(Side(u))
          BY <1>3, <1>t, <2>3, <3>1, UtilsQueAssumption DEF CallInv, Side, Other, GetTry
        <4>2. pc'[t] = "post"
          BY <2>2, <4>1, <1>p DEF AfterTry
        <4> QED
          BY <4>1, <4>2 DEF Posting
      <3>2. CASE u \in Getters
        <4>1. que'.count >= Least[u]
          BY <2>3, <3>2 DEF Ready
        <4>2. que.count >= Least[u]
          BY <2>1, <4>1, <3>2, <1>s, LeastIn, UtilsQueAssumption DEF Queues
        <4> QED
          BY <3>2, <4>2 DEF Ready
      <3> QED
        BY <3>1, <3>2
    <2>4. AfterTry(t) \notin {"wait", "blocked"}
      BY DEF AfterTry
    <2> QED
      BY <1>t, <1>p, <2>2, <2>3, <2>4, UndisturbedSleep
  <1>4. ASSUME NEW t \in Tasks, TryFails(t) PROVE SleepInv'
    <2>1. CASE Timeout[t] = "NO_WAIT" \/ Side(t) \notin Blocking
      BY <1>4, <2>1, <1>t, <1>p, UndisturbedSleep DEF TryFails, Ready
    <2>2. CASE ~(Timeout[t] = "NO_WAIT" \/ Side(t) \notin Blocking)
      <3>1. pc' = [pc EXCEPT ![t] = "wait"] /\ sem' = sem /\ que' = que /\ ~Ready(t)
            /\ pc[t] = "try"
        BY <1>4, <2>2 DEF TryFails
      <3>2. \A u \in Tasks : Justified(u) => Justified(u)'
        BY <3>1, <1>p DEF Justified, Posting, Ready
      <3>3. Justified(t)
        BY <3>1 DEF Justified
      <3> QED
        BY <1>t, <3>1, <3>2, <3>3, <1>p DEF SleepInv, Alone
    <2> QED
      BY <2>1, <2>2
  <1>5. ASSUME NEW t \in Tasks, Post(t) PROVE SleepInv'
    <2>1. PICK W \in SUBSET Tasks :
            /\ Posted({Other(Side(t))}, W)
            /\ pc' = [u \in Tasks |-> CASE u = t -> "idle" [] u \in W -> "woken" [] OTHER -> pc[u]]
      BY <1>5 DEF Post
    <2>2. pc[t] = "post" /\ que' = que /\ (\A u \in W : pc[u] = "blocked") /\ t \notin W
      BY <1>5, <2>1, BlockedIn DEF Post
    <2>3. ASSUME NEW u \in Tasks, Alone(u), pc'[u] \in {"wait", "blocked"}
          PROVE  /\ pc'[u] = "wait" => Justified(u)' \/ sem'[Side(u)] = 1
                 /\ pc'[u] = "blocked" => Justified(u)'
      <3>1. pc[u] = pc'[u] /\ u # t /\ u \notin W
        BY <2>1, <2>2, <2>3
      <3>2. CASE Side(u) = Other(Side(t))
        BY <1>t, <2>1, <2>3, <3>1, <3>2, PostReaches, SideOf
      <3>3. CASE Side(u) # Other(Side(t))
        <4>1. Justified(u) => Justified(u)'
          <5>1. \A v \in Tasks : Side(v) = Other(Side(u)) /\ pc[v] = "post" => pc'[v] = "post"
            BY <2>1, <2>2, <3>3, SideOf DEF Side, Other
          <5> QED
            BY <5>1, <2>2 DEF Justified, Posting, Ready
        <4>2. sem[Side(u)] = 1 => sem'[Side(u)] = 1
          BY <1>t, <2>1, PostKeeps, SideOf
        <4> QED
          BY <2>3, <3>1, <4>1, <4>2 DEF SleepInv
      <3> QED
        BY <3>2, <3>3
    <2> QED
      BY <1>t, <2>3 DEF SleepInv, Alone
  <1>6. ASSUME NEW t \in Tasks, Wait(t) PROVE SleepInv'
    <2>1. /\ pc' = [pc EXCEPT ![t] = IF sem[Side(t)] = 1 THEN "woken" ELSE "blocked"]
          /\ sem' = [sem EXCEPT ![Side(t)] = 0] /\ que' = que /\ pc[t] = "wait"
      BY <1>6 DEF Wait
    <2>2. \A u \in Tasks : Justified(u) => Justified(u)'
      BY <2>1, <1>p DEF Justified, Posting, Ready
    <2>3. ASSUME NEW u \in Tasks, u # t, Alone(u), pc[u] = "wait"
          PROVE  sem'[Side(u)] = sem[Side(u)]
      <3>1. Side(t) # Side(u)
        BY <1>t, <2>1, <2>3, AloneAsleep DEF Asleep
      <3> QED
        BY <2>1, <3>1, <1>t, SideOf DEF TypeOK
    <2> QED
      BY <1>t, <1>p, <2>1, <2>2, <2>3 DEF SleepInv, Alone
  <1>7. ASSUME NEW t \in Tasks, WaitFails(t) PROVE SleepInv'
    BY <1>7, <1>t, <1>p, UndisturbedSleep DEF WaitFails, Ready
  <1>8. ASSUME NEW t \in Tasks, Retry(t) PROVE SleepInv'
    BY <1>8, <1>t, <1>p, UndisturbedSleep DEF Retry, Ready
  <1>9. CASE UnBlock
    <2>1. PICK W \in SUBSET Tasks :
            Posted(Blocking, W) /\ pc' = [t \in Tasks |-> IF t \in W THEN "woken" ELSE pc[t]]
      BY <1>9 DEF UnBlock
    <2>2. \A u \in W : pc[u] = "blocked"
      BY <2>1, BlockedIn
    <2>3. ASSUME NEW u \in Tasks, Alone(u), pc'[u] \in {"wait", "blocked"}
          PROVE  /\ pc'[u] = "wait" => sem'[Side(u)] = 1
                 /\ pc'[u] # "blocked"
      <3>1. pc[u] = pc'[u] /\ u \notin W
        BY <2>1, <2>3
      <3>2. Side(u) \in Blocking
        BY <1>t, <2>3, <3>1 DEF CallInv, Asleep
      <3> QED
        BY <1>t, <2>1, <2>3, <3>1, <3>2, PostReaches, UtilsQueAssumption
    <2> QED
      BY <1>t, <2>3 DEF SleepInv, Alone
  <1>10. CASE Reset
    BY <1>10, <1>t DEF Reset, SleepInv
  <1>11. CASE UNCHANGED vars
    BY <1>11, <1>t DEF vars, SleepInv, Alone, Justified, Posting, Ready
  <1>12. ASSUME NEW t \in Tasks, Expire(t) \/ Interrupted(t) PROVE SleepInv'
    BY <1>12, <1>t, <1>p, UndisturbedSleep DEF Expire, Interrupted, Ready
  <1> QED
    BY <1>1, <1>2, <1>3, <1>4, <1>5, <1>6, <1>7, <1>8, <1>9, <1>10, <1>11, <1>12 DEF Next, Runs

(* A task that is alone in waiting on its side sleeps only while it cannot   *)
(* proceed or a post for it is under way.                                   *)
THEOREM WakeupsKept == Spec => []SleepJustified
  BY SleepImplied, InitSleep, NextSleep, PTL DEF Spec

-----------------------------------------------------------------------------
(* The queue as the sequence of its elements.                               *)

IndexInv == que.curWr = (que.curRd + que.count) % MaxElements

LEMMA QueueFields ==
  ASSUME que \in Queues
  PROVE  /\ que.curRd \in 0 .. MaxElements - 1 /\ que.curWr \in 0 .. MaxElements - 1
         /\ que.count \in 0 .. MaxElements /\ que.slot \in [0 .. MaxElements - 1 -> Slots]
  BY DEF Queues

(* The slot of the i-th element, without the modulo.                        *)
LEMMA SlotIs ==
  ASSUME que \in Queues, NEW i \in 1 .. MaxElements + 1
  PROVE  /\ (que.curRd + i - 1) % MaxElements =
              IF que.curRd + i - 1 < MaxElements THEN que.curRd + i - 1
                                                 ELSE que.curRd + i - 1 - MaxElements
         /\ (que.curRd + i - 1) % MaxElements \in 0 .. MaxElements - 1
  <1>1. MaxElements \in Nat \ {0} /\ que.curRd \in 0 .. MaxElements - 1
    BY QueueFields, UtilsQueAssumption
  <1>2. que.curRd + i - 1 \in 0 .. 2 * MaxElements - 1
    BY <1>1
  <1>3. (que.curRd + i - 1) % MaxElements =
          IF que.curRd + i - 1 < MaxElements THEN que.curRd + i - 1
                                             ELSE que.curRd + i - 1 - MaxElements
    BY <1>1, <1>2, ModOnce
  <1> QED
    BY <1>1, <1>2, <1>3

LEMMA ContentsSeq ==
  ASSUME que \in Queues
  PROVE  Contents \in Seq(Slots) /\ Len(Contents) = que.count
  <1>1. \A i \in 1 .. que.count :
          (que.curRd + i - 1) % MaxElements \in 0 .. MaxElements - 1
    BY SlotIs, QueueFields, UtilsQueAssumption
  <1>2. \A i \in 1 .. que.count : que.slot[(que.curRd + i - 1) % MaxElements] \in Slots
    BY <1>1, QueueFields
  <1> QED
    BY <1>2, QueueFields DEF Contents

(* The index after the last element, and the indices after the first.       *)
LEMMA WrapNext ==
  ASSUME NEW n \in Nat \ {0}, NEW r \in 0 .. n - 1, NEW h \in 0 .. n - 1
  PROVE  (((r + h) % n) + 1) % n = (r + (h + 1)) % n
  <1> DEFINE w == (r + h) % n
             u == (w + 1) % n
             v == (r + (h + 1)) % n
  <1>1. w = IF r + h < n THEN r + h ELSE r + h - n
    OBVIOUS
  <1>2. v = IF r + (h + 1) < n THEN r + (h + 1) ELSE r + (h + 1) - n
    OBVIOUS
  <1> HIDE DEF w
  <1>3. w \in 0 .. n - 1
    BY <1>1
  <1>4. u = IF w + 1 < n THEN w + 1 ELSE w + 1 - n
    BY <1>3
  <1> HIDE DEF u, v
  <1>5. u = v
    BY <1>1, <1>2, <1>4
  <1> QED
    BY <1>5 DEF u, v, w

LEMMA WrapFirst ==
  ASSUME NEW n \in Nat \ {0}, NEW r \in 0 .. n - 1, NEW i \in 0 .. n - 1
  PROVE  /\ (((r + 1) % n) + i) % n = (r + (i + 1)) % n
         /\ (((r + 1) % n) + i) % n \in 0 .. n - 1
         /\ i < n - 1 => (((r + 1) % n) + i) % n # r
  <1> DEFINE f == (r + 1) % n
             u == (f + i) % n
             v == (r + (i + 1)) % n
  <1>1. f = IF r + 1 < n THEN r + 1 ELSE r + 1 - n
    OBVIOUS
  <1>2. v = IF r + (i + 1) < n THEN r + (i + 1) ELSE r + (i + 1) - n
    OBVIOUS
  <1> HIDE DEF f
  <1>3. f \in 0 .. n - 1
    BY <1>1
  <1>4. u = IF f + i < n THEN f + i ELSE f + i - n
    BY <1>3
  <1> HIDE DEF u, v
  <1>5. u = v /\ u \in 0 .. n - 1 /\ (i < n - 1 => u # r)
    BY <1>1, <1>2, <1>4
  <1> QED
    BY <1>5 DEF u, v, f

LEMMA SeqAsFunction ==
  ASSUME NEW S, NEW s \in Seq(S)
  PROVE  s = [i \in 1 .. Len(s) |-> s[i]]
  OBVIOUS

LEMMA AppendIs ==
  ASSUME NEW S, NEW s \in Seq(S), NEW x \in S
  PROVE  Append(s, x) = [i \in 1 .. Len(s) + 1 |-> IF i <= Len(s) THEN s[i] ELSE x]
  <1> DEFINE a == Append(s, x)
  <1>1. /\ a \in Seq(S) /\ Len(a) = Len(s) + 1
        /\ \A i \in 1 .. Len(s) : a[i] = s[i]
        /\ a[Len(s) + 1] = x
    BY AppendProperties
  <1>2. a = [i \in 1 .. Len(a) |-> a[i]]
    BY <1>1, SeqAsFunction
  <1>3. Len(s) \in Nat
    OBVIOUS
  <1> HIDE DEF a
  <1>4. \A i \in 1 .. Len(s) + 1 : a[i] = IF i <= Len(s) THEN s[i] ELSE x
    BY <1>1, <1>3
  <1>5. a = [i \in 1 .. Len(s) + 1 |-> IF i <= Len(s) THEN s[i] ELSE x]
    BY <1>1, <1>2, <1>4
  <1> QED
    BY <1>5 DEF a

LEMMA TailIs ==
  ASSUME NEW S, NEW s \in Seq(S), s # << >>
  PROVE  Tail(s) = [i \in 1 .. Len(s) - 1 |-> s[i + 1]]
  <1> DEFINE a == Tail(s)
  <1>1. a \in Seq(S) /\ Len(a) = Len(s) - 1 /\ \A i \in 1 .. Len(a) : a[i] = s[i + 1]
    BY HeadTailProperties
  <1>2. a = [i \in 1 .. Len(a) |-> a[i]]
    BY <1>1, SeqAsFunction
  <1> HIDE DEF a
  <1>3. a = [i \in 1 .. Len(s) - 1 |-> s[i + 1]]
    BY <1>1, <1>2
  <1> QED
    BY <1>3 DEF a

(* A put appends.                                                           *)
LEMMA ContentsPut ==
  ASSUME que \in Queues, IndexInv, que.count < MaxElements, NEW x \in Slots,
         que' = [que EXCEPT !.slot[que.curWr] = x, !.count = @ + 1,
                            !.curWr = (@ + 1) % MaxElements]
  PROVE  Contents' = Append(Contents, x) /\ IndexInv'
  <1> DEFINE n == MaxElements
             h == que.count
  <1>0. n \in Nat \ {0} /\ que.curRd \in 0 .. n - 1 /\ que.curWr \in 0 .. n - 1 /\ h \in 0 .. n - 1
        /\ que.slot \in [0 .. n - 1 -> Slots]
    BY QueueFields, UtilsQueAssumption
  <1>1. /\ que'.curRd = que.curRd /\ que'.count = h + 1 /\ que'.curWr = (que.curWr + 1) % n
        /\ que'.slot = [que.slot EXCEPT ![que.curWr] = x]
    BY DEF Queues
  <1>2. (que.curRd + (h + 1) - 1) % n = que.curWr
    BY <1>0 DEF IndexInv
  <1>3. que.curWr = IF que.curRd + h < n THEN que.curRd + h ELSE que.curRd + h - n
    <2>1. que.curRd + h \in 0 .. 2 * n - 1
      BY <1>0
    <2> QED
      BY <1>0, <2>1, ModOnce DEF IndexInv
  <1>4. ASSUME NEW i \in 1 .. h
        PROVE  que'.slot[(que.curRd + i - 1) % n] = que.slot[(que.curRd + i - 1) % n]
    <2>1. i \in 1 .. n + 1
      BY <1>0
    <2>2. /\ (que.curRd + i - 1) % n =
               IF que.curRd + i - 1 < n THEN que.curRd + i - 1 ELSE que.curRd + i - 1 - n
          /\ (que.curRd + i - 1) % n \in 0 .. n - 1
      BY <2>1, SlotIs
    <2>3. (que.curRd + i - 1) % n # que.curWr
      BY <2>2, <1>0, <1>3
    <2> QED
      BY <2>2, <2>3, <1>0, <1>1
  <1>5. que'.slot[que.curWr] = x
    BY <1>0, <1>1
  <1>6. Contents' = [i \in 1 .. h + 1 |-> que'.slot[(que.curRd + i - 1) % n]]
    BY <1>1 DEF Contents
  <1>7. Append(Contents, x) = [i \in 1 .. h + 1 |-> IF i <= h THEN Contents[i] ELSE x]
    BY ContentsSeq, AppendIs
  <1>8. \A i \in 1 .. h + 1 :
          que'.slot[(que.curRd + i - 1) % n] = IF i <= h THEN Contents[i] ELSE x
    <2>1. \A i \in 1 .. h : Contents[i] = que.slot[(que.curRd + i - 1) % n]
      BY DEF Contents
    <2> QED
      BY <2>1, <1>0, <1>2, <1>4, <1>5
  <1>9. (que.curWr + 1) % n = (que.curRd + (h + 1)) % n
    BY <1>0, WrapNext DEF IndexInv
  <1> QED
    BY <1>1, <1>6, <1>7, <1>8, <1>9 DEF IndexInv

(* A get takes the first.                                                   *)
LEMMA ContentsGet ==
  ASSUME que \in Queues, IndexInv, que.count >= 1,
         que' = [que EXCEPT !.count = @ - 1, !.curRd = (@ + 1) % MaxElements,
                            !.slot[que.curRd] = NoElem]
  PROVE  /\ Contents' = Tail(Contents) /\ Head(Contents) = que.slot[que.curRd]
         /\ IndexInv'
  <1> DEFINE n == MaxElements
             h == que.count
  <1>0. n \in Nat \ {0} /\ que.curRd \in 0 .. n - 1 /\ que.curWr \in 0 .. n - 1 /\ h \in 1 .. n
        /\ que.slot \in [0 .. n - 1 -> Slots]
    BY QueueFields, UtilsQueAssumption
  <1>1. /\ que'.curRd = (que.curRd + 1) % n /\ que'.count = h - 1 /\ que'.curWr = que.curWr
        /\ que'.slot = [que.slot EXCEPT ![que.curRd] = NoElem]
    BY DEF Queues
  <1>2. que'.curRd = IF que.curRd + 1 < n THEN que.curRd + 1 ELSE 0
    BY <1>0, <1>1, ModOnce
  <1>w. \A i \in 0 .. n - 1 :
          /\ (que'.curRd + i) % n = (que.curRd + (i + 1)) % n
          /\ (que'.curRd + i) % n \in 0 .. n - 1
          /\ i < n - 1 => (que'.curRd + i) % n # que.curRd
    <2>1. \A i \in 0 .. n - 1 :
            /\ (((que.curRd + 1) % n) + i) % n = (que.curRd + (i + 1)) % n
            /\ (((que.curRd + 1) % n) + i) % n \in 0 .. n - 1
            /\ i < n - 1 => (((que.curRd + 1) % n) + i) % n # que.curRd
      BY <1>0, WrapFirst
    <2> QED
      BY <1>1, <2>1, Zenon
  <1>3. Head(Contents) = que.slot[que.curRd]
    <2>1. Contents[1] = que.slot[(que.curRd + 1 - 1) % n]
      BY <1>0 DEF Contents
    <2>2. (que.curRd + 1 - 1) % n = que.curRd
      BY <1>0
    <2>3. Head(Contents) = Contents[1]
      BY <1>0, ContentsSeq
    <2> QED
      BY <2>1, <2>2, <2>3
  <1>4. ASSUME NEW i \in 1 .. h - 1
        PROVE  /\ (que'.curRd + i - 1) % n = (que.curRd + (i + 1) - 1) % n
               /\ (que'.curRd + i - 1) % n \in 0 .. n - 1
               /\ (que'.curRd + i - 1) % n # que.curRd
    <2>1. i - 1 \in 0 .. n - 1 /\ i - 1 < n - 1
      BY <1>0
    <2>2. /\ (que'.curRd + (i - 1)) % n = (que.curRd + ((i - 1) + 1)) % n
          /\ (que'.curRd + (i - 1)) % n \in 0 .. n - 1
          /\ (que'.curRd + (i - 1)) % n # que.curRd
      BY <2>1, <1>w
    <2>3. /\ que'.curRd + i - 1 = que'.curRd + (i - 1)
          /\ que.curRd + (i + 1) - 1 = que.curRd + ((i - 1) + 1)
      BY <1>0, <1>2
    <2> QED
      BY <2>2, <2>3
  <1>5. Contents' = [i \in 1 .. h - 1 |-> que'.slot[(que'.curRd + i - 1) % n]]
    BY <1>1 DEF Contents
  <1>6. Tail(Contents) = [i \in 1 .. h - 1 |-> Contents[i + 1]]
    <2>1. Contents \in Seq(Slots) /\ Len(Contents) = h /\ Contents # << >>
      BY <1>0, ContentsSeq
    <2> QED
      BY <2>1, TailIs
  <1>7. \A i \in 1 .. h - 1 : Contents[i + 1] = que.slot[(que.curRd + (i + 1) - 1) % n]
    BY <1>0 DEF Contents
  <1>8. \A i \in 1 .. h - 1 : que'.slot[(que'.curRd + i - 1) % n] = Contents[i + 1]
    <2>1. ASSUME NEW i \in 1 .. h - 1, NEW k \in 0 .. n - 1, k # que.curRd
          PROVE  que'.slot[k] = que.slot[k]
      BY <2>1, <1>0, <1>1
    <2> QED
      BY <2>1, <1>4, <1>7
  <1>9. que.curWr = (que'.curRd + (h - 1)) % n
    <2>1. (que'.curRd + (h - 1)) % n = (que.curRd + ((h - 1) + 1)) % n
      <3>1. h - 1 \in 0 .. n - 1
        BY <1>0
      <3> QED
        BY <3>1, <1>w
    <2>2. (h - 1) + 1 = h
      BY <1>0
    <2> QED
      BY <2>1, <2>2 DEF IndexInv
  <1> QED
    BY <1>1, <1>3, <1>5, <1>6, <1>8, <1>9 DEF IndexInv

-----------------------------------------------------------------------------
(* The calls act as on a bounded queue.                                     *)

BoundInv == CallInv /\ IndexInv

LEMMA InitBound == Init => BoundInv
  <1> SUFFICES ASSUME Init PROVE IndexInv
    BY InitCall DEF BoundInv
  <1>1. que.curRd = 0 /\ que.curWr = 0 /\ que.count = 0
    BY DEF Init
  <1> QED
    BY <1>1, UtilsQueAssumption DEF IndexInv

LEMMA InitQueue == Init => Queue!Init
  <1> SUFFICES ASSUME Init PROVE Queue!Init
    OBVIOUS
  <1>1. Contents = << >>
    BY DEF Init, Contents
  <1> QED
    BY <1>1 DEF Init, Queue!Init, Queue!Clients, Queue!Done, Tasks, Done, Sides

(* The steps that change neither the queue nor a result nor a flag.         *)
LEMMA UnchangedContents == que' = que => Contents' = Contents /\ (IndexInv => IndexInv')
  BY DEF Contents, IndexInv

(* The calls that are about to fail after a wait.                           *)
Leaving == {t \in Tasks : pc[t] = "leave"}

(* A step that takes no task to the label "leave" and none from it.          *)
LEMMA UnchangedLeaving ==
  ASSUME \A t \in Tasks : pc'[t] = "leave" <=> pc[t] = "leave"
  PROVE  Leaving' = Leaving
  BY DEF Leaving

(* A step of one task from another label to a label that is not it.          *)
LEMMA MovedLeaving ==
  ASSUME TypeOK, NEW t \in Tasks, pc[t] # "leave", NEW label, label # "leave",
         pc' = [pc EXCEPT ![t] = label]
  PROVE  Leaving' = Leaving
  BY UnchangedLeaving DEF TypeOK

(* Where a call is waiting in the abstract queue.                           *)
LEMMA WaitingIs ==
  ASSUME CallInv, NEW t \in Tasks, pc[t] \in Inside, pc[t] # "leave"
  PROVE  result[t] = Pending /\ t \notin Leaving
  BY DEF CallInv, Leaving

LEMMA StepQueue ==
  BoundInv /\ [Next]_vars => IndexInv' /\ [Queue!Next]_<<Contents, result, force, Leaving>>
  <1> SUFFICES ASSUME BoundInv, [Next]_vars
               PROVE  IndexInv' /\ (Queue!Next \/ UNCHANGED <<Contents, result, force, Leaving>>)
    OBVIOUS
  <1> USE DEF Goto, Return
  <1>s. que \in Queues /\ IndexInv /\ CallInv /\ TypeOK
    BY DEF BoundInv, CallInv, TypeOK, Queues, Slots
  <1>c. Len(Contents) = que.count
    BY <1>s, ContentsSeq
  <1>r. \A t \in Tasks : Queue!Ready(t) <=> Ready(t)
    BY <1>c DEF Queue!Ready, Ready
  <1>d. /\ Queue!Pending = Pending /\ Queue!Refused = Refused /\ Queue!Done = Done
        /\ \A x : Queue!Got(x) = Got(x)
    BY DEF Queue!Pending, Pending, Queue!Refused, Refused, Queue!Done, Done, Queue!Got, Got
  <1>e. /\ Queue!Clients = Tasks
        /\ \A t \in Tasks : Queue!Side(t) = Side(t)
        /\ \A t \in Tasks : Queue!Waiting(t) <=> result[t] = Pending /\ t \notin Leaving
    BY <1>d DEF Queue!Clients, Tasks, Queue!Side, Side, Queue!Waiting, Leaving
  <1>1. ASSUME NEW t \in Tasks, Call(t) PROVE IndexInv' /\ Queue!Next
    <2>1. result[t] # Pending /\ que' = que /\ result' = [result EXCEPT ![t] = Pending]
          /\ force' = force
      BY <1>1, <1>s DEF Call, CallInv, Inside
    <2>2. Leaving' = Leaving
      BY <1>1, <1>s, MovedLeaving DEF Call
    <2>3. Queue!Call(t)
      BY <2>1, <2>2, <1>d, UnchangedContents DEF Queue!Call, Leaving
    <2> QED
      BY <2>1, <2>3, <1>e, <1>s, UnchangedContents DEF Queue!Next
  <1>2. ASSUME NEW t \in Tasks, PutTry(t) PROVE IndexInv' /\ Queue!Next
    <2>1. /\ t \in Putters /\ pc[t] = "try" /\ pc[t] \in Inside /\ Ready(t) /\ force' = force
          /\ result' = [result EXCEPT ![t] = Done]
      BY <1>2 DEF PutTry, Inside
    <2>2. arg[t] \in Elements /\ Queue!Waiting(t) /\ que.count < MaxElements
      BY <2>1, <1>s, <1>e, WaitingIs, UtilsQueAssumption DEF CallInv, Ready
    <2>3. Contents' = Append(Contents, arg[t]) /\ IndexInv'
      BY <1>2, <1>s, <2>2, ContentsPut DEF PutTry, Slots
    <2>4. Leaving' = Leaving
      <3>1. AfterTry(t) # "leave"
        BY DEF AfterTry
      <3> QED
        BY <1>2, <2>1, <3>1, <1>s, MovedLeaving DEF PutTry
    <2>5. Queue!Put(t, arg[t])
      BY <2>1, <2>2, <2>3, <2>4, <1>d, <1>r DEF Queue!Put, Leaving
    <2> QED
      BY <2>1, <2>2, <2>3, <2>5 DEF Queue!Next
  <1>3. ASSUME NEW t \in Tasks, GetTry(t) PROVE IndexInv' /\ Queue!Next
    <2>1. /\ t \in Getters /\ pc[t] = "try" /\ pc[t] \in Inside /\ Ready(t) /\ force' = force
          /\ result' = [result EXCEPT ![t] = Got(que.slot[que.curRd])]
      BY <1>3 DEF GetTry, Inside
    <2>2. Queue!Waiting(t)
      BY <2>1, <1>s, <1>e, WaitingIs
    <2>3. que.count >= 1
      BY <2>1, <1>s, LeastIn DEF Ready, Queues
    <2>4. Contents' = Tail(Contents) /\ Head(Contents) = que.slot[que.curRd] /\ IndexInv'
      BY <1>3, <1>s, <2>3, ContentsGet DEF GetTry
    <2>5. Leaving' = Leaving
      <3>1. AfterTry(t) # "leave"
        BY DEF AfterTry
      <3> QED
        BY <1>3, <2>1, <3>1, <1>s, MovedLeaving DEF GetTry
    <2>6. Queue!Get(t)
      BY <2>1, <2>2, <2>4, <2>5, <1>d, <1>r DEF Queue!Get, Leaving
    <2> QED
      BY <2>1, <2>4, <2>6 DEF Queue!Next
  <1>4. ASSUME NEW t \in Tasks, TryFails(t)
        PROVE  IndexInv' /\ (Queue!Next \/ UNCHANGED <<Contents, result, force, Leaving>>)
    <2>1. que' = que /\ force' = force /\ ~Ready(t) /\ pc[t] = "try" /\ pc[t] \in Inside
      BY <1>4 DEF TryFails, Inside
    <2>2. CASE Timeout[t] = "NO_WAIT" \/ Side(t) \notin Blocking
      <3>1. Patience[t] = "NO_WAIT"
        BY <2>2 DEF Patience
      <3>2. result' = [result EXCEPT ![t] = Refused] /\ pc' = [pc EXCEPT ![t] = "idle"]
        BY <1>4, <2>2 DEF TryFails
      <3>3. Leaving' = Leaving
        BY <2>1, <3>2, <1>s, MovedLeaving
      <3>4. Queue!Waiting(t)
        BY <2>1, <1>s, <1>e, WaitingIs
      <3>5. Queue!Refuse(t)
        BY <2>1, <3>1, <3>2, <3>3, <3>4, <1>r, <1>d, UnchangedContents DEF Queue!Refuse, Leaving
      <3> QED
        BY <2>1, <3>5, <1>e, <1>s, UnchangedContents DEF Queue!Next
    <2>3. CASE ~(Timeout[t] = "NO_WAIT" \/ Side(t) \notin Blocking)
      <3>1. Leaving' = Leaving
        BY <1>4, <2>1, <2>3, <1>s, MovedLeaving DEF TryFails
      <3> QED
        BY <1>4, <2>1, <2>3, <3>1, <1>s, UnchangedContents DEF TryFails
    <2> QED
      BY <2>2, <2>3
  <1>5. ASSUME NEW t \in Tasks, Expire(t) \/ Interrupted(t) PROVE IndexInv' /\ Queue!Next
    <2>1. /\ que' = que /\ force' = force /\ result' = result
          /\ pc' = [pc EXCEPT ![t] = "leave"]
          /\ pc[t] # "leave" /\ pc[t] \in Inside /\ pc[t] \in Asleep
      BY <1>5 DEF Expire, Interrupted, Inside, Asleep
    <2>2. Patience[t] = Timeout[t] /\ Patience[t] # "NO_WAIT"
      BY <2>1, <1>s DEF Patience, CallInv
    <2>3. Patience[t] = "TIMED" \/ (Patience[t] = "FOREVER" /\ force[Side(t)])
      BY <1>5, <2>2, UtilsQueAssumption DEF Expire, Interrupted
    <2>4. Leaving' = Leaving \cup {t}
      BY <2>1, <1>s DEF Leaving, TypeOK
    <2>5. Queue!Waiting(t)
      BY <2>1, <1>s, <1>e, WaitingIs
    <2>6. Queue!GiveUp(t)
      BY <2>1, <2>3, <2>4, <2>5, <1>e, UnchangedContents, Zenon DEF Queue!GiveUp, Leaving
    <2> QED
      BY <2>1, <2>6, <1>e, <1>s, UnchangedContents DEF Queue!Next
  <1>6. ASSUME NEW t \in Tasks, WaitFails(t) PROVE IndexInv' /\ Queue!Next
    <2>1. /\ que' = que /\ force' = [force EXCEPT ![Side(t)] = FALSE]
          /\ result' = [result EXCEPT ![t] = Refused]
          /\ pc[t] = "leave" /\ pc' = [pc EXCEPT ![t] = "idle"]
      BY <1>6 DEF WaitFails
    <2>2. t \in Leaving /\ Leaving' = Leaving \ {t}
      BY <2>1, <1>s DEF Leaving, TypeOK
    <2>3. Queue!Fail(t)
      BY <2>1, <2>2, <1>d, <1>e, UnchangedContents DEF Queue!Fail, Leaving
    <2> QED
      BY <2>1, <2>3, <1>e, <1>s, UnchangedContents DEF Queue!Next
  <1>7. ASSUME NEW t \in Tasks, Post(t)
        PROVE  IndexInv' /\ UNCHANGED <<Contents, result, force, Leaving>>
    <2>1. PICK W \in SUBSET Tasks :
            /\ Posted({Other(Side(t))}, W)
            /\ pc' = [u \in Tasks |-> CASE u = t -> "idle" [] u \in W -> "woken" [] OTHER -> pc[u]]
      BY <1>7 DEF Post
    <2>2. Leaving' = Leaving
      BY <1>7, <2>1, BlockedIn, UnchangedLeaving DEF Post
    <2> QED
      BY <1>7, <2>2, <1>s, UnchangedContents DEF Post
  <1>8. ASSUME NEW t \in Tasks, Wait(t) \/ Retry(t)
        PROVE  IndexInv' /\ UNCHANGED <<Contents, result, force, Leaving>>
    <2>1. Leaving' = Leaving
      BY <1>8, <1>s, UnchangedLeaving DEF Wait, Retry, TypeOK
    <2> QED
      BY <1>8, <2>1, <1>s, UnchangedContents DEF Wait, Retry
  <1>9. CASE UnBlock
    <2>1. que' = que /\ result' = result /\ force' = [s \in Sides |-> s \in Blocking \/ force[s]]
      BY <1>9 DEF UnBlock
    <2>2. Blocking \in SUBSET {"get", "put"}
      BY UtilsQueAssumption DEF Sides
    <2>3. PICK W \in SUBSET Tasks :
            Posted(Blocking, W) /\ pc' = [t \in Tasks |-> IF t \in W THEN "woken" ELSE pc[t]]
      BY <1>9 DEF UnBlock
    <2>4. Leaving' = Leaving
      BY <2>3, BlockedIn, UnchangedLeaving
    <2>5. Queue!UnBlock
      BY <2>1, <2>2, <2>4, UnchangedContents, Zenon DEF Queue!UnBlock, Sides, Leaving
    <2> QED
      BY <2>1, <2>5, <1>s, UnchangedContents DEF Queue!Next
  <1>10. CASE Reset
    <2>1. que'.curRd = 0 /\ que'.curWr = 0 /\ que'.count = 0
      BY <1>10 DEF Reset
    <2>2. IndexInv'
      BY <2>1, UtilsQueAssumption DEF IndexInv
    <2>3. Contents' = << >>
      BY <2>1 DEF Contents
    <2>4. Leaving' = Leaving
      BY <1>10, UnchangedLeaving DEF Reset
    <2>5. Queue!Clear
      BY <1>10, <2>3, <2>4, Zenon DEF Reset, Queue!Clear, Sides, Leaving
    <2> QED
      BY <2>2, <2>5 DEF Queue!Next
  <1>11. CASE UNCHANGED vars
    BY <1>11, <1>s, UnchangedContents, UnchangedLeaving DEF vars
  <1> QED
    BY <1>1, <1>2, <1>3, <1>4, <1>5, <1>6, <1>7, <1>8, <1>9, <1>10, <1>11 DEF Next, Runs

(* utils_que.c implements the bounded queue: every call that succeeds takes   *)
(* effect at one instant, in the order of the critical sections, and one      *)
(* fails only for the reason its timeout allows or on an UnBlock that stood   *)
(* when it looked, although it clears the flag in another step.              *)
THEOREM Refinement == Spec => IsBoundedQueue
  <1>1. BoundInv /\ [Next]_vars => BoundInv'
    BY NextCall, StepQueue DEF BoundInv
  <1>2. BoundInv /\ [Next]_vars => [Queue!Next]_(Queue!queueVars)
    BY StepQueue DEF Queue!queueVars, Leaving
  <1> QED
    BY InitBound, InitQueue, <1>1, <1>2, PTL DEF Spec, IsBoundedQueue, Queue!Spec
=============================================================================
