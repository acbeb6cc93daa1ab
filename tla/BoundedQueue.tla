---------------------------- MODULE BoundedQueue ----------------------------
(***************************************************************************)
(* What the users of a task-to-task queue rely on: a first-in first-out     *)
(* queue of Capacity elements.  A call takes effect at one instant.  How it  *)
(* may fail depends on how long its client is ready to wait: one that does   *)
(* not wait is refused only when the queue is full (too empty) then; one     *)
(* that waits a while may give up; one that waits for ever fails only on an  *)
(* unblock that stands when it looks.  The first call of a side that has     *)
(* failed after a wait ends what stands: an unblock fails every call that    *)
(* saw it before, perhaps several, and none that looks later.               *)
(***************************************************************************)
EXTENDS Integers, Sequences

CONSTANTS Capacity,    \* elements the queue can hold
          Elements,    \* values that travel through it
          Senders,     \* clients that put
          Receivers,   \* clients that get
          Patience,    \* per client: "NO_WAIT", "TIMED" or "FOREVER"
          Least        \* per receiver: it gets only from this many elements

VARIABLES q,           \* the elements in the queue, oldest first
          result,      \* per client: outcome of its last call
          kick,        \* per side: an unblock stands
          leaving      \* clients that are about to fail after a wait

queueVars == <<q, result, kick, leaving>>

Clients == Senders \cup Receivers
Side(c) == IF c \in Receivers THEN "get" ELSE "put"
Pending == [status |-> "pending"]
Refused == [status |-> "EFAIL"]
Done    == [status |-> "SOK"]
Got(e)  == [status |-> "SOK", elem |-> e]

Ready(c) == IF c \in Receivers THEN Len(q) >= Least[c] ELSE Len(q) < Capacity

Waiting(c) == result[c] = Pending /\ c \notin leaving

Init ==
  /\ q = << >>
  /\ result = [c \in Clients |-> Done]
  /\ kick = [s \in {"get", "put"} |-> FALSE]
  /\ leaving = {}

Call(c) ==
  /\ result[c] # Pending
  /\ result' = [result EXCEPT ![c] = Pending]
  /\ UNCHANGED <<q, kick, leaving>>

Put(c, e) ==
  /\ Waiting(c) /\ Ready(c)
  /\ q' = Append(q, e)
  /\ result' = [result EXCEPT ![c] = Done]
  /\ UNCHANGED <<kick, leaving>>

Get(c) ==
  /\ Waiting(c) /\ Ready(c)
  /\ q' = Tail(q)
  /\ result' = [result EXCEPT ![c] = Got(Head(q))]
  /\ UNCHANGED <<kick, leaving>>

Refuse(c) ==
  /\ Waiting(c) /\ Patience[c] = "NO_WAIT" /\ ~Ready(c)
  /\ result' = [result EXCEPT ![c] = Refused]
  /\ UNCHANGED <<q, kick, leaving>>

(* The time is up, or the client sees an unblock ...                        *)
GiveUp(c) ==
  /\ Waiting(c)
  /\ Patience[c] = "TIMED" \/ (Patience[c] = "FOREVER" /\ kick[Side(c)])
  /\ leaving' = leaving \cup {c}
  /\ UNCHANGED <<q, result, kick>>

(* ... and fails.                                                           *)
Fail(c) ==
  /\ c \in leaving /\ leaving' = leaving \ {c}
  /\ result' = [result EXCEPT ![c] = Refused]
  /\ kick' = [kick EXCEPT ![Side(c)] = FALSE]
  /\ UNCHANGED q

UnBlock ==
  /\ \E S \in SUBSET {"get", "put"} : kick' = [s \in {"get", "put"} |-> s \in S \/ kick[s]]
  /\ UNCHANGED <<q, result, leaving>>

Clear ==
  /\ q' = << >> /\ kick' = [s \in {"get", "put"} |-> FALSE]
  /\ UNCHANGED <<result, leaving>>

Next ==
  \/ \E c \in Clients : Call(c) \/ Refuse(c) \/ GiveUp(c) \/ Fail(c)
  \/ \E c \in Senders, e \in Elements : Put(c, e)
  \/ \E c \in Receivers : Get(c)
  \/ UnBlock \/ Clear

Spec == Init /\ [][Next]_queueVars
=============================================================================
