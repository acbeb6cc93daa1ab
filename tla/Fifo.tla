-------------------------------- MODULE Fifo --------------------------------
(***************************************************************************)
(* What the users of an inter-processor queue rely on: a first-in first-out *)
(* channel of Capacity elements whose operations take effect at one instant *)
(* between a client's call and its return, refuse only when the channel     *)
(* really is full (empty), and neither lose nor repeat an element.          *)
(***************************************************************************)
EXTENDS Integers, Sequences

CONSTANTS Capacity,    \* elements the channel can hold
          Elements,    \* values that travel through it
          Senders,     \* threads that put
          Receivers    \* threads that get

VARIABLES q,           \* the elements in the channel, oldest first
          result       \* per client: outcome of its last call

fifoVars == <<q, result>>

Clients == Senders \cup Receivers
Pending == [status |-> "pending"]
Refused == [status |-> "EAGAIN"]
Done    == [status |-> "SOK"]
Got(e)  == [status |-> "SOK", elem |-> e]

Init ==
  /\ q = << >>
  /\ result = [c \in Clients |-> Done]

Call(c) ==
  /\ result[c] # Pending
  /\ result' = [result EXCEPT ![c] = Pending]
  /\ UNCHANGED q

Put(c, e) ==
  /\ result[c] = Pending
  /\ Len(q) < Capacity
  /\ q' = Append(q, e)
  /\ result' = [result EXCEPT ![c] = Done]

PutRefused(c) ==
  /\ result[c] = Pending
  /\ Len(q) = Capacity
  /\ result' = [result EXCEPT ![c] = Refused]
  /\ UNCHANGED q

Get(c) ==
  /\ result[c] = Pending
  /\ q # << >>
  /\ q' = Tail(q)
  /\ result' = [result EXCEPT ![c] = Got(Head(q))]

GetRefused(c) ==
  /\ result[c] = Pending
  /\ q = << >>
  /\ result' = [result EXCEPT ![c] = Refused]
  /\ UNCHANGED q

Next ==
  \/ \E c \in Clients : Call(c)
  \/ \E c \in Senders : (\E e \in Elements : Put(c, e)) \/ PutRefused(c)
  \/ \E c \in Receivers : Get(c) \/ GetRefused(c)

Spec == Init /\ [][Next]_fifoVars
=============================================================================
