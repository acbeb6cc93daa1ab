--------------------------------- MODULE Rpc ---------------------------------
(***************************************************************************)
(* What System_linkControl and System_linkGetInfo promise their callers,    *)
(* whichever CPU a link is on: the command runs once, on the link it was     *)
(* sent to, between the call and its return.                                *)
(***************************************************************************)
CONSTANTS Clients, Links, NoOne

VARIABLES call,    \* per client: whether its call is under way, and has run
          target   \*   the link it calls

rpcVars == <<call, target>>

Init ==
  /\ call = [t \in Clients |-> "idle"]
  /\ target = [t \in Clients |-> NoOne]

Call(t, l) ==
  /\ call[t] = "idle"
  /\ call' = [call EXCEPT ![t] = "called"]
  /\ target' = [target EXCEPT ![t] = l]

Run(t) ==
  /\ call[t] = "called"
  /\ call' = [call EXCEPT ![t] = "run"]
  /\ UNCHANGED target

Return(t) ==
  /\ call[t] = "run"
  /\ call' = [call EXCEPT ![t] = "idle"]
  /\ target' = [target EXCEPT ![t] = NoOne]

Next ==
  \E t \in Clients : (\E l \in Links : Call(t, l)) \/ Run(t) \/ Return(t)

Spec == Init /\ [][Next]_rpcVars
=============================================================================
