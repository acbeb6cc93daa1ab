---------------------------- MODULE MCLinkChain ----------------------------
(* A small instance of LinkChain for TLC.                                   *)
EXTENDS LinkChain

MCChOf   == [b \in Bufs |-> IF b = "a" THEN 0 ELSE 1]
MCChosen == [q \in Ques |-> <<q>>]
MCLists  == {<<>>, <<0>>, <<1>>, <<0, 1>>, <<1, 0>>}
=============================================================================
