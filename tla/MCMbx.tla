-------------------------------- MODULE MCMbx --------------------------------
(* Small instances of Mbx for TLC.                                          *)
EXTENDS Mbx, TLC
CONSTANTS own, high, low, s1, s2, c1, c2, c3

Symmetry == Permutations(Senders) \cup Permutations(Controllers)

(* Two links on the multi-mailbox task, each with a queue of its own, or both *)
(* with one, as the links of PRI_HIGHEST (all *_tsk_create_multi_mbx.c:42 but *)
(* algorithm's).                                                            *)
TwoQueues == high :> 0 @@ low :> 1
OneQueue  == high :> 0 @@ low :> 0

(* With one queue the two links are alike: what holds of the data of one      *)
(* holds of the other's.                                                    *)
LowProcessed == DataProcessedOf(low)
=============================================================================
