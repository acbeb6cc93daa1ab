-------------------------------- MODULE MCMsgQ --------------------------------
(* A small instance of MsgQ for TLC: a chain from ipu to dsp and back, both   *)
(* crossings of which ask the other CPU; two controllers on ipu and one on    *)
(* a15.                                                                     *)
EXTENDS MsgQ, TLC
CONSTANTS ipu, a15, dsp, c1, c2, c3, src, alg, disp

OnCpu  == src :> ipu @@ alg :> dsp @@ disp :> ipu @@ c1 :> ipu @@ c2 :> ipu @@ c3 :> a15
PrevOf == src :> NoOne @@ alg :> src @@ disp :> alg
Uses   == c1 :> {alg} @@ c2 :> {disp} @@ c3 :> {alg}
=============================================================================
