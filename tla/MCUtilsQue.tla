----------------------------- MODULE MCUtilsQue -----------------------------
(* Small instances of UtilsQue for TLC.                                     *)
EXTENDS UtilsQue, TLC
CONSTANTS a, b, p1, p2, g1, g2

BothSides == {"get", "put"}

(* Two getters wait, for ever and for a while, on the same semaphore; of the *)
(* putters one waits for ever and one never.                                *)
MixedTimeout == p1 :> "FOREVER" @@ p2 :> "NO_WAIT" @@ g1 :> "FOREVER" @@ g2 :> "TIMED"
MixedMin     == g1 :> 0 @@ g2 :> 2
=============================================================================
