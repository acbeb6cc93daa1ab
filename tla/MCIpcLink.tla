------------------------------ MODULE MCIpcLink ------------------------------
(* Small instances of IpcLink for TLC.                                      *)
EXTENDS IpcLink, TLC
CONSTANTS b1, b2, i1, i2, i3, s1, s2, r1, r2

Symmetry == Permutations(Idx) \cup Permutations(SysBufs) \cup Permutations(Bufs) \cup Permutations(Returners)
=============================================================================
