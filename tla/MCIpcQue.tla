------------------------------ MODULE MCIpcQue ------------------------------
(* Small instances of IpcQue for TLC.                                       *)
EXTENDS IpcQue, TLC
CONSTANTS a, b, w1, w2, r1, r2

MCElements == {a, b}
TwoWriters == {w1, w2}
OneReader  == {r1}
=============================================================================
