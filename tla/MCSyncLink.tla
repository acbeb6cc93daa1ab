----------------------------- MODULE MCSyncLink -----------------------------
(* Small instances of SyncLink for TLC.                                     *)
EXTENDS SyncLink
=============================================================================
