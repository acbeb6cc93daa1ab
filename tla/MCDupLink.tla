------------------------------ MODULE MCDupLink ------------------------------
(* A small instance of DupLink for TLC, given by DupLinkSafe.cfg.            *)
EXTENDS DupLink
=============================================================================
