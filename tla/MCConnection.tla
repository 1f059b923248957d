---------------------------- MODULE MCConnection ----------------------------
(* Connection for TLC: all of its constants are flags and bounds.           *)
EXTENDS Connection
=============================================================================
