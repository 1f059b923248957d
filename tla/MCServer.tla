------------------------------ MODULE MCServer ------------------------------
(* Server for TLC: three loops, so that connections change workers.         *)
EXTENDS Server
=============================================================================
