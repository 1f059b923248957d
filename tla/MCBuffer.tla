------------------------------ MODULE MCBuffer ------------------------------
(* Buffer for TLC: the sizes are in the configuration.                      *)
EXTENDS Buffer
=============================================================================
