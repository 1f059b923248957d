---------------------------- MODULE MCTaskQueue ----------------------------
(* TaskQueue for TLC: the model values are in the configuration.            *)
EXTENDS TaskQueue
=============================================================================
