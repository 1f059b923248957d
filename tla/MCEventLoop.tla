---------------------------- MODULE MCEventLoop ----------------------------
(* Model values for EventLoop: the loop's own thread and others, which are *)
(* interchangeable like the addresses.                                     *)
EXTENDS EventLoop, TLC

MCSymmetry == Permutations(Node) \union Permutations(Producers \ {Self})
=============================================================================
