---------------------------- MODULE MCMpscQueue ----------------------------
(* Model values for MpscQueue.  Addresses are interchangeable, and so are   *)
(* the producers: no definition names one of them.                          *)
EXTENDS MpscQueue, TLC

MCSymmetry == Permutations(Node) \union Permutations(Producers)
=============================================================================
