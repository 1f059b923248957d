--------------------------- MODULE MCTimingWheel ---------------------------
(* TimingWheel and IdleTimeout for TLC: one connection, whose entry is      *)
(* inserted again and again.  Entries share nothing but the sets they are   *)
(* in.                                                                      *)
EXTENDS IdleTimeout
=============================================================================
