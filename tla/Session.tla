------------------------------ MODULE Session ------------------------------
(***************************************************************************)
(* What the server and the application are promised of one connection of a *)
(* TcpServer, whatever the peer and the network do to it: it is opened,    *)
(* perhaps told to close, lost and freed, each at most once and in this    *)
(* order: none is closed or lost before it was opened, opened again after  *)
(* a close, lost twice, or freed without the loss being told.              *)
(***************************************************************************)

VARIABLE phase   \* "new", "open", "closing", "lost" or "gone"

SessionInit == phase = "new"

\* connection_made_cb was called and the connection is ACTIVATED.
Open == phase = "new" /\ phase' = "open"

\* It is DISCONNECTING, or DISCONNECTED before the application was told.
Close == phase = "open" /\ phase' = "closing"

\* connection_lost_cb is called.
Lose == phase \in {"open", "closing"} /\ phase' = "lost"

\* The last shared_ptr to it is dropped.
Free == phase = "lost" /\ phase' = "gone"

SessionNext == Open \/ Close \/ Lose \/ Free

SessionSpec == SessionInit /\ [][SessionNext]_phase

\* It is opened, and once lost it is freed.
SessionGoesOn == (phase = "new" ~> phase # "new") /\ (phase = "lost" ~> phase = "gone")
=============================================================================
