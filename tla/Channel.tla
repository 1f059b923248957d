------------------------------ MODULE Channel ------------------------------
(***************************************************************************)
(* net/eventloop/Channel.h and the epoll_ctl calls of EpollSelector, as    *)
(* operators on one channel: a record of the members of the Channel and of *)
(* what the epoll instance holds for its descriptor.                       *)
(*                                                                         *)
(*   state       _state                                                    *)
(*   events      _events, a subset of {"READ", "WRITE"}                    *)
(*   registered  the descriptor is in the epoll instance ...               *)
(*   interest    ... with these events; HUP and ERR are reported anyway    *)
(*   due         it is on the ready list, to be polled by epoll_wait       *)
(***************************************************************************)

NewChannel ==
  [state |-> "NEW", events |-> {}, registered |-> FALSE, interest |-> {}, due |-> FALSE]

\* EPOLL_CTL_ADD and EPOLL_CTL_MOD: the descriptor is polled once at the call.
Watch(c) == [c EXCEPT !.registered = TRUE, !.interest = c.events, !.due = TRUE]

\* EPOLL_CTL_DEL.
Unwatch(c) == [c EXCEPT !.registered = FALSE, !.interest = {}, !.due = FALSE]

notify(c) ==
  CASE c.state = "DESTROYED" -> c
    [] c.state \in {"NEW", "DELETED"} -> Watch([c EXCEPT !.state = "ADDED"])
    [] c.state = "ADDED" /\ c.events # {} -> Watch(c)
    [] c.state = "ADDED" /\ c.events = {} -> Unwatch([c EXCEPT !.state = "DELETED"])

\* Mutant of enable: the selector is not told.
enable_only(c, evs) == [c EXCEPT !.events = @ \union evs]

enable(c, evs) == notify([c EXCEPT !.events = @ \union evs])

disable(c, evs) == notify([c EXCEPT !.events = @ \ evs])

\* remove, then DESTROYED.  A channel that is NEW or DELETED is added to the
\* epoll instance by its removal, and stays there.
destroy(c) ==
  IF c.state = "DESTROYED" THEN c
  ELSE [disable(c, {"READ", "WRITE"}) EXCEPT !.state = "DESTROYED"]

is_reading(c) == "READ" \in c.events
is_writing(c) == "WRITE" \in c.events

resume_reading(c) == IF is_reading(c) THEN c ELSE enable(c, {"READ"})
pause_reading(c) == IF is_reading(c) THEN disable(c, {"READ"}) ELSE c
resume_writing(c) == IF is_writing(c) THEN c ELSE enable(c, {"WRITE"})
pause_writing(c) == IF is_writing(c) THEN disable(c, {"WRITE"}) ELSE c

\* Something happened to the descriptor: epoll puts it on the ready list.
Signal(c) == [c EXCEPT !.due = c.registered]

\* What epoll_wait reports of a descriptor whose poll says so.
Reported(c, poll) ==
  IF c.due THEN poll \intersect (c.interest \union {"HUP", "ERR"}) ELSE {}

\* The handlers that handle_events calls before one of them.
Handlers == {"close", "error", "read", "write"}

Before(handler) ==
  CASE handler = "close" -> {}
    [] handler = "error" -> {"close"}
    [] handler = "read"  -> {"close", "error"}
    [] handler = "write" -> {"close", "error", "read"}

\* What it calls which of them for; hang-up alone is a close.
Calls(handler, bits) ==
  CASE handler = "close" -> "HUP" \in bits /\ "READ" \notin bits
    [] handler = "error" -> "ERR" \in bits
    [] handler = "read"  -> "READ" \in bits
    [] handler = "write" -> "WRITE" \in bits
=============================================================================
