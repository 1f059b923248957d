---------------------------- MODULE IdleTimeout ----------------------------
(***************************************************************************)
(* The timeout of idle connections: TcpTransport::reset_timeout in the     *)
(* worker's thread, reset_timeout_cb of net/Server.h, which hands the      *)
(* reset to the server's loop, and the TimingWheel there, whose dropping   *)
(* of an entry closes the connection.                                      *)
(*                                                                         *)
(* A tick is not a second, although call_every is asked for one: it is set *)
(* through write_timer_fd, 1.5 s away at least, and further if timers are  *)
(* added (TimerQueue).  So time has a clock of its own here.  What happens *)
(* does so between two beats of it: of two events d beats apart the        *)
(* difference is more than d - 1 and less than d + 1 beats.                *)
(***************************************************************************)
EXTENDS TimingWheel

CONSTANTS
  ResetGap,  \* 3 s: a reset within this time of the last one is left out
  TickMin,   \* 1.5 s: the least time between two ticks
  TickMax    \* bound: the longest time between two ticks that is looked at

ASSUME ClockAssumption ==
  /\ ResetGap \in Nat /\ TickMin \in Nat \ {0} /\ TickMax \in Nat
  /\ TickMin <= TickMax

VARIABLES
  timeout,  \* timeout of the connection of each entry; does not change
  open,     \* the connections that are not closed
  age,      \* the time since the last tick
  since,    \* the time since last_active, up to ResetGap + 1
  asked,    \* the connections with a reset in the queue of the server's loop ...
  late,     \* ... and those for which it has been there for a tick
  idle,     \* history: the time since the connection was used, until it is closed
  early     \* history: the connections that had a reset before the ring was full

connVars == <<timeout, open, age, since, asked, late, idle, early>>
-----------------------------------------------------------------------------
InitIdle ==
  /\ Init
  /\ timeout \in [Entry -> Delays]
  /\ open = Entry
  /\ age \in 0 .. TickMin
  /\ since = [c \in Entry |-> ResetGap + 1]
  /\ asked = {}
  /\ late = {}
  /\ idle = [c \in Entry |-> 0]
  /\ early = {}

\* Mutant of Use: a reset that is left out counts for the next one.
UseCounts(c) ==
  /\ c \in open
  /\ idle' = [idle EXCEPT ![c] = 0]
  /\ since' = [since EXCEPT ![c] = 0]
  /\ \/ since[c] >= ResetGap /\ asked' = asked \union {c}
     \/ since[c] <= ResetGap /\ UNCHANGED asked
  /\ UNCHANGED <<vars, timeout, open, age, late, early>>

\* The connection is activated, or sends or receives something: reset_timeout.
Use(c) ==
  /\ c \in open
  /\ idle' = [idle EXCEPT ![c] = 0]
  /\ \/ /\ since[c] >= ResetGap
        /\ asked' = asked \union {c}
        /\ since' = [since EXCEPT ![c] = 0]
     \/ /\ since[c] <= ResetGap
        /\ UNCHANGED <<asked, since>>
  /\ UNCHANGED <<vars, timeout, open, age, late, early>>

\* The server's loop runs the reset, which for a connection that is closed may find
\* it in the map or erased.
ResetTask(c) ==
  /\ c \in asked
  /\ \/ Insert(c, timeout[c])
     \/ c \notin open /\ turn = NWheel /\ UNCHANGED vars
  /\ asked' = asked \ {c}
  /\ late' = late \ {c}
  /\ early' = IF full(wheels[0]) THEN early ELSE early \union {c}
  /\ UNCHANGED <<timeout, open, age, since, idle>>

\* No task waits for more than one tick.
TickIdle ==
  /\ Tick
  /\ age >= TickMin
  /\ age' = 0
  /\ late = {}
  /\ late' = asked
  /\ UNCHANGED <<timeout, open, since, asked, idle, early>>

\* Time passes between two ticks.
Pass ==
  /\ turn = NWheel
  /\ age < TickMax
  /\ age' = age + 1
  /\ since' = [c \in Entry |-> IF since[c] > ResetGap THEN since[c] ELSE since[c] + 1]
  /\ idle' = [c \in Entry |-> IF Held(c) /\ c \in open THEN idle[c] + 1 ELSE idle[c]]
  /\ UNCHANGED <<vars, timeout, open, asked, late, early>>

\* The destructor of the TimeOutEntry calls force_close.
TurnIdle(i) ==
  /\ Turn(i)
  /\ open' = {c \in open : Held(c) => Held(c)'}
  /\ UNCHANGED <<timeout, age, since, asked, late, idle, early>>

NextIdle ==
  \/ \E c \in Entry : Use(c) \/ ResetTask(c)
  \/ TickIdle \/ Pass
  \/ \E i \in Wheel : TurnIdle(i)

SpecIdle == InitIdle /\ [][NextIdle]_<<vars, connVars>>
-----------------------------------------------------------------------------
\* When the ring is full and the timeout of n seconds shorter than it, a connection
\* is closed at the n-th tick after its last reset.  So it is idle for no longer than
\* n + 1 ticks take, one for which the reset was on its way; and for no less than
\* n - 1 ticks take, but for ResetGap, since a use so soon after the last reset does
\* not count.  As ticks are TickMin or more apart this is well over n seconds for a
\* long timeout: 85.5 s at least for 1 min (main.cpp), and there is no limit upwards
\* but the one that ticks have.  Only if the entry comes due while a
\* reset is on its way, the connection is closed whatever its last use
\* (Transport.cpp:103-110, Server.h:84-107, TimingWheel.h:68-92).
Ordinary(c) == c \notin early /\ timeout[c] < BucketSize

ClosesTheIdle ==
  [][\A c \in open :
       Ordinary(c) =>
         /\ idle'[c] <= (timeout[c] + 1) * TickMax
         /\ c \notin open' =>
              idle[c] >= (timeout[c] - 1) * TickMin - ResetGap \/ c \in asked
    ]_<<vars, connVars>>
=============================================================================
