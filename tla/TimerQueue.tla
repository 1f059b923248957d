----------------------------- MODULE TimerQueue ----------------------------
(***************************************************************************)
(* net/eventloop/TimerQueue.h and .cpp, with call_at and call_every of     *)
(* EventLoop: a heap of timers ordered by their time, the set of the ids   *)
(* that are valid, and one timerfd that is set for the head of the heap.   *)
(* All of it belongs to the loop's thread; another thread's add_timer or   *)
(* remove_timer goes through the task queue, here the abstract one of      *)
(* TaskFifo: a sequence of tasks that the loop runs in order.              *)
(*                                                                         *)
(* Times are relative to the clock: rem[t] is the time left to t's, below  *)
(* 0 once it has passed.  add_timer compares the addresses of two timers   *)
(* where it would compare their times (TimerQueue.h:108: the operands are  *)
(* shared_ptr), so the outcome of that test is a choice.                   *)
(*                                                                         *)
(* The timers of the set Timer are followed one by one.  The program makes *)
(* others, without end: one for every lost connection (Server.h:116).      *)
(* Of these the model knows only whether any is in the heap, and what each *)
(* insertion and each pass may do to timerfd on their account.             *)
(***************************************************************************)
EXTENDS Integers, Sequences, FiniteSets

CONSTANTS
  Timer,       \* the timers that are followed
  None,        \* no timer, no alarm
  Delays,      \* bound: the delays asked for
  Intervals,   \* bound: the intervals asked for, 0 for a timer that fires once
  Milli,       \* the clock's ticks in a millisecond
  MinArm,      \* the least time that write_timer_fd sets (1500 ms)
  MaxStall     \* bound: ticks that pass while handle_exprired runs

ASSUME DelaysAssumption == Delays \subseteq Nat \ {0}
ASSUME IntervalsAssumption == Intervals \subseteq Nat
ASSUME ArmAssumption == Milli \in Nat \ {0} /\ MinArm \in Nat /\ MinArm >= Milli
ASSUME MaxStallAssumption == MaxStall \in Nat
ASSUME NoneAssumption == None \notin Timer /\ None \notin Nat

VARIABLES
  made,       \* the timers made so far
  rem,        \* rem[t]: t->when() - now, no less than Overdue
  interval,   \* interval[t]: t->interval
  heap,       \* timers: those of Timer
  crowd,      \* are other timers in the heap?
  valid,      \* valid_timers
  alarm,      \* the time left on timer_fd, 0 when it is readable, None when off
  tasks,      \* the tasks of other threads that the loop has not run
  asked,      \* the timers that remove_timer was called for (once each)
  lpc,        \* the loop: "idle", "batch" once epoll_wait has reported timer_fd,
              \* "handle" in the while of handle_exprired, "call" in a callback
  cur,        \* ptimer of handle_exprired
  since,      \* the time since handle_exprired has read the clock
  cancelled   \* history: timers erased while they were waiting in the heap

threads == <<made, interval, asked>>
queue   == <<heap, crowd, valid, alarm>>
loop    == <<lpc, cur, since>>
vars    == <<made, rem, interval, heap, crowd, valid, alarm, tasks, asked, lpc, cur, since,
             cancelled>>

\* The clock of handle_exprired is at most MaxStall old: a time passed by more
\* than that need not be told apart from one passed by MaxStall + 1.
Overdue == -(MaxStall + 1)

Init ==
  /\ made = {}
  /\ rem = [t \in Timer |-> Overdue]
  /\ interval = [t \in Timer |-> 0]
  /\ heap = {}
  /\ crowd = FALSE
  /\ valid = {}
  /\ alarm = None
  /\ tasks = << >>
  /\ asked = {}
  /\ lpc = "idle"
  /\ cur = None
  /\ since = 0
  /\ cancelled = {}

-----------------------------------------------------------------------------
\* Mutant of Arm: no least time.
ArmAtOnce(r) == (r \div Milli) * Milli

\* write_timer_fd for a time that is r away: at least MinArm, and no fraction of
\* a millisecond, so that timer_fd may expire before the timer does.
Arm(r) == IF r > MinArm THEN (r \div Milli) * Milli ELSE MinArm

\* timers is not empty.
Waiting == heap # {} \/ crowd

\* Mutant of InsertTask: an empty heap is not treated apart.
InsertUnderHead(t, r) ==
  /\ heap' = heap \union {t}
  /\ valid' = valid \union {t}
  /\ \/ Waiting /\ alarm' = Arm(r)
     \/ UNCHANGED alarm
  /\ UNCHANGED crowd

\* The task of add_timer: t, r away, goes into the heap, and timer_fd is set for
\* it if it is the first there or its address is less than the head's.
InsertTask(t, r) ==
  /\ heap' = heap \union {t}
  /\ valid' = valid \union {t}
  /\ \/ alarm' = Arm(r)
     \/ Waiting /\ UNCHANGED alarm
  /\ UNCHANGED crowd

\* The task of remove_timer: only the id is erased.
EraseTask(t) ==
  /\ valid' = valid \ {t}
  /\ cancelled' = IF t \in heap THEN cancelled \union {t} ELSE cancelled
  /\ UNCHANGED <<heap, crowd, alarm>>

\* The loop's own thread calls the queue from handlers and callbacks, and in the
\* while of handle_exprired from the callbacks of other timers.
OwnThread == lpc # "handle" \/ crowd

\* call_at for a time d > 0 away, or call_every: a timer is made.  (call_at for a
\* time that has come does nothing at all.)
Make(t, d, i) ==
  /\ t \notin made
  /\ made' = made \union {t}
  /\ rem' = [rem EXCEPT ![t] = d]
  /\ interval' = [interval EXCEPT ![t] = i]
  /\ UNCHANGED <<asked, lpc, cur, since, cancelled>>

AddInLoop(t, d, i) ==
  /\ OwnThread
  /\ Make(t, d, i)
  /\ InsertTask(t, d)
  /\ UNCHANGED tasks

AddFromThread(t, d, i) ==
  /\ Make(t, d, i)
  /\ tasks' = Append(tasks, <<"insert", t>>)
  /\ UNCHANGED queue

\* Another timer is inserted, d away, by the loop or by a task that it runs.
AddOther(d) ==
  /\ OwnThread
  /\ crowd' = TRUE
  /\ \/ alarm' = Arm(d)
     \/ Waiting /\ UNCHANGED alarm
  /\ UNCHANGED <<threads, rem, heap, valid, tasks, loop, cancelled>>

\* remove_timer.
RemoveInLoop(t) ==
  /\ OwnThread
  /\ t \in made \ asked
  /\ asked' = asked \union {t}
  /\ EraseTask(t)
  /\ UNCHANGED <<made, rem, interval, tasks, loop>>

RemoveFromThread(t) ==
  /\ t \in made \ asked
  /\ asked' = asked \union {t}
  /\ tasks' = Append(tasks, <<"erase", t>>)
  /\ UNCHANGED <<made, rem, interval, queue, loop, cancelled>>

\* The loop runs a task of another thread.
RunTask ==
  /\ lpc \in {"idle", "batch"}
  /\ tasks # << >>
  /\ tasks' = Tail(tasks)
  /\ LET t == Head(tasks)[2] IN
       \/ Head(tasks)[1] = "insert" /\ InsertTask(t, rem[t]) /\ UNCHANGED cancelled
       \/ Head(tasks)[1] = "erase" /\ EraseTask(t)
  /\ UNCHANGED <<threads, rem, loop>>

-----------------------------------------------------------------------------
\* epoll_wait reports timer_fd.  Other handlers may run before its own.
Report ==
  /\ lpc = "idle"
  /\ alarm = 0
  /\ lpc' = "batch"
  /\ UNCHANGED <<threads, rem, queue, tasks, cur, since, cancelled>>

\* handle_exprired reads timer_fd, if it is still readable, and the clock.
HandleExpired ==
  /\ lpc = "batch"
  /\ alarm' = IF alarm = 0 THEN None ELSE alarm
  /\ since' = 0
  /\ lpc' = "handle"
  /\ UNCHANGED <<threads, rem, heap, crowd, valid, tasks, cur, cancelled>>

\* The heads of the heap: timers of the least time.
Tops == {t \in heap : \A u \in heap : rem[t] <= rem[u]}

\* timers.top()->when() < now, for the clock read at the start.
Expired(t) == rem[t] + since < 0

\* Mutant of CallTop: a removed timer is called like any other.
CallAnyTop ==
  /\ lpc = "handle"
  /\ \E t \in Tops : Expired(t) /\ heap' = heap \ {t} /\ cur' = t
  /\ lpc' = "call"
  /\ UNCHANGED <<threads, rem, crowd, valid, alarm, tasks, since, cancelled>>

\* A valid timer is popped and its callback called.
CallTop ==
  /\ lpc = "handle"
  /\ \E t \in Tops :
       /\ Expired(t)
       /\ t \in valid
       /\ heap' = heap \ {t}
       /\ cur' = t
  /\ lpc' = "call"
  /\ UNCHANGED <<threads, rem, crowd, valid, alarm, tasks, since, cancelled>>

\* A timer that was removed is popped without a call.
SkipTop ==
  /\ lpc = "handle"
  /\ \E t \in Tops :
       /\ Expired(t)
       /\ t \notin valid
       /\ heap' = heap \ {t}
  /\ UNCHANGED <<threads, rem, crowd, valid, alarm, tasks, loop, cancelled>>

\* Mutants of CallbackReturns: no id is erased; the time of a repeating timer is
\* left as it was.
ReturnKeepsId ==
  /\ lpc = "call"
  /\ IF interval[cur] > 0
     THEN rem' = [rem EXCEPT ![cur] = interval[cur]] /\ heap' = heap \union {cur}
     ELSE UNCHANGED <<rem, heap>>
  /\ cur' = None
  /\ lpc' = "handle"
  /\ UNCHANGED <<threads, crowd, valid, alarm, tasks, since, cancelled>>

ReturnKeepsTime ==
  /\ lpc = "call"
  /\ IF interval[cur] > 0
     THEN heap' = heap \union {cur} /\ valid' = valid \union {cur}
     ELSE valid' = valid \ {cur} /\ UNCHANGED heap
  /\ cur' = None
  /\ lpc' = "handle"
  /\ UNCHANGED <<threads, rem, crowd, alarm, tasks, since, cancelled>>

\* The callback returns: a repeating timer is inserted again, for the interval
\* from now on; of any other the id is erased.
CallbackReturns ==
  /\ lpc = "call"
  /\ IF interval[cur] > 0
     THEN /\ rem' = [rem EXCEPT ![cur] = interval[cur]]
          /\ heap' = heap \union {cur}
          /\ valid' = valid \union {cur}
     ELSE /\ valid' = valid \ {cur}
          /\ UNCHANGED <<rem, heap>>
  /\ cur' = None
  /\ lpc' = "handle"
  /\ UNCHANGED <<threads, crowd, alarm, tasks, since, cancelled>>

\* Mutant of HandleEnds: timer_fd is left as it is.
HandleEndsUnarmed ==
  /\ lpc = "handle"
  /\ \A t \in Tops : ~Expired(t)
  /\ lpc' = "idle"
  /\ since' = 0
  /\ UNCHANGED <<threads, rem, queue, tasks, cur, cancelled>>

\* No timer is left whose time has passed: timer_fd is set for the head, which is
\* one of those followed or another, no later than they are.
HandleEnds ==
  /\ lpc = "handle"
  /\ \A t \in Tops : ~Expired(t)
  /\ \/ heap = {} /\ crowd' = FALSE /\ UNCHANGED alarm
     \/ crowd' \in {FALSE, crowd} /\ \E t \in Tops : alarm' = Arm(rem[t])
     \/ /\ crowd /\ crowd' = TRUE
        /\ \E d \in Delays : \E r \in Overdue .. d :
             (\A t \in heap : r <= rem[t]) /\ alarm' = Arm(r)
  /\ lpc' = "idle"
  /\ since' = 0
  /\ UNCHANGED <<threads, rem, heap, valid, tasks, cur, cancelled>>

-----------------------------------------------------------------------------
\* Time passes.
Later(r) == IF r > Overdue THEN r - 1 ELSE Overdue

Tick ==
  /\ rem' = [t \in Timer |-> Later(rem[t])]
  /\ alarm' = IF alarm \in {None, 0} THEN alarm ELSE alarm - 1
  /\ IF lpc \in {"handle", "call"}
     THEN since < MaxStall /\ since' = since + 1
     ELSE UNCHANGED since
  /\ UNCHANGED <<threads, heap, crowd, valid, tasks, lpc, cur, cancelled>>

-----------------------------------------------------------------------------
HandleStep ==
  \/ Report \/ HandleExpired \/ CallTop \/ SkipTop \/ CallbackReturns \/ HandleEnds

Next ==
  \/ HandleStep \/ RunTask \/ Tick
  \/ \E t \in Timer, d \in Delays, i \in Intervals :
       AddInLoop(t, d, i) \/ AddFromThread(t, d, i)
  \/ \E t \in Timer : RemoveInLoop(t) \/ RemoveFromThread(t)
  \/ \E d \in Delays : AddOther(d)

Spec == Init /\ [][Next]_vars

\* The loop goes on, it runs its tasks, and time passes.
FairSpec == Spec /\ WF_vars(HandleStep) /\ WF_vars(RunTask) /\ WF_vars(Tick)
-----------------------------------------------------------------------------
TypeOK ==
  /\ made \subseteq Timer
  /\ rem \in [Timer -> Int]
  /\ interval \in [Timer -> Nat]
  /\ heap \subseteq made
  /\ crowd \in BOOLEAN
  /\ valid \subseteq made
  /\ alarm \in Nat \union {None}
  /\ tasks \in Seq({"insert", "erase"} \X made)
  /\ asked \subseteq made
  /\ lpc \in {"idle", "batch", "handle", "call"}
  /\ cur \in made \union {None}
  /\ lpc = "call" <=> cur # None
  /\ since \in Nat
  /\ cancelled \subseteq made

\* No timer is forgotten: while the loop is not in handle_exprired, nor about to
\* be, timer_fd is set whenever a timer waits, although it is set for some of the
\* insertions only and read by handlers that other handlers overtake.
HeapIsArmed == Waiting /\ lpc = "idle" => alarm # None

\* An id is kept only for a timer that waits or runs: ids are not leaked, whatever
\* the order of callbacks, insertions and removals.
ValidTimersAreKept == valid \subseteq heap \union {cur}

\* A timer that was removed while it waited is never called again, not even when
\* the removal comes from the callback of another timer in the same pass.
CancelledStaysCancelled == cancelled \intersect valid = {} /\ cur \notin cancelled

\* A new timer moves timer_fd further away: it is set for the new one, whose
\* address is the less, and MinArm away at least.
Postpones == \E d \in Delays : AddOther(d) /\ alarm \in Nat /\ alarm' > alarm

\* A timer that waits is called or found removed in the end, unless for ever new
\* timers come and move timer_fd away before it expires (TimerQueue.h:108 and
\* TimerQueue.cpp:97-101 let them).  That timer_fd was once set for another timer,
\* or read by a pass for which it was too early, loses none.
EveryTimerIsServed ==
  []<><<Postpones>>_vars \/ \A t \in Timer : t \in heap ~> t \notin heap

\* A pass of handle_exprired comes to its end, although callbacks add timers and
\* repeating timers go back into the heap that it empties.
PassEnds == lpc = "handle" ~> lpc = "idle"

\* The timeouts are handled (README.md:3), so
\* timer_fd is set no later than write_timer_fd would set it for the head of the
\* heap.  (The code does not keep it.)
AlarmIsInTime ==
  lpc = "idle" /\ alarm # None =>
    \A t \in heap : alarm <= MinArm \/ alarm <= rem[t]
=============================================================================
