----------------------------- MODULE TaskQueue -----------------------------
(***************************************************************************)
(* net/eventloop/TaskQueue.cpp and the part of EventLoop::run and          *)
(* EpollSelector::select that serves it.  A thread pushes a callback into  *)
(* the lock-free queue and then writes an eventfd that the loop's epoll    *)
(* instance watches edge-triggered.  The loop sleeps in epoll_wait; woken  *)
(* by the eventfd it reads the counter back to 0 and drains the queue.     *)
(*                                                                         *)
(* A thread may be stopped between any two of its steps, so the queue, the *)
(* counter and the edge are out of step with one another most of the time. *)
(* The code is right if the loop never goes to sleep on a task that nobody *)
(* is going to wake it for: epoll's timeout does not look at the queue.    *)
(***************************************************************************)
EXTENDS MpscQueue

VARIABLES
  efd,    \* the counter of the eventfd wakeup_fd
  edge,   \* wakeup_fd is on the ready list of the epoll instance
  lpc     \* where the loop's thread is: "top" of the while of run, "wait" in
          \* epoll_wait, "read" about to handle the wakeup, "drain" in the
          \* while of handle_wakeup, "run" in the callback

loopVars == <<efd, edge, lpc>>
taskVars == <<mpscVars, loopVars>>

\* The constructor creates the eventfd with 0 and registers it for reading.
TaskQueueInit ==
  /\ MpscInit
  /\ efd = 0
  /\ edge = FALSE
  /\ lpc = "top"

-----------------------------------------------------------------------------
\* push: tasks.enqueue(cb), in the two steps of enqueue ...
PushExchange(p) == Exchange(p) /\ UNCHANGED loopVars

PushLink(p) == Link(p) /\ UNCHANGED loopVars

\* Mutant of WriteEventFd: the write fails, which the code does not look at.
WriteFails(p) == Return(p) /\ UNCHANGED loopVars

\* ... then write_event_fd.  Every write is an edge, whatever the counter was.
WriteEventFd(p) ==
  /\ Return(p)
  /\ efd' = efd + 1
  /\ edge' = TRUE
  /\ UNCHANGED lpc

\* The wakeup is due: the descriptor is on the ready list and, polled again by
\* epoll_wait, it is readable.
WakeupDue == edge /\ efd > 0

\* select: epoll_wait is entered.
EnterSelect ==
  /\ lpc = "top"
  /\ lpc' = "wait"
  /\ UNCHANGED <<mpscVars, efd, edge>>

\* epoll_wait reports wakeup_fd and drops it from the ready list.  Handlers of
\* other descriptors in the same batch may run before handle_wakeup does.
SelectWakeup ==
  /\ lpc = "wait"
  /\ WakeupDue
  /\ edge' = FALSE
  /\ lpc' = "read"
  /\ UNCHANGED <<mpscVars, efd>>

\* epoll_wait returns without wakeup_fd: at its timeout, or for events of other
\* descriptors.  A due wakeup stays on the ready list if the others filled the
\* event buffer; a stale entry, not readable any more, goes.
SelectOther ==
  /\ lpc = "wait"
  /\ edge' = WakeupDue
  /\ lpc' = "top"
  /\ UNCHANGED <<mpscVars, efd>>

\* handle_wakeup: read_event_fd resets the counter.
ReadEventFd ==
  /\ lpc = "read"
  /\ efd' = 0
  /\ lpc' = "drain"
  /\ UNCHANGED <<mpscVars, edge>>

\* handle_wakeup: while (tasks.dequeue(func)) func().
DrainLoad ==
  /\ lpc = "drain"
  /\ DequeueLoad
  /\ UNCHANGED loopVars

DrainTake ==
  /\ lpc = "drain"
  /\ DequeueTake
  /\ lpc' = "run"
  /\ UNCHANGED <<efd, edge>>

\* Mutant of RunTask: one callback per wakeup, if instead of while.
RunOneTask ==
  /\ lpc = "run"
  /\ lpc' = "top"
  /\ UNCHANGED <<mpscVars, efd, edge>>

RunTask ==
  /\ lpc = "run"
  /\ lpc' = "drain"
  /\ UNCHANGED <<mpscVars, efd, edge>>

DrainFalse ==
  /\ lpc = "drain"
  /\ DequeueFalse
  /\ lpc' = "top"
  /\ UNCHANGED <<efd, edge>>

-----------------------------------------------------------------------------
Loop ==
  \/ EnterSelect \/ SelectWakeup \/ SelectOther
  \/ ReadEventFd \/ DrainLoad \/ DrainTake \/ RunTask \/ DrainFalse

Finish(p) == PushLink(p) \/ WriteEventFd(p)

TaskQueueNext == Loop \/ \E p \in Producers : PushExchange(p) \/ Finish(p)

TaskQueueSpec == TaskQueueInit /\ [][TaskQueueNext]_taskVars

\* The scheduler runs the loop's thread, and a thread inside push gets through
\* it (it has no lock to wait for).  epoll serves its ready list in turn, so a
\* wakeup that stays due is reported.  Nothing says that anyone ever pushes.
TaskQueueFairness ==
  /\ WF_taskVars(Loop)
  /\ SF_taskVars(SelectWakeup)
  /\ \A p \in Producers : WF_taskVars(Finish(p))

TaskQueueFairSpec == TaskQueueSpec /\ TaskQueueFairness
-----------------------------------------------------------------------------
TaskQueueTypeOK ==
  /\ MpscTypeOK
  /\ efd \in Nat
  /\ edge \in BOOLEAN
  /\ lpc \in {"top", "wait", "read", "drain", "run"}

\* No lost wakeup: while the loop sleeps or is about to, a task that dequeue
\* would find has its wakeup pending, or the thread that completed the list is
\* on its way to the eventfd.  (That thread need not be the task's: it may be
\* the one whose late store closed the gap before the task.)
NoLostWakeup ==
  lpc \in {"top", "wait"} /\ next[tail] # Null =>
    WakeupDue \/ \E p \in Producers : pc[p] = "linked"

\* When the loop sleeps with no wakeup due and no thread is inside push, every
\* task ever pushed has been taken.
SleepsOnlyWhenDone ==
  /\ lpc = "wait"
  /\ ~WakeupDue
  /\ \A p \in Producers : pc[p] = "idle"
  => Len(out) = Len(log)

\* Every task pushed is taken in the end, once, in the order of the exchanges,
\* although the loop may sleep without limit and epoll reports edges only.
EveryTaskIsTaken == Fifo!FairSpec
=============================================================================
