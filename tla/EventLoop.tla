----------------------------- MODULE EventLoop -----------------------------
(***************************************************************************)
(* EventLoop::call_soon, close, run and ~EventLoop                         *)
(* (net/eventloop/ThreadingEventLoop.h and .cpp) around the task queue.    *)
(*                                                                         *)
(* A callback handed over by the loop's own thread is called at once while *)
(* the loop is open; any other goes through the task queue, unless _closed *)
(* was set when the caller looked.  close sets _close and hands over an    *)
(* empty callback to wake the loop; run leaves its while at the next test  *)
(* of _close and sets _closed; then EventLoopThread::start_loop returns    *)
(* and destroys the loop, its queue and its descriptors.  The flags are    *)
(* plain bools, read and written by all the threads in single steps.       *)
(***************************************************************************)
EXTENDS TaskQueue

CONSTANT Self   \* the loop's own thread, one of those that call call_soon

ASSUME SelfAssumption == Self \in Producers

VARIABLES
  closing,   \* _close
  closed,    \* _closed
  call,      \* call[p]: "none" outside the loop's methods, "close" in close
             \* past its test, "soon" in the call_soon of close, "push" in
             \* the push of call_soon
  fds        \* the descriptors of the loop that are open

closeVars == <<closing, closed, call, fds>>
eventVars == <<taskVars, closeVars>>

EventLoopInit ==
  /\ TaskQueueInit
  /\ closing = FALSE
  /\ closed = FALSE
  /\ call = [p \in Producers |-> "none"]
  /\ fds = {"epoll_fd", "wakeup_fd", "timer_fd"}

-----------------------------------------------------------------------------
\* The loop's own thread calls methods of the loop from callbacks and from the
\* handlers of the other descriptors, before or after handle_wakeup.  A loop
\* that was destroyed has no more callers; a thread that is still inside one
\* of its methods then is stopped here, what it would do being undefined.
MayStep(p) ==
  /\ lpc # "gone"
  /\ p = Self => lpc \in {"top", "read", "run"}

\* A thread calls a method of the loop (bound: MaxPush pushes of each).
MayCall(p) == MayStep(p) /\ call[p] = "none" /\ count[p] < MaxPush

\* call_soon evaluates its conditions, for a callback of the caller or for the
\* empty one of close.
CallSoon(p) == MayCall(p) \/ (MayStep(p) /\ call[p] = "soon")

\* within_self_thread() && !_close: the callback is called here and now.
CallSoonInline(p) ==
  /\ CallSoon(p)
  /\ p = Self /\ ~closing
  /\ call' = [call EXCEPT ![p] = "none"]
  /\ UNCHANGED <<taskVars, closing, closed, fds>>

\* Mutant of CallSoonPush: the loop's own thread may push while the loop is open.
CallSoonPushAnyway(p) ==
  /\ CallSoon(p)
  /\ ~closed
  /\ call' = [call EXCEPT ![p] = "push"]
  /\ UNCHANGED <<taskVars, closing, closed, fds>>

\* !_closed: the callback will be pushed.
CallSoonPush(p) ==
  /\ CallSoon(p)
  /\ ~(p = Self /\ ~closing)
  /\ ~closed
  /\ call' = [call EXCEPT ![p] = "push"]
  /\ UNCHANGED <<taskVars, closing, closed, fds>>

\* Neither: the callback is dropped without notice.
CallSoonDrop(p) ==
  /\ CallSoon(p)
  /\ ~(p = Self /\ ~closing)
  /\ closed
  /\ call' = [call EXCEPT ![p] = "none"]
  /\ UNCHANGED <<taskVars, closing, closed, fds>>

\* close: the test of _close, and its assignment.  When the test fails close
\* does nothing.
CloseTest(p) ==
  /\ MayCall(p)
  /\ ~closing
  /\ call' = [call EXCEPT ![p] = "close"]
  /\ UNCHANGED <<taskVars, closing, closed, fds>>

\* Mutant of CloseSet: nothing is handed over to wake the loop.
CloseWakesNobody(p) ==
  /\ MayStep(p)
  /\ call[p] = "close"
  /\ closing' = TRUE
  /\ call' = [call EXCEPT ![p] = "none"]
  /\ UNCHANGED <<taskVars, closed, fds>>

CloseSet(p) ==
  /\ MayStep(p)
  /\ call[p] = "close"
  /\ closing' = TRUE
  /\ call' = [call EXCEPT ![p] = "soon"]
  /\ UNCHANGED <<taskVars, closed, fds>>

\* taskq.push, the three steps of TaskQueue.
PushStep(p) ==
  /\ MayStep(p)
  /\ call[p] = "push"
  /\ \/ (PushExchange(p) \/ PushLink(p)) /\ UNCHANGED call
     \/ WriteEventFd(p) /\ call' = [call EXCEPT ![p] = "none"]
  /\ UNCHANGED <<closing, closed, fds>>

-----------------------------------------------------------------------------
\* run: one turn of while (!_close).  A callback or handler that is inside a
\* method of the loop has to return first.
TurnOfRun ==
  /\ call[Self] = "none"
  /\ Loop
  /\ lpc = "top" => ~closing
  /\ UNCHANGED closeVars

\* run: _close is seen, _closed is set, run returns.
Exit ==
  /\ call[Self] = "none"
  /\ lpc = "top" /\ closing
  /\ closed' = TRUE
  /\ lpc' = "exited"
  /\ UNCHANGED <<mpscVars, efd, edge, closing, call, fds>>

\* ~TaskQueue and ~TimerQueue close their descriptors in a callback that they
\* hand to call_soon, in the loop's thread.
ClosedByDestructors ==
  IF closing THEN {"epoll_fd"} ELSE {"epoll_fd", "wakeup_fd", "timer_fd"}

\* ~EventLoop: the queue's destructor takes the values within its reach, up to
\* the first gap, deleting the nodes before them, and then deletes the head.
\* In the mutant it does not.
Destruction(gap, last) ==
  /\ lpc = "exited"
  /\ lpc' = "gone"
  /\ fds' = fds \ ClosedByDestructors
  /\ Broken(gap) /\ \A i \in 1 .. gap - 1 : ~Broken(i)
  /\ live' = live \ ({chain[i] : i \in 1 .. gap - 1} \union last)
  /\ tail' = chain[gap]
  /\ UNCHANGED <<head, next, data, producer, cnext, history, efd, edge,
                 closing, closed, call>>

DestroyKeepsHead == \E gap \in 1 .. Len(chain) : Destruction(gap, {})

Destroy == \E gap \in 1 .. Len(chain) : Destruction(gap, {head})

-----------------------------------------------------------------------------
CallStep(p) ==
  \/ CallSoonInline(p) \/ CallSoonPush(p) \/ CallSoonDrop(p)
  \/ CloseTest(p) \/ CloseSet(p) \/ PushStep(p)

EventLoopNext ==
  \/ TurnOfRun \/ Exit \/ Destroy
  \/ \E p \in Producers : CallStep(p)

EventLoopSpec == EventLoopInit /\ [][EventLoopNext]_eventVars

\* A thread that is inside a method goes on, and so does the loop's thread, but
\* epoll_wait need never time out and no other descriptor need be ready.
Continue(p) == call[p] # "none" /\ CallStep(p)

EventLoopFairSpec ==
  /\ EventLoopSpec
  /\ WF_eventVars(Exit \/ (TurnOfRun /\ ~(lpc = "wait" /\ ~WakeupDue)))
  /\ \A p \in Producers : WF_eventVars(Continue(p))
-----------------------------------------------------------------------------
EventLoopTypeOK ==
  /\ MpscTypeOK
  /\ efd \in Nat
  /\ edge \in BOOLEAN
  /\ lpc \in {"top", "wait", "read", "drain", "run", "exited", "gone"}
  /\ closing \in BOOLEAN
  /\ closed \in BOOLEAN
  /\ call \in [Producers -> {"none", "close", "soon", "push"}]
  /\ fds \subseteq {"epoll_fd", "wakeup_fd", "timer_fd"}

\* A loop that exits leaves no task behind that it was told of: what dequeue
\* would still find was completed after the loop's last drain, so its wakeup
\* has not been delivered.
ExitLeavesOnlyNewTasks ==
  lpc = "exited" /\ next[tail] # Null =>
    WakeupDue \/ \E p \in Producers : pc[p] = "linked"

\* close ends the loop at once: asleep in epoll_wait without limit, it is woken
\* by the empty callback.
CloseEndsTheLoop == closing ~> closed

\* Callbacks of the loop's own thread keep their order: while that thread would
\* call a callback at once, none of its own is still waiting in the queue, so no
\* direct call overtakes an earlier call_soon of the same thread.
OwnCallsKeepOrder ==
  ~closing => \A i \in Len(out) + 1 .. Len(log) : log[i][1] # Self

\* A loop destroyed while no thread is between the two steps of enqueue frees
\* every node of its queue, those of the tasks that it drops included.
ExitFreesNodes ==
  lpc = "gone" /\ (\A p \in Producers : pc[p] # "link") => live = {}

\* "Only resourse operations outsise mpsc queue needs to run in the loop's
\* thread" (TaskQueue.h:16): the release of the descriptors is handed to the
\* loop, so a loop that is gone holds none.  (The code does not keep it.)
DescriptorsReleased == lpc = "gone" => fds = {}
=============================================================================
