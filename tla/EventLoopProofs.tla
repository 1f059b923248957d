-------------------------- MODULE EventLoopProofs --------------------------
(***************************************************************************)
(* Proofs about TaskQueue, and about EventLoop, which closes it.           *)
(*                                                                         *)
(* Every step of the task queue is a step of the queue inside it or leaves *)
(* that alone, so what MpscQueueProofs proves carries over; what is new is *)
(* that no wakeup is lost.  Until the loop is destroyed its queue is that  *)
(* one; afterwards nothing moves any more.                                 *)
(***************************************************************************)
EXTENDS EventLoop, MpscQueueProofs

\* The inductive invariant.
TaskQueueInv ==
  /\ MpscInv
  /\ TaskQueueTypeOK
  /\ NoLostWakeup

LEMMA StepOfTaskQueueIsStepOfMpscQueue ==
  [TaskQueueNext]_taskVars => [MpscNext]_mpscVars
<1> SUFFICES ASSUME [TaskQueueNext]_taskVars PROVE MpscNext \/ UNCHANGED mpscVars
  OBVIOUS
<1>1. CASE Loop
  BY <1>1
     DEF Loop, EnterSelect, SelectWakeup, SelectOther, ReadEventFd, DrainLoad,
         DrainTake, RunTask, DrainFalse, MpscNext
<1>2. CASE \E p \in Producers : PushExchange(p) \/ Finish(p)
  BY <1>2 DEF PushExchange, Finish, PushLink, WriteEventFd, MpscNext
<1>3. CASE UNCHANGED taskVars
  BY <1>3 DEF taskVars
<1> QED
  BY <1>1, <1>2, <1>3 DEF TaskQueueNext

\* A push that has not linked its node yet changes nothing within dequeue's reach.
LEMMA ExchangeIsOutOfReach ==
  ASSUME MpscInv, NEW p \in Producers, Exchange(p)
  PROVE  /\ next'[tail'] = next[tail]
         /\ \A q \in Producers : pc[q] = "linked" => pc'[q] = "linked"
<1>1. PICK n \in Node \ live : next' = [next EXCEPT ![n] = Null]
  BY DEF Exchange
<1>2. tail' = tail /\ pc[p] = "idle" /\ pc' = [pc EXCEPT ![p] = "link"]
  BY DEF Exchange
<1>3. MpscTypeOK /\ tail \in live
  BY ElementFacts DEF MpscInv, MpscTypeOK, ChainInv, ChainIsMemory
<1> QED
  BY <1>1, <1>2, <1>3 DEF MpscTypeOK

-----------------------------------------------------------------------------
LEMMA InitTaskQueueInv == TaskQueueInit => TaskQueueInv
<1> SUFFICES ASSUME TaskQueueInit PROVE TaskQueueInv
  OBVIOUS
<1>1. MpscInv
  BY InitMpscInv DEF TaskQueueInit
<1>2. next[tail] = Null
  BY DEF TaskQueueInit, MpscInit
<1> QED
  BY <1>1, <1>2 DEF TaskQueueInit, TaskQueueInv, MpscInv, TaskQueueTypeOK, NoLostWakeup

LEMMA NextKeepsTaskQueueInv ==
  TaskQueueInv /\ [TaskQueueNext]_taskVars => TaskQueueInv'
<1> SUFFICES ASSUME TaskQueueInv, [TaskQueueNext]_taskVars PROVE TaskQueueInv'
  OBVIOUS
<1>1. MpscInv'
  BY StepOfTaskQueueIsStepOfMpscQueue, NextKeepsMpscInv DEF TaskQueueInv
<1> SUFFICES TaskQueueTypeOK' /\ NoLostWakeup'
  BY <1>1 DEF TaskQueueInv
<1>2. MpscTypeOK /\ MpscTypeOK'
  BY <1>1 DEF TaskQueueInv, MpscInv
<1>3. TaskQueueTypeOK /\ NoLostWakeup
  BY DEF TaskQueueInv
<1>4. ASSUME NEW p \in Producers, PushExchange(p)
      PROVE  TaskQueueTypeOK' /\ NoLostWakeup'
  <2>1. Exchange(p) /\ UNCHANGED <<efd, edge, lpc>>
    BY <1>4 DEF PushExchange, loopVars
  <2>2. /\ next'[tail'] = next[tail]
        /\ \A q \in Producers : pc[q] = "linked" => pc'[q] = "linked"
    BY <2>1, ExchangeIsOutOfReach DEF TaskQueueInv
  <2> QED
    BY <1>2, <1>3, <2>1, <2>2 DEF TaskQueueTypeOK, NoLostWakeup, WakeupDue
<1>5. ASSUME NEW p \in Producers, PushLink(p)
      PROVE  TaskQueueTypeOK' /\ NoLostWakeup'
  <2>1. pc'[p] = "linked" /\ UNCHANGED <<efd, edge, lpc>>
    BY <1>2, <1>5 DEF PushLink, Link, loopVars, MpscTypeOK
  <2> QED
    BY <1>2, <1>3, <2>1 DEF TaskQueueTypeOK, NoLostWakeup
<1>6. ASSUME NEW p \in Producers, WriteEventFd(p)
      PROVE  TaskQueueTypeOK' /\ NoLostWakeup'
  BY <1>2, <1>3, <1>6 DEF WriteEventFd, TaskQueueTypeOK, NoLostWakeup, WakeupDue
<1>7. CASE EnterSelect \/ SelectOther
  <2>1. next' = next /\ tail' = tail /\ pc' = pc /\ efd' = efd
    BY <1>7 DEF EnterSelect, SelectOther, mpscVars, memory, producer
  <2>2. lpc \in {"top", "wait"} /\ lpc' \in {"top", "wait"}
    BY <1>7 DEF EnterSelect, SelectOther
  <2>3. edge' \in BOOLEAN /\ (WakeupDue => WakeupDue')
    BY <1>3, <1>7, <2>1 DEF EnterSelect, SelectOther, WakeupDue, TaskQueueTypeOK
  <2>4. TaskQueueTypeOK'
    BY <1>2, <1>3, <2>1, <2>2, <2>3 DEF TaskQueueTypeOK
  <2> QED
    BY <1>3, <2>1, <2>2, <2>3, <2>4 DEF NoLostWakeup
<1>8. CASE SelectWakeup \/ ReadEventFd \/ DrainLoad \/ DrainTake \/ RunTask
  <2>1. lpc' \in {"read", "drain", "run"}
    BY <1>8 DEF SelectWakeup, ReadEventFd, DrainLoad, DrainTake, RunTask, loopVars
  <2>2. TaskQueueTypeOK'
    <3>1. edge' = edge \/ edge' = FALSE
      BY <1>8 DEF SelectWakeup, ReadEventFd, DrainLoad, DrainTake, RunTask, loopVars
    <3>2. efd' = efd \/ efd' = 0
      BY <1>8 DEF SelectWakeup, ReadEventFd, DrainLoad, DrainTake, RunTask, loopVars
    <3>3. edge' \in BOOLEAN
      BY <1>3, <3>1, Zenon DEF TaskQueueTypeOK
    <3> QED
      BY <1>2, <1>3, <2>1, <3>2, <3>3 DEF TaskQueueTypeOK
  <2> QED
    BY <2>1, <2>2 DEF NoLostWakeup
\* The loop goes back to sleep on what dequeue has just told it.
<1>9. CASE DrainFalse
  <2>1. next'[tail'] = Null /\ lpc' = "top" /\ UNCHANGED <<efd, edge>>
    BY <1>9 DEF DrainFalse, DequeueFalse, mpscVars, memory
  <2> QED
    BY <1>2, <1>3, <2>1 DEF TaskQueueTypeOK, NoLostWakeup
<1>10. CASE UNCHANGED taskVars
  <2>1. UNCHANGED <<next, tail, pc, efd, edge, lpc>>
    BY <1>10 DEF taskVars, loopVars, mpscVars, memory, producer
  <2>2. TaskQueueTypeOK'
    BY <1>2, <1>3, <2>1 DEF TaskQueueTypeOK
  <2> QED
    BY <1>3, <2>1, <2>2 DEF NoLostWakeup, WakeupDue
<1>11. CASE Loop
  BY <1>7, <1>8, <1>9, <1>11 DEF Loop
<1>12. CASE \E p \in Producers : PushExchange(p) \/ Finish(p)
  BY <1>4, <1>5, <1>6, <1>12 DEF Finish
<1> QED
  BY <1>10, <1>11, <1>12 DEF TaskQueueNext

\* The invariant holds in every state of the loop.
THEOREM TaskQueueInvariance == TaskQueueSpec => []TaskQueueInv
  BY InitTaskQueueInv, NextKeepsTaskQueueInv, PTL DEF TaskQueueSpec

-----------------------------------------------------------------------------
\* The variables keep their types (TaskQueue.cpp:24-73).
THEOREM TaskQueueTypeCorrect == TaskQueueSpec => []TaskQueueTypeOK
<1>1. TaskQueueInv => TaskQueueTypeOK
  BY DEF TaskQueueInv
<1> QED
  BY <1>1, TaskQueueInvariance, PTL

\* push writes the eventfd after it linked its node and handle_wakeup reads it
\* before it drains, so the loop is woken for all it can reach (TaskQueue.cpp:24-30,
\* 63-67).
THEOREM NoWakeupIsLost == TaskQueueSpec => []NoLostWakeup
<1>1. TaskQueueInv => NoLostWakeup
  BY DEF TaskQueueInv
<1> QED
  BY <1>1, TaskQueueInvariance, PTL

\* The task queue implements the abstract log (TaskQueue.cpp:24-30, 63-67).
THEOREM TaskQueueIsFifo == TaskQueueSpec => FifoSpec
<1>1. TaskQueueInit => MpscInit
  BY DEF TaskQueueInit
<1>2. TaskQueueSpec => MpscSpec
  BY <1>1, StepOfTaskQueueIsStepOfMpscQueue, PTL DEF TaskQueueSpec, MpscSpec
<1> QED
  BY <1>2, QueueIsFifo, PTL

\* A loop that sleeps unwoken while nobody is pushing has run every task
\* (TaskQueue.cpp:24-30, EpollSelector.cpp:22-28).
THEOREM SleepingLoopIsDone == TaskQueueSpec => []SleepsOnlyWhenDone
<1>1. ASSUME TaskQueueInv, EmptyAnswerIsJustified PROVE SleepsOnlyWhenDone
  <2> SUFFICES ASSUME lpc = "wait", ~WakeupDue, \A p \in Producers : pc[p] = "idle"
               PROVE  Len(out) = Len(log)
    BY DEF SleepsOnlyWhenDone
  <2>1. next[tail] = Null
    BY <1>1 DEF TaskQueueInv, NoLostWakeup
  <2>2. ~(Len(out) < Len(log))
    BY <1>1, <2>1 DEF EmptyAnswerIsJustified
  <2>3. Len(out) \in Nat /\ Len(log) \in Nat /\ Len(out) <= Len(log)
    BY <1>1, ElementFacts DEF TaskQueueInv, MpscInv, MpscTypeOK, ChainInv, ChainIsMemory
  <2> QED
    BY <2>2, <2>3
<1>2. TaskQueueInit => MpscInit
  BY DEF TaskQueueInit
<1>3. TaskQueueSpec => []EmptyAnswerIsJustified
  BY <1>2, StepOfTaskQueueIsStepOfMpscQueue, EmptyAnswersAreJustified, PTL
     DEF TaskQueueSpec, MpscSpec
<1> QED
  BY <1>1, <1>3, TaskQueueInvariance, PTL

-----------------------------------------------------------------------------
\* What dequeue would find while the loop is not draining has its wakeup pending.
NothingForgotten ==
  lpc \in {"top", "wait", "exited"} /\ next[tail] # Null =>
    WakeupDue \/ \E p \in Producers : pc[p] = "linked"

\* The loop's own thread pushes nothing before the loop is closed.
OwnThreadPushesLate ==
  ~closing =>
    /\ call[Self] \in {"none", "close"}
    /\ \A i \in 1 .. Len(log) : log[i][1] # Self

\* The inductive invariant.
EventLoopInv ==
  /\ lpc # "gone" => MpscInv
  /\ EventLoopTypeOK
  /\ NothingForgotten
  /\ OwnThreadPushesLate
  /\ ExitFreesNodes

-----------------------------------------------------------------------------
LEMMA StepOfEventLoop ==
  ASSUME [EventLoopNext]_eventVars
  PROVE  /\ lpc = "gone" => UNCHANGED eventVars
         /\ [MpscNext]_mpscVars \/ Destroy
<1>1. CASE TurnOfRun
  <2>1. Loop /\ [TaskQueueNext]_taskVars
    BY <1>1 DEF TurnOfRun, TaskQueueNext
  <2>2. lpc # "gone"
    BY <2>1
       DEF Loop, EnterSelect, SelectWakeup, SelectOther, ReadEventFd, DrainLoad,
           DrainTake, RunTask, DrainFalse
  <2> QED
    BY <2>1, <2>2, StepOfTaskQueueIsStepOfMpscQueue
<1>2. CASE Exit \/ Destroy
  BY <1>2 DEF Exit, Destroy, Destruction
<1>3. ASSUME NEW p \in Producers, CallStep(p)
      PROVE  lpc # "gone" /\ [MpscNext]_mpscVars
  BY <1>3
     DEF CallStep, CallSoonInline, CallSoonPush, CallSoonDrop, CallSoon, MayCall,
         MayStep, CloseTest, CloseSet, PushStep, PushExchange, PushLink,
         WriteEventFd, MpscNext, taskVars
<1>4. CASE UNCHANGED eventVars
  BY <1>4 DEF eventVars, taskVars
<1> QED
  BY <1>1, <1>2, <1>3, <1>4 DEF EventLoopNext

LEMMA InitEventLoopInv == EventLoopInit => EventLoopInv
<1> SUFFICES ASSUME EventLoopInit PROVE EventLoopInv
  OBVIOUS
<1>1. TaskQueueInv /\ lpc = "top" /\ log = << >>
  BY InitTaskQueueInv DEF EventLoopInit, TaskQueueInit, MpscInit
<1>2. MpscInv /\ TaskQueueTypeOK /\ NoLostWakeup
  BY <1>1 DEF TaskQueueInv
<1>3. EventLoopTypeOK
  BY <1>2 DEF EventLoopInit, EventLoopTypeOK, TaskQueueTypeOK
<1>4. NothingForgotten
  BY <1>1, <1>2 DEF NothingForgotten, NoLostWakeup
<1>5. OwnThreadPushesLate
  BY <1>1, SelfAssumption DEF EventLoopInit, OwnThreadPushesLate
<1> QED
  BY <1>1, <1>2, <1>3, <1>4, <1>5 DEF EventLoopInv, ExitFreesNodes

\* One turn of the loop, the queue's variables apart.
LEMMA TurnKeepsInv ==
  ASSUME EventLoopInv, MpscInv, MpscInv', TurnOfRun
  PROVE  EventLoopInv'
<1>1. MpscTypeOK /\ MpscTypeOK'
  BY DEF MpscInv
<1>2. EventLoopTypeOK /\ NothingForgotten /\ OwnThreadPushesLate
  BY DEF EventLoopInv
<1>3. Loop /\ UNCHANGED <<closing, closed, call, fds>>
  BY DEF TurnOfRun, closeVars
<1>4. lpc' \in {"top", "wait", "read", "drain", "run"}
  BY <1>3
     DEF Loop, EnterSelect, SelectWakeup, SelectOther, ReadEventFd, DrainLoad,
         DrainTake, RunTask, DrainFalse, loopVars
<1>5. edge' \in BOOLEAN
  <2>1. edge' = edge \/ edge' = FALSE \/ edge' = WakeupDue
    BY <1>3
       DEF Loop, EnterSelect, SelectWakeup, SelectOther, ReadEventFd, DrainLoad,
           DrainTake, RunTask, DrainFalse, loopVars
  <2>2. edge \in BOOLEAN
    BY <1>2 DEF EventLoopTypeOK
  <2>3. WakeupDue \in BOOLEAN
    BY <2>2 DEF WakeupDue
  <2> QED
    BY <2>1, <2>2, <2>3, Zenon
<1>6. efd' = efd \/ efd' = 0
  BY <1>3
     DEF Loop, EnterSelect, SelectWakeup, SelectOther, ReadEventFd, DrainLoad,
         DrainTake, RunTask, DrainFalse, loopVars
<1>7. EventLoopTypeOK'
  BY <1>1, <1>2, <1>3, <1>4, <1>5, <1>6 DEF EventLoopTypeOK
<1>8. NothingForgotten'
  <2>1. CASE EnterSelect \/ SelectOther
    <3>1. next' = next /\ tail' = tail /\ pc' = pc /\ efd' = efd
      BY <2>1 DEF EnterSelect, SelectOther, mpscVars, memory, producer
    <3>2. lpc \in {"top", "wait"}
      BY <2>1 DEF EnterSelect, SelectOther
    <3>3. WakeupDue => WakeupDue'
      BY <2>1, <3>1 DEF EnterSelect, SelectOther, WakeupDue
    <3> QED
      BY <1>2, <3>1, <3>2, <3>3 DEF NothingForgotten
  <2>2. CASE SelectWakeup \/ ReadEventFd \/ DrainLoad \/ DrainTake \/ RunTask
    <3>1. lpc' \in {"read", "drain", "run"}
      BY <2>2 DEF SelectWakeup, ReadEventFd, DrainLoad, DrainTake, RunTask, loopVars
    <3> QED
      BY <3>1 DEF NothingForgotten
  <2>3. CASE DrainFalse
    <3>1. next'[tail'] = Null
      BY <2>3 DEF DrainFalse, DequeueFalse, mpscVars, memory
    <3> QED
      BY <3>1 DEF NothingForgotten
  <2> QED
    BY <1>3, <2>1, <2>2, <2>3 DEF Loop
<1>9. OwnThreadPushesLate'
  <2>1. log' = log
    BY <1>3
       DEF Loop, EnterSelect, SelectWakeup, SelectOther, ReadEventFd, DrainLoad,
           DrainTake, RunTask, DrainFalse, loopVars, DequeueLoad, DequeueTake, Take,
           DequeueFalse, mpscVars, history
  <2> QED
    BY <1>2, <1>3, <2>1 DEF OwnThreadPushesLate
<1> QED
  BY <1>4, <1>7, <1>8, <1>9 DEF EventLoopInv, ExitFreesNodes

\* A thread that calls a method of the loop, one of its steps.
LEMMA CallKeepsInv ==
  ASSUME EventLoopInv, MpscInv, MpscInv', NEW p \in Producers, CallStep(p)
  PROVE  EventLoopInv'
<1>1. MpscTypeOK /\ MpscTypeOK'
  BY DEF MpscInv
<1>2. EventLoopTypeOK /\ NothingForgotten /\ OwnThreadPushesLate
  BY DEF EventLoopInv
<1>3. lpc # "gone"
  BY DEF CallStep, CallSoonInline, CallSoonPush, CallSoonDrop, CallSoon, MayCall,
         MayStep, CloseTest, CloseSet, PushStep
<1>4. CASE CallSoonInline(p) \/ CallSoonPush(p) \/ CallSoonDrop(p) \/ CloseTest(p)
           \/ CloseSet(p)
  <2>1. UNCHANGED <<efd, edge, lpc, closed, fds>>
    BY <1>4
       DEF CallSoonInline, CallSoonPush, CallSoonDrop, CloseTest, CloseSet, taskVars, loopVars
  <2>2. UNCHANGED <<next, tail, pc, log>>
    BY <1>4
       DEF CallSoonInline, CallSoonPush, CallSoonDrop, CloseTest, CloseSet, taskVars,
           mpscVars, memory, producer, history
  <2>3. /\ closing' = closing \/ closing' = TRUE
        /\ \E c \in {"none", "push", "close", "soon"} : call' = [call EXCEPT ![p] = c]
    BY <1>4 DEF CallSoonInline, CallSoonPush, CallSoonDrop, CloseTest, CloseSet
  <2>4. closing' \in BOOLEAN
    BY <1>2, <2>3, Zenon DEF EventLoopTypeOK
  <2>5. EventLoopTypeOK'
    BY <1>1, <1>2, <2>1, <2>3, <2>4 DEF EventLoopTypeOK
  <2>6. NothingForgotten'
    BY <1>2, <2>1, <2>2 DEF NothingForgotten, WakeupDue
  <2>7. ASSUME ~closing' PROVE call'[Self] \in {"none", "close"} /\ ~closing
    <3>1. ~closing /\ call[Self] \in {"none", "close"}
      BY <1>2, <2>3, <2>7 DEF OwnThreadPushesLate
    <3>2. CASE p = Self
      <4>1. call' = [call EXCEPT ![p] = "none"] \/ call' = [call EXCEPT ![p] = "close"]
        BY <1>4, <2>7, <3>1, <3>2
           DEF CallSoonInline, CallSoonPush, CallSoonDrop, CloseTest, CloseSet
      <4> QED
        BY <1>2, <3>1, <3>2, <4>1 DEF EventLoopTypeOK
    <3>3. CASE p # Self
      BY <1>2, <2>3, <3>1, <3>3, SelfAssumption DEF EventLoopTypeOK
    <3> QED
      BY <3>2, <3>3
  <2>8. OwnThreadPushesLate'
    BY <1>2, <2>2, <2>7 DEF OwnThreadPushesLate
  <2> QED
    BY <1>3, <2>1, <2>5, <2>6, <2>8 DEF EventLoopInv, ExitFreesNodes
<1>5. CASE PushStep(p)
  <2>1. call[p] = "push" /\ UNCHANGED <<lpc, closing, closed, fds>>
    BY <1>5 DEF PushStep, PushExchange, PushLink, WriteEventFd, loopVars
  <2>2. call' = call \/ call' = [call EXCEPT ![p] = "none"]
    BY <1>5 DEF PushStep
  <2>3. CASE PushExchange(p)
    <3>1. Exchange(p) /\ efd' = efd /\ edge' = edge
      BY <2>3 DEF PushExchange, loopVars
    <3>2. EventLoopTypeOK'
      BY <1>1, <1>2, <2>1, <2>2, <3>1 DEF EventLoopTypeOK
    <3>3. /\ next'[tail'] = next[tail]
          /\ \A q \in Producers : pc[q] = "linked" => pc'[q] = "linked"
      BY <3>1, ExchangeIsOutOfReach
    <3>4. NothingForgotten'
      BY <1>2, <2>1, <3>1, <3>3 DEF NothingForgotten, WakeupDue
    <3>5. ASSUME ~closing
          PROVE  call'[Self] \in {"none", "close"} /\ \A i \in 1 .. Len(log') : log'[i][1] # Self
      <4>1. call[Self] \in {"none", "close"} /\ p # Self
        BY <1>2, <2>1, <3>5 DEF OwnThreadPushesLate
      <4>2. call'[Self] = call[Self]
        BY <1>2, <2>2, <4>1, SelfAssumption DEF EventLoopTypeOK
      <4>3. log' = Append(log, <<p, count[p] + 1>>) /\ <<p, count[p] + 1>> \in Task
        BY <1>1, <3>1 DEF Exchange, MpscTypeOK
      <4>4. \A i \in 1 .. Len(log) + 1 : log'[i][1] # Self
        BY <1>1, <1>2, <3>5, <4>1, <4>3, AppendFacts, ElementFacts
           DEF OwnThreadPushesLate, MpscTypeOK
      <4>5. Len(log') = Len(log) + 1
        BY <1>1, <4>3, AppendFacts DEF MpscTypeOK
      <4> QED
        BY <4>1, <4>2, <4>4, <4>5
    <3> QED
      BY <1>3, <2>1, <3>2, <3>4, <3>5 DEF EventLoopInv, OwnThreadPushesLate, ExitFreesNodes
  <2>4. CASE PushLink(p) \/ WriteEventFd(p)
    <3>1. log' = log
      BY <2>4 DEF PushLink, Link, WriteEventFd, Return, history
    <3>2. EventLoopTypeOK'
      <4>1. edge' = edge \/ edge' = TRUE
        BY <2>4 DEF PushLink, WriteEventFd, loopVars
      <4>2. efd' \in Nat
        BY <1>2, <2>4 DEF PushLink, WriteEventFd, loopVars, EventLoopTypeOK
      <4>3. edge' \in BOOLEAN
        BY <1>2, <4>1, Zenon DEF EventLoopTypeOK
      <4> QED
        BY <1>1, <1>2, <2>1, <2>2, <4>2, <4>3 DEF EventLoopTypeOK
    <3>3. NothingForgotten'
      <4>1. CASE PushLink(p)
        <5>1. pc'[p] = "linked"
          BY <1>1, <4>1 DEF PushLink, Link, MpscTypeOK
        <5> QED
          BY <5>1 DEF NothingForgotten
      <4>2. CASE WriteEventFd(p)
        <5>1. efd \in Nat
          BY <1>2 DEF EventLoopTypeOK
        <5>2. WakeupDue'
          BY <4>2, <5>1 DEF WriteEventFd, WakeupDue
        <5> QED
          BY <5>2 DEF NothingForgotten
      <4> QED
        BY <2>4, <4>1, <4>2
    <3>4. OwnThreadPushesLate'
      BY <1>2, <2>1, <2>2, <3>1, SelfAssumption DEF OwnThreadPushesLate, EventLoopTypeOK
    <3> QED
      BY <1>3, <2>1, <3>2, <3>3, <3>4 DEF EventLoopInv, ExitFreesNodes
  <2> QED
    BY <1>5, <2>3, <2>4 DEF PushStep
<1> QED
  BY <1>4, <1>5 DEF CallStep

LEMMA ExitKeepsInv ==
  ASSUME EventLoopInv, MpscInv', Exit
  PROVE  EventLoopInv'
<1>1. lpc = "top" /\ lpc' = "exited" /\ closed' = TRUE
  BY DEF Exit
<1>2. UNCHANGED <<next, tail, pc, log, efd, edge, closing, call, fds>>
  BY DEF Exit, mpscVars, memory, producer, history
<1>3. MpscTypeOK'
  BY DEF MpscInv
<1>4. EventLoopTypeOK'
  BY <1>1, <1>2, <1>3 DEF EventLoopInv, EventLoopTypeOK
<1>5. NothingForgotten'
  BY <1>1, <1>2 DEF EventLoopInv, NothingForgotten, WakeupDue
<1>6. OwnThreadPushesLate'
  BY <1>2 DEF EventLoopInv, OwnThreadPushesLate
<1> QED
  BY <1>1, <1>4, <1>5, <1>6 DEF EventLoopInv, ExitFreesNodes

\* With nobody between exchange and store the chain has no gap, so the destructor
\* reaches every node of it.
LEMMA DestroyKeepsInv ==
  ASSUME EventLoopInv, MpscInv, Destroy
  PROVE  EventLoopInv'
<1>1. PICK gap \in 1 .. Len(chain) : Destruction(gap, {head})
  BY DEF Destroy
<1>2. /\ lpc' = "gone"
      /\ fds' = fds \ ClosedByDestructors
      /\ Broken(gap)
      /\ live' = live \ ({chain[i] : i \in 1 .. gap - 1} \union {head})
      /\ tail' = chain[gap]
      /\ UNCHANGED <<head, next, data, pc, node, prev, count, cnext, log, out, chain,
                     efd, edge, closing, closed, call>>
  BY <1>1 DEF Destruction, producer, history
<1>3. MpscTypeOK /\ ChainInv
  BY DEF MpscInv
<1>4. /\ Len(chain) \in Nat /\ \A i \in 1 .. Len(chain) : chain[i] \in Node
      /\ live = {chain[i] : i \in 1 .. Len(chain)}
      /\ head = chain[Len(chain)]
  BY <1>3, ElementFacts DEF MpscTypeOK, ChainInv, ChainIsMemory
<1>5. MpscTypeOK'
  BY <1>2, <1>3, <1>4 DEF MpscTypeOK
<1>6. EventLoopTypeOK'
  BY <1>2, <1>5 DEF EventLoopInv, EventLoopTypeOK
<1>7. OwnThreadPushesLate'
  BY <1>2 DEF EventLoopInv, OwnThreadPushesLate
<1>8. ExitFreesNodes'
  <2> SUFFICES ASSUME \A p \in Producers : pc[p] # "link" PROVE live' = {}
    BY <1>2 DEF ExitFreesNodes
  <2>1. \A i \in 1 .. Len(chain) - 1 : next[chain[i]] = chain[i + 1] /\ chain[i + 1] # Null
    BY <1>3, <1>4, NullAssumption DEF ChainInv, LinksFollowChain
  <2>2. gap = Len(chain)
    BY <1>2, <1>4, <2>1 DEF Broken
  <2>3. \A i \in 1 .. Len(chain) : i \in 1 .. gap - 1 \/ chain[i] = head
    BY <1>4, <2>2
  <2> QED
    BY <1>2, <1>4, <2>3
<1> QED
  BY <1>2, <1>6, <1>7, <1>8 DEF EventLoopInv, NothingForgotten

LEMMA NextKeepsEventLoopInv ==
  EventLoopInv /\ [EventLoopNext]_eventVars => EventLoopInv'
<1> SUFFICES ASSUME EventLoopInv, [EventLoopNext]_eventVars PROVE EventLoopInv'
  OBVIOUS
<1>1. CASE UNCHANGED eventVars
  <2>1. UNCHANGED <<mpscVars, efd, edge, lpc, closing, closed, call, fds>>
    BY <1>1 DEF eventVars, taskVars, loopVars, closeVars
  <2>2. UNCHANGED <<head, tail, next, data, live, pc, node, prev, count, cnext, log, out, chain>>
    BY <2>1 DEF mpscVars, memory, producer, history
  <2>3. MpscInv => MpscInv'
    BY <2>1, NextKeepsMpscInv
  <2>4. EventLoopTypeOK'
    BY <2>1, <2>2 DEF EventLoopInv, EventLoopTypeOK, MpscTypeOK
  <2>5. NothingForgotten' /\ OwnThreadPushesLate' /\ ExitFreesNodes'
    BY <2>1, <2>2
       DEF EventLoopInv, NothingForgotten, WakeupDue, OwnThreadPushesLate, ExitFreesNodes
  <2> QED
    BY <2>1, <2>3, <2>4, <2>5 DEF EventLoopInv
<1>2. CASE ~UNCHANGED eventVars
  <2>1. MpscInv
    BY <1>2, StepOfEventLoop DEF EventLoopInv
  <2>2. CASE Destroy
    BY <2>1, <2>2, DestroyKeepsInv
  <2>3. CASE ~Destroy
    <3>1. MpscInv'
      BY <2>1, <2>3, StepOfEventLoop, NextKeepsMpscInv
    <3> QED
      BY <1>2, <2>1, <2>3, <3>1, TurnKeepsInv, CallKeepsInv, ExitKeepsInv DEF EventLoopNext
  <2> QED
    BY <2>2, <2>3
<1> QED
  BY <1>1, <1>2

\* The invariant holds in every state of the loop.
THEOREM EventLoopInvariance == EventLoopSpec => []EventLoopInv
  BY InitEventLoopInv, NextKeepsEventLoopInv, PTL DEF EventLoopSpec

-----------------------------------------------------------------------------
\* The variables keep their types (ThreadingEventLoop.h:14-59).
THEOREM EventLoopTypeCorrect == EventLoopSpec => []EventLoopTypeOK
<1>1. EventLoopInv => EventLoopTypeOK
  BY DEF EventLoopInv
<1> QED
  BY <1>1, EventLoopInvariance, PTL

\* A loop that leaves run has nothing in reach but what came after its last drain
\* (ThreadingEventLoop.cpp:66-78).
THEOREM ExitIsTidy == EventLoopSpec => []ExitLeavesOnlyNewTasks
<1>1. EventLoopInv => ExitLeavesOnlyNewTasks
  BY DEF EventLoopInv, NothingForgotten, ExitLeavesOnlyNewTasks
<1> QED
  BY <1>1, EventLoopInvariance, PTL

\* No direct call of call_soon overtakes an earlier call of the same thread
\* (ThreadingEventLoop.h:52-58).
THEOREM OwnCallsAreOrdered == EventLoopSpec => []OwnCallsKeepOrder
<1>1. ASSUME EventLoopInv, ~closing, NEW i \in Len(out) + 1 .. Len(log)
      PROVE  log[i][1] # Self
  <2>1. out \in Seq(Task \union {Null}) /\ log \in Seq(Task)
    BY <1>1 DEF EventLoopInv, EventLoopTypeOK, MpscTypeOK
  <2>2. i \in 1 .. Len(log)
    BY <2>1, ElementFacts
  <2> QED
    BY <1>1, <2>2 DEF EventLoopInv, OwnThreadPushesLate
<1>2. EventLoopInv => OwnCallsKeepOrder
  BY <1>1 DEF OwnCallsKeepOrder
<1> QED
  BY <1>2, EventLoopInvariance, PTL

\* The destructor frees the whole queue unless a thread is inside enqueue
\* (MpscQueue.h:30-36).
THEOREM NodesAreFreedAtExit == EventLoopSpec => []ExitFreesNodes
<1>1. EventLoopInv => ExitFreesNodes
  BY DEF EventLoopInv
<1> QED
  BY <1>1, EventLoopInvariance, PTL

-----------------------------------------------------------------------------
\* A loop that was closed sleeps only until it is told: its wakeup is due, or a
\* thread other than its own is on its way to write it.
ClosedLoopIsWoken ==
  lpc = "wait" =>
    /\ call[Self] = "none"
    /\ closing => WakeupDue \/ \E p \in Producers \ {Self} : call[p] \in {"soon", "push"}

\* While run has not returned close drops nothing.
OpenUntilExit == closed => lpc \in {"exited", "gone"}

CloseInv == ClosedLoopIsWoken /\ OpenUntilExit

LEMMA InitCloseInv == EventLoopInit => CloseInv
BY DEF EventLoopInit, TaskQueueInit, CloseInv, ClosedLoopIsWoken, OpenUntilExit

\* A thread that has set _close stays on its way until it has written the eventfd.
LEMMA CallKeepsCloseInv ==
  ASSUME EventLoopTypeOK, CloseInv, NEW p \in Producers, CallStep(p)
  PROVE  CloseInv'
<1>1. /\ lpc' = lpc /\ closed' = closed /\ (p = Self => lpc # "wait")
      /\ lpc # "gone"
  BY DEF CallStep, CallSoonInline, CallSoonPush, CallSoonDrop, CallSoon, MayCall,
         MayStep, CloseTest, CloseSet, PushStep, PushExchange, PushLink,
         WriteEventFd, taskVars, loopVars
<1>2. OpenUntilExit'
  BY <1>1 DEF CloseInv, OpenUntilExit
<1>3. ASSUME lpc = "wait"
      PROVE  /\ call'[Self] = "none"
             /\ closing' => WakeupDue'
                  \/ \E q \in Producers \ {Self} : call'[q] \in {"soon", "push"}
  <2>1. p # Self /\ ~closed
    BY <1>1, <1>3 DEF CloseInv, OpenUntilExit
  <2>2. /\ call[Self] = "none"
        /\ closing => WakeupDue \/ \E q \in Producers \ {Self} : call[q] \in {"soon", "push"}
    BY <1>3 DEF CloseInv, ClosedLoopIsWoken
  <2>3. call \in [Producers -> {"none", "close", "soon", "push"}] /\ efd \in Nat
    BY DEF EventLoopTypeOK
  <2>4. CASE CallSoonInline(p) \/ CallSoonDrop(p)
    BY <2>1, <2>4 DEF CallSoonInline, CallSoonDrop
  <2>5. CASE CallSoonPush(p)
    <3>1. call' = [call EXCEPT ![p] = "push"] /\ UNCHANGED <<efd, edge, closing>>
      BY <2>5 DEF CallSoonPush, taskVars, loopVars
    <3> QED
      BY <2>1, <2>2, <2>3, <3>1, SelfAssumption DEF WakeupDue
  <2>6. CASE CloseTest(p)
    <3>1. call' = [call EXCEPT ![p] = "close"] /\ ~closing /\ closing' = closing
      BY <2>6 DEF CloseTest
    <3> QED
      BY <2>1, <2>2, <2>3, <3>1, SelfAssumption
  <2>7. CASE CloseSet(p)
    <3>1. call' = [call EXCEPT ![p] = "soon"]
      BY <2>7 DEF CloseSet
    <3> QED
      BY <2>1, <2>2, <2>3, <3>1, SelfAssumption
  <2>8. CASE PushStep(p) /\ (PushExchange(p) \/ PushLink(p)) /\ UNCHANGED call
    <3>1. UNCHANGED <<efd, edge, closing, call>>
      BY <2>8 DEF PushStep, PushExchange, PushLink, loopVars
    <3> QED
      BY <2>2, <3>1 DEF WakeupDue
  <2>9. CASE WriteEventFd(p) /\ call' = [call EXCEPT ![p] = "none"]
    <3>1. efd' = efd + 1 /\ edge' = TRUE
      BY <2>9 DEF WriteEventFd
    <3>2. WakeupDue'
      BY <2>3, <3>1 DEF WakeupDue
    <3> QED
      BY <2>1, <2>2, <2>3, <2>9, <3>2, SelfAssumption
  <2>10. PushStep(p) => \/ (PushExchange(p) \/ PushLink(p)) /\ UNCHANGED call
                        \/ WriteEventFd(p) /\ call' = [call EXCEPT ![p] = "none"]
    BY DEF PushStep
  <2> QED
    BY <2>4, <2>5, <2>6, <2>7, <2>8, <2>9, <2>10 DEF CallStep
<1> QED
  BY <1>1, <1>2, <1>3 DEF CloseInv, ClosedLoopIsWoken

LEMMA NextKeepsCloseInv ==
  EventLoopTypeOK /\ CloseInv /\ [EventLoopNext]_eventVars => CloseInv'
<1> SUFFICES ASSUME EventLoopTypeOK, CloseInv, [EventLoopNext]_eventVars
             PROVE  CloseInv'
  OBVIOUS
<1>1. CASE TurnOfRun
  <2>1. /\ call[Self] = "none" /\ UNCHANGED <<closing, closed, call>>
        /\ lpc = "top" => ~closing
        /\ lpc \notin {"exited", "gone"}
    BY <1>1
       DEF TurnOfRun, closeVars, Loop, EnterSelect, SelectWakeup, SelectOther,
           ReadEventFd, DrainLoad, DrainTake, RunTask, DrainFalse
  <2>2. lpc' = "wait" => lpc = "top"
    BY <1>1
       DEF TurnOfRun, Loop, EnterSelect, SelectWakeup, SelectOther, ReadEventFd,
           DrainLoad, DrainTake, RunTask, DrainFalse, loopVars
  <2> QED
    BY <2>1, <2>2 DEF CloseInv, ClosedLoopIsWoken, OpenUntilExit
<1>2. CASE Exit \/ Destroy
  BY <1>2 DEF Exit, Destroy, Destruction, CloseInv, ClosedLoopIsWoken, OpenUntilExit
<1>3. CASE \E p \in Producers : CallStep(p)
  BY <1>3, CallKeepsCloseInv
<1>4. CASE UNCHANGED eventVars
  BY <1>4 DEF eventVars, taskVars, loopVars, closeVars, CloseInv, ClosedLoopIsWoken,
              OpenUntilExit, WakeupDue
<1> QED
  BY <1>1, <1>2, <1>3, <1>4 DEF EventLoopNext

\* A loop that was closed is not left asleep, whoever closed it and in whatever
\* order the calls went: the empty callback of close is under way until it has
\* written the eventfd, since a loop that sleeps cannot be _closed already
\* (ThreadingEventLoop.cpp:51-56, ThreadingEventLoop.h:51-59).
THEOREM CloseIsNotSleptThrough == EventLoopSpec => []ClosedLoopIsWoken
<1>1. CloseInv => ClosedLoopIsWoken
  BY DEF CloseInv
<1> QED
  BY <1>1, InitCloseInv, NextKeepsCloseInv, EventLoopTypeCorrect, PTL DEF EventLoopSpec
=============================================================================
