-------------------------- MODULE TimerQueueProofs -------------------------
(***************************************************************************)
(* Proofs about TimerQueue, for any timers, delays and intervals, and any  *)
(* outcome of the comparisons of addresses.                                *)
(***************************************************************************)
EXTENDS TimerQueue, SequenceTheorems, TLAPS

Kinds == {"insert", "erase"}

\* A timer whose insertion is pending is nowhere else, and pending only once; a
\* timer that runs is not in the heap.
InsertedOnce ==
  /\ cur \notin heap
  /\ \A i \in 1 .. Len(tasks) : tasks[i][1] = "insert" =>
       /\ tasks[i][2] \notin heap \union cancelled \union {cur}
       /\ \A j \in 1 .. Len(tasks) : tasks[j] = tasks[i] => j = i

\* The inductive invariant.
TimerInv ==
  /\ TypeOK
  /\ HeapIsArmed
  /\ ValidTimersAreKept
  /\ CancelledStaysCancelled
  /\ InsertedOnce

\* The timers that a pass has still to pop.
Ripe == {t \in heap : Expired(t)}

InPass == lpc \in {"handle", "call"}

\* What a pass has still to pop never grows, and each pop makes it smaller.
PassOnlyShrinks ==
  [][InPass /\ InPass' =>
       /\ Ripe' \subseteq Ripe
       /\ (CallTop \/ SkipTop => Ripe' # Ripe)]_vars

-----------------------------------------------------------------------------
LEMMA ArmIsATime == ASSUME NEW r \in Int PROVE Arm(r) \in Nat
<1>1. CASE r > MinArm
  <2>1. r \in Nat /\ Milli \in Nat \ {0} /\ MinArm \in Nat
    BY <1>1, ArmAssumption
  <2>2. r \div Milli \in Nat
    BY <2>1
  <2>3. (r \div Milli) * Milli \in Nat
    BY <2>1, <2>2
  <2> QED
    BY <1>1, <2>3 DEF Arm
<1>2. CASE ~(r > MinArm)
  BY <1>2, ArmAssumption DEF Arm
<1> QED
  BY <1>1, <1>2

LEMMA TaskFacts ==
  ASSUME TypeOK
  PROVE  /\ Len(tasks) \in Nat
         /\ \A i \in 1 .. Len(tasks) :
              /\ tasks[i] \in Kinds \X made
              /\ tasks[i] = <<tasks[i][1], tasks[i][2]>>
<1>1. tasks \in Seq(Kinds \X made)
  BY DEF TypeOK, Kinds
<1>2. Len(tasks) \in Nat /\ \A i \in 1 .. Len(tasks) : tasks[i] \in Kinds \X made
  BY <1>1, ElementOfSeq, LenProperties
<1> QED
  BY <1>2

-----------------------------------------------------------------------------
LEMMA InitTimerInv == Init => TimerInv
<1> SUFFICES ASSUME Init PROVE TimerInv
  OBVIOUS
<1> USE DEF Init
<1>1. TypeOK
  <2>1. crowd \in BOOLEAN
    BY Zenon
  <2>2. rem \in [Timer -> Int] /\ interval \in [Timer -> Nat]
    BY MaxStallAssumption DEF Overdue
  <2>3. lpc = "call" <=> cur # None
    OBVIOUS
  <2> QED
    BY <2>1, <2>2, <2>3 DEF TypeOK
<1>2. HeapIsArmed /\ ValidTimersAreKept /\ CancelledStaysCancelled /\ InsertedOnce
  BY DEF HeapIsArmed, Waiting, ValidTimersAreKept, CancelledStaysCancelled, InsertedOnce
<1> QED
  BY <1>1, <1>2 DEF TimerInv

\* The loop's own thread makes a timer, which nobody knows of yet.
LEMMA AddInLoopKeepsInv ==
  ASSUME TimerInv, NEW t \in Timer, NEW d \in Delays, NEW i \in Intervals,
         AddInLoop(t, d, i)
  PROVE  TimerInv'
<1>1. /\ t \notin made /\ made' = made \union {t}
      /\ rem' = [rem EXCEPT ![t] = d] /\ interval' = [interval EXCEPT ![t] = i]
      /\ heap' = heap \union {t} /\ valid' = valid \union {t}
      /\ UNCHANGED <<crowd, tasks, asked, lpc, cur, since, cancelled>>
  BY DEF AddInLoop, Make, InsertTask
<1>2. alarm' = Arm(d) \/ (Waiting /\ alarm' = alarm)
  BY DEF AddInLoop, InsertTask
<1>3. /\ TypeOK /\ HeapIsArmed /\ ValidTimersAreKept /\ CancelledStaysCancelled
      /\ InsertedOnce
  BY DEF TimerInv
<1>4. d \in Nat /\ i \in Nat /\ Arm(d) \in Nat
  BY DelaysAssumption, IntervalsAssumption, ArmIsATime
<1>5. TypeOK'
  <2>1. tasks' \in Seq(Kinds \X made')
    BY <1>1, <1>3, SeqMonotonic DEF TypeOK, Kinds
  <2>2. alarm' \in Nat \union {None}
    BY <1>2, <1>3, <1>4 DEF TypeOK
  <2> QED
    BY <1>1, <1>3, <1>4, <2>1, <2>2 DEF TypeOK, Kinds
<1>6. HeapIsArmed'
  BY <1>1, <1>2, <1>3, <1>4, NoneAssumption DEF HeapIsArmed, Waiting
<1>7. t \notin cancelled /\ t # cur
  BY <1>1, <1>3, NoneAssumption DEF TypeOK
<1>8. ValidTimersAreKept' /\ CancelledStaysCancelled'
  BY <1>1, <1>3, <1>7 DEF ValidTimersAreKept, CancelledStaysCancelled
<1>9. InsertedOnce'
  BY <1>1, <1>3, <1>7, TaskFacts DEF InsertedOnce
<1> QED
  BY <1>5, <1>6, <1>8, <1>9 DEF TimerInv

\* Another thread makes a timer, whose insertion becomes the last of the tasks.
LEMMA AddFromThreadKeepsInv ==
  ASSUME TimerInv, NEW t \in Timer, NEW d \in Delays, NEW i \in Intervals,
         AddFromThread(t, d, i)
  PROVE  TimerInv'
<1>1. /\ t \notin made /\ made' = made \union {t}
      /\ rem' = [rem EXCEPT ![t] = d] /\ interval' = [interval EXCEPT ![t] = i]
      /\ tasks' = Append(tasks, <<"insert", t>>)
      /\ UNCHANGED <<heap, crowd, valid, alarm, asked, lpc, cur, since, cancelled>>
  BY DEF AddFromThread, Make, queue
<1>2. /\ TypeOK /\ HeapIsArmed /\ ValidTimersAreKept /\ CancelledStaysCancelled
      /\ InsertedOnce
  BY DEF TimerInv
<1>3. d \in Nat /\ i \in Nat
  BY DelaysAssumption, IntervalsAssumption
<1>4. tasks \in Seq(Kinds \X made') /\ <<"insert", t>> \in Kinds \X made'
  BY <1>1, <1>2, SeqMonotonic DEF TypeOK, Kinds
<1>5. /\ tasks' \in Seq(Kinds \X made')
      /\ Len(tasks') = Len(tasks) + 1
      /\ \A k \in 1 .. Len(tasks) : tasks'[k] = tasks[k]
      /\ tasks'[Len(tasks) + 1] = <<"insert", t>>
  BY <1>1, <1>4
<1>6. TypeOK'
  BY <1>1, <1>2, <1>3, <1>5 DEF TypeOK, Kinds
<1>7. HeapIsArmed' /\ ValidTimersAreKept' /\ CancelledStaysCancelled'
  BY <1>1, <1>2 DEF HeapIsArmed, Waiting, ValidTimersAreKept, CancelledStaysCancelled
<1>8. InsertedOnce'
  <2>1. t \notin heap \union cancelled \union {cur}
    BY <1>1, <1>2, NoneAssumption DEF TypeOK
  <2>2. Len(tasks) \in Nat /\ \A k \in 1 .. Len(tasks) : tasks[k] # <<"insert", t>>
    BY <1>1, <1>2, TaskFacts
  <2>3. ASSUME NEW k \in 1 .. Len(tasks'), tasks'[k][1] = "insert"
        PROVE  /\ tasks'[k][2] \notin heap \union cancelled \union {cur}
               /\ \A j \in 1 .. Len(tasks') : tasks'[j] = tasks'[k] => j = k
    <3>1. CASE k = Len(tasks) + 1
      <4>1. tasks'[k] = <<"insert", t>>
        BY <1>5, <3>1
      <4>2. ASSUME NEW j \in 1 .. Len(tasks'), tasks'[j] = tasks'[k] PROVE j = k
        <5>1. ~(j \in 1 .. Len(tasks))
          BY <1>5, <2>2, <4>1, <4>2
        <5> QED
          BY <1>5, <2>2, <3>1, <5>1
      <4> QED
        BY <2>1, <4>1, <4>2
    <3>2. CASE k \in 1 .. Len(tasks)
      <4>1. /\ tasks'[k] = tasks[k] /\ tasks'[k] # <<"insert", t>>
            /\ tasks[k][2] \notin heap \union cancelled \union {cur}
            /\ \A j \in 1 .. Len(tasks) : tasks[j] = tasks[k] => j = k
        BY <1>2, <1>5, <2>2, <2>3, <3>2 DEF InsertedOnce
      <4>2. ASSUME NEW j \in 1 .. Len(tasks'), tasks'[j] = tasks'[k] PROVE j = k
        <5>1. j # Len(tasks) + 1
          BY <1>5, <4>1, <4>2
        <5>2. j \in 1 .. Len(tasks)
          BY <1>5, <2>2, <5>1
        <5> QED
          BY <1>5, <4>1, <4>2, <5>2
      <4> QED
        BY <4>1, <4>2
    <3> QED
      BY <1>5, <2>2, <3>1, <3>2
  <2> QED
    BY <1>1, <1>2, <2>3 DEF InsertedOnce
<1> QED
  BY <1>6, <1>7, <1>8 DEF TimerInv

\* An id is erased: the timer is cancelled if it waits in the heap.
LEMMA EraseKeepsInv ==
  ASSUME TimerInv, NEW t \in made, EraseTask(t),
         UNCHANGED <<made, rem, interval, lpc, cur, since>>
  PROVE  /\ HeapIsArmed' /\ ValidTimersAreKept' /\ CancelledStaysCancelled'
         /\ \A u \in cancelled' : u \in cancelled \/ u \in heap
         /\ heap' = heap /\ crowd' = crowd /\ alarm' = alarm /\ valid' \subseteq made
         /\ cancelled' \subseteq made
<1>1. /\ valid' = valid \ {t}
      /\ cancelled' = IF t \in heap THEN cancelled \union {t} ELSE cancelled
      /\ heap' = heap /\ crowd' = crowd /\ alarm' = alarm /\ lpc' = lpc /\ cur' = cur
  BY DEF EraseTask
<1>2. cur \notin heap
  BY DEF TimerInv, InsertedOnce
<1> QED
  BY <1>1, <1>2
     DEF TimerInv, TypeOK, HeapIsArmed, Waiting, ValidTimersAreKept,
         CancelledStaysCancelled

\* Another timer sets timer_fd, or finds it set.
LEMMA AddOtherKeepsInv ==
  ASSUME TimerInv, NEW d \in Delays, AddOther(d)
  PROVE  TimerInv'
<1>1. /\ TypeOK /\ HeapIsArmed /\ ValidTimersAreKept /\ CancelledStaysCancelled
      /\ InsertedOnce
  BY DEF TimerInv
<1>2. /\ crowd' = TRUE
      /\ UNCHANGED <<made, interval, asked, rem, heap, valid, tasks, lpc, cur, since,
                     cancelled>>
  BY DEF AddOther, threads, loop
<1>3. alarm' = Arm(d) \/ (Waiting /\ alarm' = alarm)
  BY DEF AddOther
<1>4. Arm(d) \in Nat
  BY DelaysAssumption, ArmIsATime
<1>5. TypeOK'
  BY <1>1, <1>2, <1>3, <1>4 DEF TypeOK
<1>6. HeapIsArmed'
  BY <1>1, <1>2, <1>3, <1>4, NoneAssumption DEF HeapIsArmed, Waiting
<1>7. ValidTimersAreKept' /\ CancelledStaysCancelled' /\ InsertedOnce'
  BY <1>1, <1>2 DEF ValidTimersAreKept, CancelledStaysCancelled, InsertedOnce
<1> QED
  BY <1>5, <1>6, <1>7 DEF TimerInv

LEMMA RemoveInLoopKeepsInv ==
  ASSUME TimerInv, NEW t \in Timer, RemoveInLoop(t)
  PROVE  TimerInv'
<1>1. /\ t \in made /\ asked' = asked \union {t} /\ EraseTask(t)
      /\ UNCHANGED <<made, rem, interval, tasks, lpc, cur, since>>
  BY DEF RemoveInLoop, loop
<1>2. TypeOK /\ InsertedOnce
  BY DEF TimerInv
<1>3. /\ HeapIsArmed' /\ ValidTimersAreKept' /\ CancelledStaysCancelled'
      /\ \A u \in cancelled' : u \in cancelled \/ u \in heap
      /\ heap' = heap /\ crowd' = crowd /\ alarm' = alarm /\ valid' \subseteq made
      /\ cancelled' \subseteq made
  BY <1>1, EraseKeepsInv
<1>4. TypeOK'
  BY <1>1, <1>2, <1>3 DEF TypeOK
<1>5. InsertedOnce'
  BY <1>1, <1>2, <1>3 DEF InsertedOnce
<1> QED
  BY <1>3, <1>4, <1>5 DEF TimerInv

LEMMA RemoveFromThreadKeepsInv ==
  ASSUME TimerInv, NEW t \in Timer, RemoveFromThread(t)
  PROVE  TimerInv'
<1>1. /\ t \in made /\ asked' = asked \union {t}
      /\ tasks' = Append(tasks, <<"erase", t>>)
      /\ UNCHANGED <<made, rem, interval, heap, crowd, valid, alarm, lpc, cur, since, cancelled>>
  BY DEF RemoveFromThread, queue, loop
<1>2. /\ TypeOK /\ HeapIsArmed /\ ValidTimersAreKept /\ CancelledStaysCancelled
      /\ InsertedOnce
  BY DEF TimerInv
<1>3. tasks \in Seq(Kinds \X made) /\ <<"erase", t>> \in Kinds \X made
  BY <1>1, <1>2 DEF TypeOK, Kinds
<1>4. /\ tasks' \in Seq(Kinds \X made)
      /\ Len(tasks') = Len(tasks) + 1
      /\ \A k \in 1 .. Len(tasks) : tasks'[k] = tasks[k]
      /\ tasks'[Len(tasks) + 1] = <<"erase", t>>
  BY <1>1, <1>3
<1>5. TypeOK'
  BY <1>1, <1>2, <1>4 DEF TypeOK, Kinds
<1>6. HeapIsArmed' /\ ValidTimersAreKept' /\ CancelledStaysCancelled'
  BY <1>1, <1>2 DEF HeapIsArmed, Waiting, ValidTimersAreKept, CancelledStaysCancelled
<1>7. InsertedOnce'
  <2>1. ASSUME NEW k \in 1 .. Len(tasks'), tasks'[k][1] = "insert"
        PROVE  k \in 1 .. Len(tasks)
    BY <1>4, <2>1, TaskFacts, <1>2
  <2>2. \A k \in 1 .. Len(tasks) : tasks[k][1] = "insert" => tasks[k] # <<"erase", t>>
    OBVIOUS
  <2> QED
    BY <1>1, <1>2, <1>4, <2>1, <2>2, TaskFacts DEF InsertedOnce
<1> QED
  BY <1>5, <1>6, <1>7 DEF TimerInv

\* The loop runs the first of the tasks.
LEMMA RunTaskKeepsInv ==
  ASSUME TimerInv, RunTask
  PROVE  TimerInv'
<1> DEFINE t == tasks[1][2]
<1>1. /\ tasks # << >> /\ tasks' = Tail(tasks) /\ Head(tasks) = tasks[1]
      /\ UNCHANGED <<made, interval, asked, rem, lpc, cur, since>>
  BY DEF RunTask, threads, loop
<1>2. /\ TypeOK /\ HeapIsArmed /\ ValidTimersAreKept /\ CancelledStaysCancelled
      /\ InsertedOnce
  BY DEF TimerInv
<1>3. /\ Len(tasks) \in Nat /\ Len(tasks) >= 1
      /\ tasks' \in Seq(Kinds \X made)
      /\ Len(tasks') = Len(tasks) - 1
      /\ \A k \in 1 .. Len(tasks') : tasks'[k] = tasks[k + 1]
  <2>1. tasks \in Seq(Kinds \X made)
    BY <1>2 DEF TypeOK, Kinds
  <2> QED
    BY <1>1, <2>1, HeadTailProperties, EmptySeq
<1>4. t \in made /\ tasks[1] = <<tasks[1][1], t>>
  BY <1>2, <1>3, TaskFacts
<1>5. \A k \in 1 .. Len(tasks') : k + 1 \in 1 .. Len(tasks) /\ k + 1 # 1
  BY <1>3
<1>6. CASE tasks[1][1] = "insert" /\ InsertTask(t, rem[t]) /\ UNCHANGED cancelled
  <2>1. /\ heap' = heap \union {t} /\ valid' = valid \union {t} /\ cancelled' = cancelled
        /\ alarm' = Arm(rem[t]) \/ (Waiting /\ alarm' = alarm)
        /\ crowd' = crowd
    BY <1>6 DEF InsertTask
  <2>2. t \notin heap \union cancelled \union {cur}
    BY <1>2, <1>3, <1>6 DEF InsertedOnce
  <2>3. Arm(rem[t]) \in Nat
    BY <1>2, <1>4, ArmIsATime DEF TypeOK
  <2>4. TypeOK'
    BY <1>1, <1>2, <1>3, <1>4, <2>1, <2>3 DEF TypeOK, Kinds
  <2>5. HeapIsArmed'
    BY <1>1, <1>2, <2>1, <2>3, NoneAssumption DEF HeapIsArmed, Waiting
  <2>6. ValidTimersAreKept' /\ CancelledStaysCancelled'
    BY <1>1, <1>2, <2>1, <2>2 DEF ValidTimersAreKept, CancelledStaysCancelled
  <2>7. \A k \in 1 .. Len(tasks') : tasks'[k][1] = "insert" => tasks'[k][2] # t
    <3> SUFFICES ASSUME NEW k \in 1 .. Len(tasks'), tasks'[k][1] = "insert",
                        tasks'[k][2] = t
                 PROVE  FALSE
      OBVIOUS
    <3>1. tasks[k + 1] = <<"insert", t>>
      BY <1>2, <1>3, <1>5, TaskFacts
    <3>2. tasks[1] = <<"insert", t>> /\ tasks[1][1] = "insert" /\ 1 \in 1 .. Len(tasks)
      BY <1>3, <1>4, <1>6
    <3>3. k + 1 \in 1 .. Len(tasks) /\ k + 1 # 1 /\ tasks[k + 1] = tasks[1]
      BY <1>5, <3>1, <3>2
    <3> QED
      BY <1>2, <3>2, <3>3 DEF InsertedOnce
  <2>8. InsertedOnce'
    BY <1>1, <1>2, <1>3, <1>5, <2>1, <2>2, <2>7 DEF InsertedOnce
  <2> QED
    BY <2>4, <2>5, <2>6, <2>8 DEF TimerInv
<1>7. CASE EraseTask(t)
  <2>1. /\ HeapIsArmed' /\ ValidTimersAreKept' /\ CancelledStaysCancelled'
        /\ \A u \in cancelled' : u \in cancelled \/ u \in heap
        /\ heap' = heap /\ crowd' = crowd /\ alarm' = alarm /\ valid' \subseteq made
        /\ cancelled' \subseteq made
    BY <1>1, <1>4, <1>7, EraseKeepsInv
  <2>2. TypeOK'
    BY <1>1, <1>2, <1>3, <2>1 DEF TypeOK, Kinds
  <2>3. InsertedOnce'
    BY <1>1, <1>2, <1>3, <1>5, <2>1 DEF InsertedOnce
  <2> QED
    BY <2>1, <2>2, <2>3 DEF TimerInv
<1> QED
  BY <1>1, <1>6, <1>7 DEF RunTask

\* epoll_wait reports timer_fd, its handler starts, and time passes: only the
\* alarm and the clocks change.
LEMMA ClockKeepsInv ==
  ASSUME TimerInv, Report \/ HandleExpired \/ Tick
  PROVE  TimerInv'
<1>1. UNCHANGED <<made, interval, heap, crowd, valid, tasks, asked, cur, cancelled>>
  BY DEF Report, HandleExpired, Tick, threads, queue
<1>2. /\ TypeOK /\ HeapIsArmed /\ ValidTimersAreKept /\ CancelledStaysCancelled
      /\ InsertedOnce
  BY DEF TimerInv
<1>3. rem' \in [Timer -> Int]
  <2>1. CASE Tick
    <3>1. \A t \in Timer : Later(rem[t]) \in Int
      BY <1>2, MaxStallAssumption DEF Later, Overdue, TypeOK
    <3> QED
      BY <2>1, <3>1 DEF Tick
  <2>2. CASE ~Tick
    BY <1>2, <2>2 DEF Report, HandleExpired, TypeOK
  <2> QED
    BY <2>1, <2>2
<1>4. /\ alarm' \in Nat \union {None}
      /\ lpc' = "idle" => (alarm' = None => alarm = None) /\ lpc = "idle"
      /\ lpc' \in {"idle", "batch", "handle", "call"}
      /\ lpc' = "call" <=> lpc = "call"
      /\ since' \in Nat
  <2>1. CASE Report
    BY <1>2, <2>1 DEF Report, TypeOK, queue
  <2>2. CASE HandleExpired
    BY <1>2, <2>2, NoneAssumption DEF HandleExpired, TypeOK
  <2>3. CASE Tick
    <3>1. /\ lpc' = lpc /\ (since' = since \/ since' = since + 1)
          /\ alarm' = IF alarm \in {None, 0} THEN alarm ELSE alarm - 1
      BY <2>3 DEF Tick
    <3>2. alarm' \in Nat \union {None} /\ (alarm' = None => alarm = None)
      BY <1>2, <3>1, NoneAssumption DEF TypeOK
    <3> QED
      BY <1>2, <3>1, <3>2 DEF TypeOK
  <2> QED
    BY <2>1, <2>2, <2>3
<1>5. TypeOK'
  BY <1>1, <1>2, <1>3, <1>4 DEF TypeOK
<1>6. HeapIsArmed'
  BY <1>1, <1>2, <1>4 DEF HeapIsArmed, Waiting
<1>7. ValidTimersAreKept' /\ CancelledStaysCancelled' /\ InsertedOnce'
  BY <1>1, <1>2 DEF ValidTimersAreKept, CancelledStaysCancelled, InsertedOnce
<1> QED
  BY <1>5, <1>6, <1>7 DEF TimerInv

\* The head of the heap is popped, and called if it is valid.
LEMMA PopKeepsInv ==
  ASSUME TimerInv, CallTop \/ SkipTop
  PROVE  TimerInv'
<1>1. /\ TypeOK /\ HeapIsArmed /\ ValidTimersAreKept /\ CancelledStaysCancelled
      /\ InsertedOnce
  BY DEF TimerInv
<1>2. /\ UNCHANGED <<made, interval, asked, rem, crowd, valid, alarm, tasks, since, cancelled>>
      /\ lpc = "handle" /\ lpc' \in {"handle", "call"} /\ cur = None
  BY <1>1, Zenon DEF CallTop, SkipTop, threads, loop, TypeOK
<1>3. PICK t \in heap :
        /\ heap' = heap \ {t}
        /\ \/ t \in valid /\ cur' = t /\ lpc' = "call"
           \/ t \notin valid /\ cur' = cur /\ lpc' = "handle"
  BY <1>2 DEF CallTop, SkipTop, Tops, loop
<1>4. TypeOK'
  BY <1>1, <1>2, <1>3, NoneAssumption DEF TypeOK
<1>5. HeapIsArmed'
  BY <1>2 DEF HeapIsArmed, Waiting
<1>6. ValidTimersAreKept' /\ CancelledStaysCancelled'
  <2>1. valid \subseteq heap
    BY <1>1, <1>2, NoneAssumption DEF ValidTimersAreKept, TypeOK
  <2> QED
    BY <1>1, <1>2, <1>3, <2>1 DEF ValidTimersAreKept, CancelledStaysCancelled
<1>7. InsertedOnce'
  BY <1>1, <1>2, <1>3 DEF InsertedOnce
<1> QED
  BY <1>4, <1>5, <1>6, <1>7 DEF TimerInv

\* The callback returns, and a repeating timer goes back into the heap.
LEMMA ReturnKeepsInv ==
  ASSUME TimerInv, CallbackReturns
  PROVE  TimerInv'
<1>1. /\ TypeOK /\ HeapIsArmed /\ ValidTimersAreKept /\ CancelledStaysCancelled
      /\ InsertedOnce
  BY DEF TimerInv
<1>2. /\ UNCHANGED <<made, interval, asked, crowd, alarm, tasks, since, cancelled>>
      /\ lpc = "call" /\ lpc' = "handle" /\ cur' = None /\ cur \in made
  BY <1>1 DEF CallbackReturns, threads, TypeOK
<1>3. /\ \/ heap' = heap \union {cur} /\ valid' = valid \union {cur}
         \/ heap' = heap /\ valid' = valid \ {cur}
      /\ rem' \in [Timer -> Int]
  BY <1>1, <1>2 DEF CallbackReturns, TypeOK
<1>4. TypeOK'
  BY <1>1, <1>2, <1>3 DEF TypeOK
<1>5. HeapIsArmed'
  BY <1>2 DEF HeapIsArmed, Waiting
<1>6. None \notin made
  BY <1>1, NoneAssumption DEF TypeOK
<1>7. ValidTimersAreKept' /\ CancelledStaysCancelled'
  BY <1>1, <1>2, <1>3, <1>6 DEF ValidTimersAreKept, CancelledStaysCancelled, TypeOK
<1>8. InsertedOnce'
  <2>1. \A k \in 1 .. Len(tasks) : tasks[k][2] # None
    BY <1>1, <1>6, TaskFacts
  <2>2. None \notin heap'
    BY <1>1, <1>2, <1>3, <1>6 DEF TypeOK
  <2> QED
    BY <1>1, <1>2, <1>3, <2>1, <2>2 DEF InsertedOnce
<1> QED
  BY <1>4, <1>5, <1>7, <1>8 DEF TimerInv

\* The handler ends and sets timer_fd if a timer is left.
LEMMA HandleEndsKeepsInv ==
  ASSUME TimerInv, HandleEnds
  PROVE  TimerInv'
<1>1. /\ TypeOK /\ HeapIsArmed /\ ValidTimersAreKept /\ CancelledStaysCancelled
      /\ InsertedOnce
  BY DEF TimerInv
<1>2. /\ UNCHANGED <<made, interval, asked, rem, heap, valid, tasks, cur, cancelled>>
      /\ lpc = "handle" /\ lpc' = "idle" /\ since' = 0
  BY DEF HandleEnds, threads
<1>3. /\ crowd' \in BOOLEAN
      /\ alarm' \in Nat \union {None}
      /\ alarm' \in Nat \/ (heap = {} /\ crowd' = FALSE)
  <2>1. CASE heap = {} /\ crowd' = FALSE /\ UNCHANGED alarm
    BY <1>1, <2>1 DEF TypeOK
  <2>2. CASE crowd' \in {FALSE, crowd} /\ \E t \in Tops : alarm' = Arm(rem[t])
    <3>1. \A t \in Tops : Arm(rem[t]) \in Nat
      BY <1>1, ArmIsATime DEF TypeOK, Tops
    <3> QED
      BY <1>1, <2>2, <3>1 DEF TypeOK
  <2>3. CASE crowd' = TRUE /\ \E d \in Delays : \E r \in Overdue .. d : alarm' = Arm(r)
    <3>1. PICK d \in Delays : \E r \in Overdue .. d : alarm' = Arm(r)
      BY <2>3
    <3>2. PICK r \in Overdue .. d : alarm' = Arm(r)
      BY <3>1
    <3>3. r \in Int
      BY DelaysAssumption, MaxStallAssumption DEF Overdue
    <3> QED
      BY <2>3, <3>2, <3>3, ArmIsATime
  <2> QED
    BY <2>1, <2>2, <2>3 DEF HandleEnds
<1>5. TypeOK'
  BY <1>1, <1>2, <1>3 DEF TypeOK
<1>6. HeapIsArmed'
  BY <1>2, <1>3, NoneAssumption DEF HeapIsArmed, Waiting
<1>7. ValidTimersAreKept' /\ CancelledStaysCancelled' /\ InsertedOnce'
  BY <1>1, <1>2 DEF ValidTimersAreKept, CancelledStaysCancelled, InsertedOnce
<1> QED
  BY <1>5, <1>6, <1>7 DEF TimerInv

LEMMA NextKeepsTimerInv == TimerInv /\ [Next]_vars => TimerInv'
<1> SUFFICES ASSUME TimerInv, [Next]_vars PROVE TimerInv'
  OBVIOUS
<1>1. CASE HandleStep
  BY <1>1, ClockKeepsInv, PopKeepsInv, ReturnKeepsInv, HandleEndsKeepsInv DEF HandleStep
<1>2. CASE RunTask
  BY <1>2, RunTaskKeepsInv
<1>3. CASE Tick
  BY <1>3, ClockKeepsInv
<1>4. CASE \E t \in Timer, d \in Delays, i \in Intervals :
             AddInLoop(t, d, i) \/ AddFromThread(t, d, i)
  BY <1>4, AddInLoopKeepsInv, AddFromThreadKeepsInv
<1>5. CASE \E t \in Timer : RemoveInLoop(t) \/ RemoveFromThread(t)
  BY <1>5, RemoveInLoopKeepsInv, RemoveFromThreadKeepsInv
<1>6. CASE \E d \in Delays : AddOther(d)
  BY <1>6, AddOtherKeepsInv
<1>7. CASE UNCHANGED vars
  BY <1>7
     DEF vars, TimerInv, TypeOK, HeapIsArmed, Waiting, ValidTimersAreKept,
         CancelledStaysCancelled, InsertedOnce
<1> QED
  BY <1>1, <1>2, <1>3, <1>4, <1>5, <1>6, <1>7 DEF Next

\* The invariant holds in every state of the timer queue.
THEOREM TimerInvariance == Spec => []TimerInv
  BY InitTimerInv, NextKeepsTimerInv, PTL DEF Spec

-----------------------------------------------------------------------------
\* The variables keep their types (TimerQueue.h:80-84).
THEOREM TimerTypeCorrect == Spec => []TypeOK
<1>1. TimerInv => TypeOK
  BY DEF TimerInv
<1> QED
  BY <1>1, TimerInvariance, PTL

\* While a timer waits timer_fd is set, whatever the addresses of the timers
\* (TimerQueue.h:107-112, TimerQueue.cpp:50-71).
THEOREM NoTimerIsForgotten == Spec => []HeapIsArmed
<1>1. TimerInv => HeapIsArmed
  BY DEF TimerInv
<1> QED
  BY <1>1, TimerInvariance, PTL

\* No id stays valid for a timer that is gone (TimerQueue.cpp:56-62, 79-86).
THEOREM NoIdIsLeaked == Spec => []ValidTimersAreKept
<1>1. TimerInv => ValidTimersAreKept
  BY DEF TimerInv
<1> QED
  BY <1>1, TimerInvariance, PTL

\* A timer removed while it waits is not called again (TimerQueue.cpp:55, 73-77).
THEOREM RemovalIsFinal == Spec => []CancelledStaysCancelled
<1>1. TimerInv => CancelledStaysCancelled
  BY DEF TimerInv
<1> QED
  BY <1>1, TimerInvariance, PTL

-----------------------------------------------------------------------------
\* Each pop makes smaller what a pass has still to pop.
LEMMA PopShrinksRipe ==
  ASSUME TypeOK, CallTop \/ SkipTop
  PROVE  Ripe' \subseteq Ripe /\ Ripe' # Ripe
<1>1. PICK t \in heap : Expired(t) /\ heap' = heap \ {t}
  BY DEF CallTop, SkipTop, Tops
<1>2. rem' = rem /\ since' = since
  BY DEF CallTop, SkipTop, loop
<1>3. Ripe' = Ripe \ {t} /\ t \in Ripe
  BY <1>1, <1>2 DEF Ripe, Expired
<1> QED
  BY <1>3

\* A timer whose time has come or has not come for the clock of the pass stays so
\* while time passes.
LEMMA TickKeepsRipe ==
  ASSUME TypeOK, InPass, Tick
  PROVE  Ripe' = Ripe
<1>1. /\ rem \in [Timer -> Int] /\ heap \subseteq Timer /\ since \in Nat
      /\ since < MaxStall /\ since' = since + 1 /\ heap' = heap
      /\ rem' = [t \in Timer |-> Later(rem[t])]
  BY DEF TypeOK, InPass, Tick
<1>2. ASSUME NEW t \in Timer
      PROVE  rem'[t] + since' < 0 <=> rem[t] + since < 0
  <2>1. rem[t] \in Int /\ rem'[t] = Later(rem[t])
    BY <1>1
  <2>2. CASE rem[t] > Overdue
    BY <1>1, <2>1, <2>2 DEF Later
  <2>3. CASE ~(rem[t] > Overdue)
    <3>1. rem'[t] = Overdue
      BY <2>1, <2>3 DEF Later
    <3> QED
      BY <1>1, <2>1, <2>3, <3>1, MaxStallAssumption DEF Overdue
  <2> QED
    BY <2>2, <2>3
<1> QED
  BY <1>1, <1>2 DEF Ripe, Expired

\* A repeating timer goes back into the heap ahead of the clock of the pass.
LEMMA ReturnShrinksRipe ==
  ASSUME TypeOK, InsertedOnce, CallbackReturns
  PROVE  Ripe' \subseteq Ripe
<1>1. /\ rem \in [Timer -> Int] /\ heap \subseteq Timer /\ since \in Nat
      /\ cur \in Timer \ heap /\ interval[cur] \in Nat /\ since' = since
  BY DEF CallbackReturns, TypeOK, InsertedOnce
<1>2. CASE interval[cur] > 0
  <2>1. rem' = [rem EXCEPT ![cur] = interval[cur]] /\ heap' = heap \union {cur}
    BY <1>2 DEF CallbackReturns
  <2>2. rem'[cur] = interval[cur] /\ \A t \in heap : rem'[t] = rem[t]
    BY <1>1, <2>1
  <2>3. ~(rem'[cur] + since' < 0)
    BY <1>1, <1>2, <2>2
  <2> QED
    BY <1>1, <2>1, <2>2, <2>3 DEF Ripe, Expired
<1>3. CASE ~(interval[cur] > 0)
  BY <1>1, <1>3 DEF CallbackReturns, Ripe, Expired
<1> QED
  BY <1>2, <1>3

\* So does a timer that a callback or another thread makes.
LEMMA AddShrinksRipe ==
  ASSUME TypeOK, NEW t \in Timer, NEW d \in Delays, NEW i \in Intervals,
         AddInLoop(t, d, i) \/ AddFromThread(t, d, i)
  PROVE  Ripe' \subseteq Ripe
<1>1. /\ rem \in [Timer -> Int] /\ heap \subseteq Timer /\ since \in Nat
      /\ t \notin heap /\ heap' \subseteq heap \union {t} /\ since' = since
      /\ rem' = [rem EXCEPT ![t] = d]
  BY DEF AddInLoop, AddFromThread, Make, InsertTask, TypeOK, queue
<1>2. rem'[t] = d /\ \A u \in heap : rem'[u] = rem[u]
  BY <1>1
<1>3. ~(rem'[t] + since' < 0)
  BY <1>1, <1>2, DelaysAssumption
<1> QED
  BY <1>1, <1>2, <1>3 DEF Ripe, Expired

LEMMA PassStep ==
  ASSUME TimerInv, [Next]_vars, InPass, InPass'
  PROVE  /\ Ripe' \subseteq Ripe
         /\ CallTop \/ SkipTop => Ripe' # Ripe
<1>1. TypeOK /\ InsertedOnce
  BY DEF TimerInv
<1>2. CallTop \/ SkipTop => Ripe' \subseteq Ripe /\ Ripe' # Ripe
  BY <1>1, PopShrinksRipe
<1>3. Report \/ HandleExpired \/ HandleEnds \/ RunTask => FALSE
  BY DEF InPass, Report, HandleExpired, HandleEnds, RunTask
<1>4. CallbackReturns => Ripe' \subseteq Ripe
  BY <1>1, ReturnShrinksRipe
<1>5. Tick => Ripe' \subseteq Ripe
  BY <1>1, TickKeepsRipe
<1>6. CASE \E t \in Timer, d \in Delays, i \in Intervals :
             AddInLoop(t, d, i) \/ AddFromThread(t, d, i)
  BY <1>1, <1>2, <1>6, AddShrinksRipe
<1>7. CASE \E t \in Timer : RemoveInLoop(t) \/ RemoveFromThread(t)
  <2>1. UNCHANGED <<rem, heap, since>>
    BY <1>7 DEF RemoveInLoop, RemoveFromThread, EraseTask, queue, loop
  <2> QED
    BY <1>2, <2>1 DEF Ripe, Expired
<1>8. CASE \E d \in Delays : AddOther(d)
  <2>1. UNCHANGED <<rem, heap, since>>
    BY <1>8 DEF AddOther, loop
  <2> QED
    BY <1>2, <2>1 DEF Ripe, Expired
<1>9. CASE UNCHANGED vars
  BY <1>2, <1>9 DEF vars, Ripe, Expired
<1> QED
  BY <1>2, <1>3, <1>4, <1>5, <1>6, <1>7, <1>8, <1>9 DEF Next, HandleStep

\* What makes a pass of handle_exprired end (TimerQueue.cpp:46-68): callbacks may
\* add timers and repeating ones go back into the heap, but none of them is taken
\* by the same pass, so that it pops no more than was due when it read the clock.
THEOREM PassesShrink == Spec => PassOnlyShrinks
<1>1. TimerInv /\ [Next]_vars =>
        [InPass /\ InPass' =>
           /\ Ripe' \subseteq Ripe
           /\ (CallTop \/ SkipTop => Ripe' # Ripe)]_vars
  BY PassStep
<1> QED
  BY <1>1, TimerInvariance, PTL DEF Spec, PassOnlyShrinks
=============================================================================
