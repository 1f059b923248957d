--------------------------- MODULE LoopPoolProofs ---------------------------
(***************************************************************************)
(* Proofs about LoopPool, for pools of any size.  What the owner may rely  *)
(* on depends on what it has done with a thread so far, so the inductive   *)
(* invariant goes through its operations: before it closes a thread, while *)
(* it does, and after.                                                     *)
(***************************************************************************)
EXTENDS LoopPool, TLAPS

Places ==
  {"thread", "promise", "future", "test", "read", "flag", "push", "join", "joining",
   "clear", "members", "idle"}

OwnerType == [op : {"make", "close", "wait", "destroy"}, at : Places, t : 0 .. Size]

OwnerTypeOK ==
  /\ owner \in OwnerType
  /\ owner.op = "make" => owner.at \in {"thread", "promise", "future", "idle"}
  /\ owner.op = "wait" => owner.at \in {"join", "joining", "idle"}
  /\ owner.op = "close" => owner.at \notin {"thread", "promise", "future", "test", "members"}
  /\ owner.op = "destroy" => owner.at \notin {"thread", "promise", "future"}

\* Thread t has ended, and its pointer been set to nullptr.
Stopped(t) == place[t] \in {"nulled", "over"}

\* Thread t was closed by somebody else, or ended under the owner's hands.
Excused(t) == t \in foreign \union overtaken

\* The owner has the pointer of thread t; it has not told t to end; it is going to
\* look at t in the destructor.
Made(t) == owner.op # "make" \/ t < owner.t

ToClose(t) ==
  \/ owner.op \in {"make", "wait"}
  \/ owner.op = "close" /\ (t > owner.t \/ (t = owner.t /\ owner.at \in {"read", "flag"}))

ToDestroy(t) ==
  owner.op = "destroy" /\ (t > owner.t \/ (t = owner.t /\ owner.at = "test"))

\* What is so of every thread.
ThreadInv(t) ==
  /\ place[t] \in {"left", "nulled", "over"} => closing[t]
  /\ Made(t) /\ ~loop[t] => Stopped(t)
  /\ t \in joined => place[t] = "over" /\ owner.op # "make"
  /\ ToClose(t) /\ closing[t] => t \in foreign
  /\ ToDestroy(t) /\ closing[t] => (t \in joined \/ Excused(t)) /\ (loop[t] => Excused(t))
  /\ owner.op = "close" /\ t < owner.t => (t \in joined \/ Excused(t)) /\ ~loop[t]

\* What is so of the thread that the owner is busy with.
OwnThreadInv ==
  /\ owner.op = "destroy" /\ owner.at \in {"read", "flag"} /\ closing[owner.t] =>
       Excused(owner.t)
  /\ owner.op # "wait" /\ owner.at \in {"push", "join"} /\ Stopped(owner.t) =>
       Excused(owner.t)
  /\ owner.op # "wait" /\ owner.at \in {"push", "join", "joining"} => closing[owner.t]
  /\ owner.at \in {"clear", "members"} =>
       (owner.t \in joined \/ Excused(owner.t)) /\ Stopped(owner.t)

\* The inductive invariant.
PoolInv ==
  /\ PoolTypeOK
  /\ OwnerTypeOK
  /\ \A t \in Thread : ThreadInv(t)
  /\ OwnThreadInv
  /\ DoneThreadsHaveStopped
  /\ PoolIsSafeUnlessOvertaken
-----------------------------------------------------------------------------
\* The ways in which the owner moves on.
LEMMA GoOnEffect ==
  ASSUME owner \in OwnerType, NEW at \in Places, GoOn(at)
  PROVE  owner' \in OwnerType /\ owner'.op = owner.op /\ owner'.at = at /\ owner'.t = owner.t
BY DEF OwnerType, GoOn

LEMMA NextThreadEffect ==
  ASSUME owner \in OwnerType, owner.t \in Thread, NextThread
  PROVE  /\ owner' \in OwnerType
         /\ owner'.op = owner.op
         /\ \/ owner.t + 1 = Size /\ owner'.t = Size /\ owner'.at = "idle"
            \/ /\ owner'.t = owner.t + 1 /\ owner'.t < Size
               /\ owner.op = "make" => owner'.at = "thread"
               /\ owner.op = "close" => owner'.at = "read"
               /\ owner.op = "wait" => owner'.at = "join"
               /\ owner.op = "destroy" => owner'.at = "test"
<1> USE SizeAssumption DEF Thread
<1>1. CASE owner.t + 1 < Size
  <2>1. owner' = [owner EXCEPT !.t = owner.t + 1, !.at = First(owner.op)]
    BY <1>1 DEF NextThread
  <2>2. /\ owner.op = "make" => First(owner.op) = "thread"
        /\ owner.op = "close" => First(owner.op) = "read"
        /\ owner.op = "wait" => First(owner.op) = "join"
        /\ owner.op = "destroy" => First(owner.op) = "test"
    BY DEF First
  <2>3. First(owner.op) \in Places
    BY <2>2 DEF OwnerType, Places
  <2> QED
    <3>1. owner' = [op |-> owner.op, at |-> First(owner.op), t |-> owner.t + 1]
      BY <2>1 DEF OwnerType
    <3> QED
      BY <1>1, <3>1, <2>2, <2>3 DEF OwnerType
<1>2. CASE owner.t + 1 = Size
  <2>1. owner' = [owner EXCEPT !.t = Size, !.at = "idle"]
    BY <1>2 DEF NextThread
  <2>2. "idle" \in Places /\ Size \in 0 .. Size
    BY DEF Places
  <2> QED
    BY <1>2, <2>1, <2>2 DEF OwnerType
<1> QED
  BY <1>1, <1>2

\* The program may come to an end only where it is allowed to.
LEMMA BreakKeepsInv ==
  ASSUME PoolInv, NEW how, Break(how),
         how \in {"null", "dangling", "joinable"} => Excused(owner.t)
  PROVE  PoolInv'
<1>1. UNCHANGED <<place, promised, loop, closing, joined, owner, foreign, overtaken>>
  BY DEF Break, threadVars
<1>2. /\ PoolTypeOK' /\ OwnerTypeOK' /\ OwnThreadInv' /\ DoneThreadsHaveStopped'
      /\ \A t \in Thread : ThreadInv(t)'
  BY <1>1 DEF PoolInv, PoolTypeOK, OwnerTypeOK, OwnThreadInv, DoneThreadsHaveStopped,
     ThreadInv, Made, ToClose, ToDestroy, Excused, Stopped
<1>3. PoolIsSafeUnlessOvertaken'
  BY <1>1 DEF Break, Excused, PoolIsSafeUnlessOvertaken
<1> QED
  BY <1>2, <1>3 DEF PoolInv

\* The steps of a thread, and of callbacks in it.
LEMMA ThreadKeepsInv ==
  ASSUME PoolInv, broken = "none", NEW t \in Thread, LoopThread(t) \/ CloseFromCallback(t)
  PROVE  PoolInv'
<1> USE SizeAssumption DEF Thread, Places, Made, ToClose, ToDestroy, Excused, Stopped
<1>1. /\ PoolTypeOK /\ OwnerTypeOK /\ OwnThreadInv /\ DoneThreadsHaveStopped
      /\ \A u \in Thread : ThreadInv(u)
  BY DEF PoolInv
<1>2. ASSUME SetValue(t)
     PROVE  PoolInv'
  <2> USE <1>1, <1>2 DEF SetValue, OwnerAt, threadVars, past
  <2>1. PoolTypeOK' /\ OwnerTypeOK'
    BY DEF PoolTypeOK, OwnerTypeOK, OwnerType
  <2>2. ASSUME NEW u \in Thread PROVE ThreadInv(u)'
    BY
       DEF PoolTypeOK, OwnerTypeOK, OwnerType, DoneThreadsHaveStopped,
           ThreadInv, OwnThreadInv
  <2>3. OwnThreadInv' /\ DoneThreadsHaveStopped'
    BY
       DEF PoolTypeOK, OwnerTypeOK, OwnerType, DoneThreadsHaveStopped,
           ThreadInv, OwnThreadInv
  <2> QED
    BY <2>1, <2>2, <2>3 DEF PoolInv, PoolIsSafeUnlessOvertaken
<1>3. ASSUME SetValueEarly(t)
     PROVE  PoolInv'
  BY <1>3, BreakKeepsInv DEF SetValueEarly
<1>4. ASSUME Leave(t)
     PROVE  PoolInv'
  <2> USE <1>1, <1>4 DEF Leave, OwnerAt, threadVars, past
  <2>1. PoolTypeOK' /\ OwnerTypeOK'
    BY DEF PoolTypeOK, OwnerTypeOK, OwnerType
  <2>2. ASSUME NEW u \in Thread PROVE ThreadInv(u)'
    BY
       DEF PoolTypeOK, OwnerTypeOK, OwnerType, DoneThreadsHaveStopped,
           ThreadInv, OwnThreadInv
  <2>3. OwnThreadInv' /\ DoneThreadsHaveStopped'
    BY
       DEF PoolTypeOK, OwnerTypeOK, OwnerType, DoneThreadsHaveStopped,
           ThreadInv, OwnThreadInv
  <2> QED
    BY <2>1, <2>2, <2>3 DEF PoolInv, PoolIsSafeUnlessOvertaken
<1>5. ASSUME Null(t)
     PROVE  PoolInv'
  <2> USE <1>1, <1>5 DEF Null, OwnerAt, threadVars, past
  <2>1. PoolTypeOK' /\ OwnerTypeOK'
    BY DEF PoolTypeOK, OwnerTypeOK, OwnerType
  <2>2. ASSUME NEW u \in Thread PROVE ThreadInv(u)'
    BY
       DEF PoolTypeOK, OwnerTypeOK, OwnerType, DoneThreadsHaveStopped,
           ThreadInv, OwnThreadInv
  <2>3. OwnThreadInv' /\ DoneThreadsHaveStopped'
    BY
       DEF PoolTypeOK, OwnerTypeOK, OwnerType, DoneThreadsHaveStopped,
           ThreadInv, OwnThreadInv
  <2> QED
    BY <2>1, <2>2, <2>3 DEF PoolInv, PoolIsSafeUnlessOvertaken
<1>6. ASSUME End(t)
     PROVE  PoolInv'
  <2> USE <1>1, <1>6 DEF End, OwnerAt, threadVars, past
  <2>1. PoolTypeOK' /\ OwnerTypeOK'
    BY DEF PoolTypeOK, OwnerTypeOK, OwnerType
  <2>2. ASSUME NEW u \in Thread PROVE ThreadInv(u)'
    BY
       DEF PoolTypeOK, OwnerTypeOK, OwnerType, DoneThreadsHaveStopped,
           ThreadInv, OwnThreadInv
  <2>3. OwnThreadInv' /\ DoneThreadsHaveStopped'
    BY
       DEF PoolTypeOK, OwnerTypeOK, OwnerType, DoneThreadsHaveStopped,
           ThreadInv, OwnThreadInv
  <2> QED
    BY <2>1, <2>2, <2>3 DEF PoolInv, PoolIsSafeUnlessOvertaken
<1>7. ASSUME CloseFromCallback(t)
     PROVE  PoolInv'
  <2> USE <1>1, <1>7 DEF CloseFromCallback, OwnerAt, threadVars, past
  <2>1. PoolTypeOK' /\ OwnerTypeOK'
    BY DEF PoolTypeOK, OwnerTypeOK, OwnerType
  <2>2. ASSUME NEW u \in Thread PROVE ThreadInv(u)'
    BY
       DEF PoolTypeOK, OwnerTypeOK, OwnerType, DoneThreadsHaveStopped,
           ThreadInv, OwnThreadInv
  <2>3. OwnThreadInv' /\ DoneThreadsHaveStopped'
    BY
       DEF PoolTypeOK, OwnerTypeOK, OwnerType, DoneThreadsHaveStopped,
           ThreadInv, OwnThreadInv
  <2> QED
    BY <2>1, <2>2, <2>3 DEF PoolInv, PoolIsSafeUnlessOvertaken
<1> QED
  BY <1>2, <1>3, <1>4, <1>5, <1>6, <1>7 DEF LoopThread

\* The steps of the owner with thread t.
LEMMA OwnerKeepsInv ==
  ASSUME PoolInv, broken = "none", NEW t \in Thread, Owner(t)
  PROVE  PoolInv'
<1> USE SizeAssumption DEF Thread, Places, Made, ToClose, ToDestroy, Excused, Stopped
<1>1. /\ PoolTypeOK /\ OwnerTypeOK /\ OwnThreadInv /\ DoneThreadsHaveStopped
      /\ \A u \in Thread : ThreadInv(u)
  BY DEF PoolInv
<1>2. ASSUME MakeThread(t)
     PROVE  PoolInv'
  <2>1. GoOn("promise") /\ owner.t = t
    BY <1>2 DEF MakeThread, OwnerAt
  <2> USE <1>1, <1>2, <2>1, GoOnEffect DEF MakeThread, OwnerAt, threadVars, past
  <2>2. PoolTypeOK' /\ OwnerTypeOK'
    BY DEF PoolTypeOK, OwnerTypeOK, OwnerType
  <2>3. ASSUME NEW u \in Thread PROVE ThreadInv(u)'
    BY
       DEF PoolTypeOK, OwnerTypeOK, OwnerType, DoneThreadsHaveStopped,
           ThreadInv, OwnThreadInv
  <2>4. OwnThreadInv' /\ DoneThreadsHaveStopped'
    BY
       DEF PoolTypeOK, OwnerTypeOK, OwnerType, DoneThreadsHaveStopped,
           ThreadInv, OwnThreadInv
  <2> QED
    BY <2>2, <2>3, <2>4 DEF PoolInv, PoolIsSafeUnlessOvertaken
<1>3. ASSUME MakePromise(t)
     PROVE  PoolInv'
  <2>1. GoOn("future") /\ owner.t = t
    BY <1>3 DEF MakePromise, OwnerAt
  <2> USE <1>1, <1>3, <2>1, GoOnEffect DEF MakePromise, OwnerAt, threadVars, past
  <2>2. PoolTypeOK' /\ OwnerTypeOK'
    BY DEF PoolTypeOK, OwnerTypeOK, OwnerType
  <2>3. ASSUME NEW u \in Thread PROVE ThreadInv(u)'
    BY
       DEF PoolTypeOK, OwnerTypeOK, OwnerType, DoneThreadsHaveStopped,
           ThreadInv, OwnThreadInv
  <2>4. OwnThreadInv' /\ DoneThreadsHaveStopped'
    BY
       DEF PoolTypeOK, OwnerTypeOK, OwnerType, DoneThreadsHaveStopped,
           ThreadInv, OwnThreadInv
  <2> QED
    BY <2>2, <2>3, <2>4 DEF PoolInv, PoolIsSafeUnlessOvertaken
<1>4. ASSUME GetFuture(t)
     PROVE  PoolInv'
  <2>1. NextThread /\ owner.t = t
    BY <1>1, <1>4 DEF GetFuture, OwnerAt
  <2> USE <1>1, <1>4, <2>1, NextThreadEffect DEF GetFuture, OwnerAt, threadVars, past
  <2>2. PoolTypeOK' /\ OwnerTypeOK'
    BY DEF PoolTypeOK, OwnerTypeOK, OwnerType
  <2>3. ASSUME NEW u \in Thread PROVE ThreadInv(u)'
    BY
       DEF PoolTypeOK, OwnerTypeOK, OwnerType, DoneThreadsHaveStopped,
           ThreadInv, OwnThreadInv
  <2>4. OwnThreadInv' /\ DoneThreadsHaveStopped'
    BY
       DEF PoolTypeOK, OwnerTypeOK, OwnerType, DoneThreadsHaveStopped,
           ThreadInv, OwnThreadInv
  <2> QED
    BY <2>2, <2>3, <2>4 DEF PoolInv, PoolIsSafeUnlessOvertaken
<1>5. ASSUME CloseReads(t), loop[t]
     PROVE  PoolInv'
  <2>1. GoOn("flag") /\ owner.t = t
    BY <1>5 DEF CloseReads, OwnerAt
  <2> USE <1>1, <1>5, <2>1, GoOnEffect DEF CloseReads, OwnerAt, threadVars, past
  <2>2. PoolTypeOK' /\ OwnerTypeOK'
    BY DEF PoolTypeOK, OwnerTypeOK, OwnerType
  <2>3. ASSUME NEW u \in Thread PROVE ThreadInv(u)'
    BY
       DEF PoolTypeOK, OwnerTypeOK, OwnerType, DoneThreadsHaveStopped,
           ThreadInv, OwnThreadInv
  <2>4. OwnThreadInv' /\ DoneThreadsHaveStopped'
    BY
       DEF PoolTypeOK, OwnerTypeOK, OwnerType, DoneThreadsHaveStopped,
           ThreadInv, OwnThreadInv
  <2> QED
    BY <2>2, <2>3, <2>4 DEF PoolInv, PoolIsSafeUnlessOvertaken
<1>6. ASSUME CloseReads(t), ~loop[t]
     PROVE  PoolInv'
  <2>1. Break("null") /\ owner.t = t
    BY <1>6 DEF CloseReads, OwnerAt
  <2>2. Excused(owner.t)
    BY <1>1, <1>6
       DEF CloseReads, OwnerAt, PoolTypeOK, OwnerTypeOK, ThreadInv, OwnThreadInv
  <2> QED
    BY <2>1, <2>2, BreakKeepsInv
<1>7. ASSUME CloseSets(t), place[t] = "over"
     PROVE  PoolInv'
  <2>1. Break("dangling") /\ owner.t = t
    BY <1>7 DEF CloseSets, OwnerAt
  <2>2. Excused(owner.t)
    BY <1>1, <1>7
       DEF CloseSets, OwnerAt, PoolTypeOK, OwnerTypeOK, ThreadInv, OwnThreadInv
  <2> QED
    BY <2>1, <2>2, BreakKeepsInv
<1>8. ASSUME CloseSets(t), place[t] # "over", closing[t]
     PROVE  PoolInv'
  <2>1. GoOn("join") /\ owner.t = t
    BY <1>8 DEF CloseSets, OwnerAt
  <2> USE <1>1, <1>8, <2>1, GoOnEffect DEF CloseSets, OwnerAt, threadVars, past
  <2>2. PoolTypeOK' /\ OwnerTypeOK'
    BY DEF PoolTypeOK, OwnerTypeOK, OwnerType
  <2>3. ASSUME NEW u \in Thread PROVE ThreadInv(u)'
    BY
       DEF PoolTypeOK, OwnerTypeOK, OwnerType, DoneThreadsHaveStopped,
           ThreadInv, OwnThreadInv
  <2>4. OwnThreadInv' /\ DoneThreadsHaveStopped'
    BY
       DEF PoolTypeOK, OwnerTypeOK, OwnerType, DoneThreadsHaveStopped,
           ThreadInv, OwnThreadInv
  <2> QED
    BY <2>2, <2>3, <2>4 DEF PoolInv, PoolIsSafeUnlessOvertaken
<1>9. ASSUME CloseSets(t), place[t] # "over", ~closing[t]
     PROVE  PoolInv'
  <2>1. GoOn("push") /\ owner.t = t
    BY <1>9 DEF CloseSets, OwnerAt
  <2> USE <1>1, <1>9, <2>1, GoOnEffect DEF CloseSets, OwnerAt, threadVars, past
  <2>2. PoolTypeOK' /\ OwnerTypeOK'
    BY DEF PoolTypeOK, OwnerTypeOK, OwnerType
  <2>3. ASSUME NEW u \in Thread PROVE ThreadInv(u)'
    BY
       DEF PoolTypeOK, OwnerTypeOK, OwnerType, DoneThreadsHaveStopped,
           ThreadInv, OwnThreadInv
  <2>4. OwnThreadInv' /\ DoneThreadsHaveStopped'
    BY
       DEF PoolTypeOK, OwnerTypeOK, OwnerType, DoneThreadsHaveStopped,
           ThreadInv, OwnThreadInv
  <2> QED
    BY <2>2, <2>3, <2>4 DEF PoolInv, PoolIsSafeUnlessOvertaken
<1>10. ASSUME ClosePushes(t), place[t] = "over"
     PROVE  PoolInv'
  <2>1. Break("dangling") /\ owner.t = t
    BY <1>10 DEF ClosePushes, OwnerAt
  <2>2. Excused(owner.t)
    BY <1>1, <1>10
       DEF ClosePushes, OwnerAt, PoolTypeOK, OwnerTypeOK, ThreadInv,
           OwnThreadInv
  <2> QED
    BY <2>1, <2>2, BreakKeepsInv
<1>11. ASSUME ClosePushes(t), place[t] # "over"
     PROVE  PoolInv'
  <2>1. GoOn("join") /\ owner.t = t
    BY <1>11 DEF ClosePushes, OwnerAt
  <2> USE <1>1, <1>11, <2>1, GoOnEffect DEF ClosePushes, OwnerAt, threadVars, past
  <2>2. PoolTypeOK' /\ OwnerTypeOK'
    BY DEF PoolTypeOK, OwnerTypeOK, OwnerType
  <2>3. ASSUME NEW u \in Thread PROVE ThreadInv(u)'
    BY
       DEF PoolTypeOK, OwnerTypeOK, OwnerType, DoneThreadsHaveStopped,
           ThreadInv, OwnThreadInv
  <2>4. OwnThreadInv' /\ DoneThreadsHaveStopped'
    BY
       DEF PoolTypeOK, OwnerTypeOK, OwnerType, DoneThreadsHaveStopped,
           ThreadInv, OwnThreadInv
  <2> QED
    BY <2>2, <2>3, <2>4 DEF PoolInv, PoolIsSafeUnlessOvertaken
<1>12. ASSUME JoinReads(t), loop[t]
     PROVE  PoolInv'
  <2>1. GoOn("joining") /\ owner.t = t
    BY <1>12 DEF JoinReads, OwnerAt, AfterJoin
  <2> USE <1>1, <1>12, <2>1, GoOnEffect DEF JoinReads, OwnerAt, threadVars, past
  <2>2. PoolTypeOK' /\ OwnerTypeOK'
    BY DEF PoolTypeOK, OwnerTypeOK, OwnerType
  <2>3. ASSUME NEW u \in Thread PROVE ThreadInv(u)'
    BY
       DEF PoolTypeOK, OwnerTypeOK, OwnerType, DoneThreadsHaveStopped,
           ThreadInv, OwnThreadInv
  <2>4. OwnThreadInv' /\ DoneThreadsHaveStopped'
    BY
       DEF PoolTypeOK, OwnerTypeOK, OwnerType, DoneThreadsHaveStopped,
           ThreadInv, OwnThreadInv
  <2> QED
    BY <2>2, <2>3, <2>4 DEF PoolInv, PoolIsSafeUnlessOvertaken
<1>13. ASSUME JoinReads(t), ~loop[t], owner.op = "wait"
     PROVE  PoolInv'
  <2>1. NextThread /\ owner.t = t
    BY <1>1, <1>13 DEF JoinReads, OwnerAt, AfterJoin
  <2> USE <1>1, <1>13, <2>1, NextThreadEffect DEF JoinReads, OwnerAt, threadVars, past
  <2>2. PoolTypeOK' /\ OwnerTypeOK'
    BY DEF PoolTypeOK, OwnerTypeOK, OwnerType
  <2>3. ASSUME NEW u \in Thread PROVE ThreadInv(u)'
    BY
       DEF PoolTypeOK, OwnerTypeOK, OwnerType, DoneThreadsHaveStopped,
           ThreadInv, OwnThreadInv
  <2>4. OwnThreadInv' /\ DoneThreadsHaveStopped'
    BY
       DEF PoolTypeOK, OwnerTypeOK, OwnerType, DoneThreadsHaveStopped,
           ThreadInv, OwnThreadInv
  <2> QED
    BY <2>2, <2>3, <2>4 DEF PoolInv, PoolIsSafeUnlessOvertaken
<1>14. ASSUME JoinReads(t), ~loop[t], owner.op # "wait"
     PROVE  PoolInv'
  <2>1. GoOn("clear") /\ owner.t = t
    BY <1>14 DEF JoinReads, OwnerAt, AfterJoin
  <2> USE <1>1, <1>14, <2>1, GoOnEffect DEF JoinReads, OwnerAt, threadVars, past
  <2>2. PoolTypeOK' /\ OwnerTypeOK'
    BY DEF PoolTypeOK, OwnerTypeOK, OwnerType
  <2>3. ASSUME NEW u \in Thread PROVE ThreadInv(u)'
    BY
       DEF PoolTypeOK, OwnerTypeOK, OwnerType, DoneThreadsHaveStopped,
           ThreadInv, OwnThreadInv
  <2>4. OwnThreadInv' /\ DoneThreadsHaveStopped'
    BY
       DEF PoolTypeOK, OwnerTypeOK, OwnerType, DoneThreadsHaveStopped,
           ThreadInv, OwnThreadInv
  <2> QED
    BY <2>2, <2>3, <2>4 DEF PoolInv, PoolIsSafeUnlessOvertaken
<1>15. ASSUME Join(t), owner.op = "wait"
     PROVE  PoolInv'
  <2>1. NextThread /\ owner.t = t
    BY <1>1, <1>15 DEF Join, OwnerAt, AfterJoin
  <2> USE <1>1, <1>15, <2>1, NextThreadEffect DEF Join, OwnerAt, threadVars, past
  <2>2. PoolTypeOK' /\ OwnerTypeOK'
    BY DEF PoolTypeOK, OwnerTypeOK, OwnerType
  <2>3. ASSUME NEW u \in Thread PROVE ThreadInv(u)'
    BY
       DEF PoolTypeOK, OwnerTypeOK, OwnerType, DoneThreadsHaveStopped,
           ThreadInv, OwnThreadInv
  <2>4. OwnThreadInv' /\ DoneThreadsHaveStopped'
    BY
       DEF PoolTypeOK, OwnerTypeOK, OwnerType, DoneThreadsHaveStopped,
           ThreadInv, OwnThreadInv
  <2> QED
    BY <2>2, <2>3, <2>4 DEF PoolInv, PoolIsSafeUnlessOvertaken
<1>16. ASSUME Join(t), owner.op # "wait"
     PROVE  PoolInv'
  <2>1. GoOn("clear") /\ owner.t = t
    BY <1>16 DEF Join, OwnerAt, AfterJoin
  <2> USE <1>1, <1>16, <2>1, GoOnEffect DEF Join, OwnerAt, threadVars, past
  <2>2. PoolTypeOK' /\ OwnerTypeOK'
    BY DEF PoolTypeOK, OwnerTypeOK, OwnerType
  <2>3. ASSUME NEW u \in Thread PROVE ThreadInv(u)'
    BY
       DEF PoolTypeOK, OwnerTypeOK, OwnerType, DoneThreadsHaveStopped,
           ThreadInv, OwnThreadInv
  <2>4. OwnThreadInv' /\ DoneThreadsHaveStopped'
    BY
       DEF PoolTypeOK, OwnerTypeOK, OwnerType, DoneThreadsHaveStopped,
           ThreadInv, OwnThreadInv
  <2> QED
    BY <2>2, <2>3, <2>4 DEF PoolInv, PoolIsSafeUnlessOvertaken
<1>17. ASSUME CloseClears(t), owner.op = "destroy"
     PROVE  PoolInv'
  <2>1. GoOn("members") /\ owner.t = t
    BY <1>17 DEF CloseClears, OwnerAt
  <2> USE <1>1, <1>17, <2>1, GoOnEffect DEF CloseClears, OwnerAt, threadVars, past
  <2>2. PoolTypeOK' /\ OwnerTypeOK'
    BY DEF PoolTypeOK, OwnerTypeOK, OwnerType
  <2>3. ASSUME NEW u \in Thread PROVE ThreadInv(u)'
    BY
       DEF PoolTypeOK, OwnerTypeOK, OwnerType, DoneThreadsHaveStopped,
           ThreadInv, OwnThreadInv
  <2>4. OwnThreadInv' /\ DoneThreadsHaveStopped'
    BY
       DEF PoolTypeOK, OwnerTypeOK, OwnerType, DoneThreadsHaveStopped,
           ThreadInv, OwnThreadInv
  <2> QED
    BY <2>2, <2>3, <2>4 DEF PoolInv, PoolIsSafeUnlessOvertaken
<1>18. ASSUME CloseClears(t), owner.op # "destroy"
     PROVE  PoolInv'
  <2>1. NextThread /\ owner.t = t /\ owner.op = "close"
    BY <1>1, <1>18 DEF CloseClears, OwnerAt, OwnerTypeOK, OwnerType
  <2> USE <1>1, <1>18, <2>1, NextThreadEffect DEF CloseClears, OwnerAt, threadVars, past
  <2>2. PoolTypeOK' /\ OwnerTypeOK'
    BY DEF PoolTypeOK, OwnerTypeOK, OwnerType
  <2>3. ASSUME NEW u \in Thread PROVE ThreadInv(u)'
    BY
       DEF PoolTypeOK, OwnerTypeOK, OwnerType, DoneThreadsHaveStopped,
           ThreadInv, OwnThreadInv
  <2>4. OwnThreadInv' /\ DoneThreadsHaveStopped'
    BY
       DEF PoolTypeOK, OwnerTypeOK, OwnerType, DoneThreadsHaveStopped,
           ThreadInv, OwnThreadInv
  <2> QED
    BY <2>2, <2>3, <2>4 DEF PoolInv, PoolIsSafeUnlessOvertaken
<1>19. ASSUME DestroyTests(t), loop[t]
     PROVE  PoolInv'
  <2>1. GoOn("read") /\ owner.t = t
    BY <1>19 DEF DestroyTests, OwnerAt
  <2> USE <1>1, <1>19, <2>1, GoOnEffect DEF DestroyTests, OwnerAt, threadVars, past
  <2>2. PoolTypeOK' /\ OwnerTypeOK'
    BY DEF PoolTypeOK, OwnerTypeOK, OwnerType
  <2>3. ASSUME NEW u \in Thread PROVE ThreadInv(u)'
    BY
       DEF PoolTypeOK, OwnerTypeOK, OwnerType, DoneThreadsHaveStopped,
           ThreadInv, OwnThreadInv
  <2>4. OwnThreadInv' /\ DoneThreadsHaveStopped'
    BY
       DEF PoolTypeOK, OwnerTypeOK, OwnerType, DoneThreadsHaveStopped,
           ThreadInv, OwnThreadInv
  <2> QED
    BY <2>2, <2>3, <2>4 DEF PoolInv, PoolIsSafeUnlessOvertaken
<1>20. ASSUME DestroyTests(t), ~loop[t]
     PROVE  PoolInv'
  <2>1. GoOn("members") /\ owner.t = t
    BY <1>20 DEF DestroyTests, OwnerAt
  <2> USE <1>1, <1>20, <2>1, GoOnEffect DEF DestroyTests, OwnerAt, threadVars, past
  <2>2. PoolTypeOK' /\ OwnerTypeOK'
    BY DEF PoolTypeOK, OwnerTypeOK, OwnerType
  <2>3. ASSUME NEW u \in Thread PROVE ThreadInv(u)'
    BY
       DEF PoolTypeOK, OwnerTypeOK, OwnerType, DoneThreadsHaveStopped,
           ThreadInv, OwnThreadInv
  <2>4. OwnThreadInv' /\ DoneThreadsHaveStopped'
    BY
       DEF PoolTypeOK, OwnerTypeOK, OwnerType, DoneThreadsHaveStopped,
           ThreadInv, OwnThreadInv
  <2> QED
    BY <2>2, <2>3, <2>4 DEF PoolInv, PoolIsSafeUnlessOvertaken
<1>21. ASSUME DestroyMembers(t), t \in joined
     PROVE  PoolInv'
  <2>1. NextThread /\ owner.t = t /\ owner.op = "destroy"
    BY <1>1, <1>21 DEF DestroyMembers, OwnerAt, OwnerTypeOK, OwnerType
  <2> USE <1>1, <1>21, <2>1, NextThreadEffect DEF DestroyMembers, OwnerAt, threadVars, past
  <2>2. PoolTypeOK'
    <3>1. /\ owner'.op \in {"make", "close", "wait", "destroy"} /\ owner'.t \in 0 .. Size
          /\ owner'.t = Size <=> owner'.at = "idle"
      BY DEF OwnerTypeOK, OwnerType
    <3> QED
      BY <3>1 DEF PoolTypeOK
  <2>3. OwnerTypeOK'
    BY DEF PoolTypeOK, OwnerTypeOK, OwnerType
  <2>4. ASSUME NEW u \in Thread PROVE ThreadInv(u)'
    BY
       DEF PoolTypeOK, OwnerTypeOK, OwnerType, DoneThreadsHaveStopped,
           ThreadInv, OwnThreadInv
  <2>5. OwnThreadInv' /\ DoneThreadsHaveStopped'
    BY
       DEF PoolTypeOK, OwnerTypeOK, OwnerType, DoneThreadsHaveStopped,
           ThreadInv, OwnThreadInv
  <2> QED
    BY <2>2, <2>3, <2>4, <2>5 DEF PoolInv, PoolIsSafeUnlessOvertaken
<1>22. ASSUME DestroyMembers(t), t \notin joined
     PROVE  PoolInv'
  <2>1. Break("joinable") /\ owner.t = t
    BY <1>22 DEF DestroyMembers, OwnerAt
  <2>2. Excused(owner.t)
    BY <1>1, <1>22
       DEF DestroyMembers, OwnerAt, PoolTypeOK, OwnerTypeOK, ThreadInv,
           OwnThreadInv
  <2> QED
    BY <2>1, <2>2, BreakKeepsInv
<1> QED
  BY <1>2, <1>3, <1>4, <1>5, <1>6, <1>7, <1>8, <1>9, <1>10, <1>11, <1>12, <1>13,
     <1>14, <1>15, <1>16, <1>17, <1>18, <1>19, <1>20, <1>21, <1>22
     DEF Owner

LEMMA BeginKeepsInv ==
  ASSUME PoolInv, broken = "none", NEW op \in {"wait", "close", "destroy"}, Begin(op)
  PROVE  PoolInv'
<1> USE SizeAssumption DEF Thread, Places, Made, ToClose, ToDestroy, Excused, Stopped
<1>1. /\ PoolTypeOK /\ OwnerTypeOK /\ OwnThreadInv /\ DoneThreadsHaveStopped
      /\ \A t \in Thread : ThreadInv(t)
  BY DEF PoolInv
<1>2. /\ owner' = [op |-> op, at |-> First(op), t |-> 0]
      /\ owner.at = "idle" /\ owner.op \in MayFollow(op) /\ owner.t = Size
      /\ UNCHANGED <<place, promised, loop, closing, joined, broken, foreign, overtaken>>
  BY <1>1 DEF Begin, PoolTypeOK, threadVars, past
<1>3. First(op) = IF op = "wait" THEN "join" ELSE IF op = "close" THEN "read" ELSE "test"
  BY DEF First
<1>4. /\ owner.op \in {"make", "wait", "close"}
      /\ op # "destroy" => owner.op # "close"
  BY <1>2 DEF MayFollow
<1> USE <1>1, <1>2, <1>3, <1>4
<1>5. PoolTypeOK' /\ OwnerTypeOK'
  BY DEF PoolTypeOK, OwnerTypeOK, OwnerType
<1>6. ASSUME NEW u \in Thread PROVE ThreadInv(u)'
  BY DEF PoolTypeOK, OwnerTypeOK, ThreadInv, OwnThreadInv
<1>7. OwnThreadInv' /\ DoneThreadsHaveStopped'
  BY DEF PoolTypeOK, OwnerTypeOK, OwnThreadInv, DoneThreadsHaveStopped
<1> QED
  BY <1>5, <1>6, <1>7 DEF PoolInv, PoolIsSafeUnlessOvertaken

LEMMA PoolStepKeepsInv ==
  ASSUME PoolInv, broken = "none", PoolStep
  PROVE  PoolInv'
BY ThreadKeepsInv, OwnerKeepsInv, BeginKeepsInv DEF PoolStep

LEMMA StutterKeepsInv ==
  ASSUME PoolInv, UNCHANGED poolVars
  PROVE  PoolInv'
BY DEF poolVars, threadVars, past, PoolInv, PoolTypeOK, OwnerTypeOK, OwnThreadInv,
   DoneThreadsHaveStopped, PoolIsSafeUnlessOvertaken, ThreadInv, Made, ToClose, ToDestroy,
   Excused, Stopped

LEMMA InitPoolInv == PoolInit => PoolInv
BY SizeAssumption
   DEF PoolInit, Thread, First, Places, PoolInv, PoolTypeOK, OwnerTypeOK, OwnerType,
       OwnThreadInv,
       DoneThreadsHaveStopped, PoolIsSafeUnlessOvertaken, ThreadInv, Made, ToClose,
       ToDestroy, Excused, Stopped

LEMMA InvImpliesNoEndlessJoin == PoolInv => NoEndlessJoin
BY DEF PoolInv, OwnThreadInv, NoEndlessJoin

\* The owner's walk over its threads (the constructor, wait, close and the destructor of
\* ThreadingEventLoop) keeps the invariant whatever the threads and the callbacks that
\* close loops do in between.
THEOREM PoolInvariant == PoolSpec => []PoolInv
<1>1. PoolInv /\ [PoolNext]_poolVars => PoolInv'
  BY PoolStepKeepsInv, StutterKeepsInv DEF PoolNext
<1> QED
  BY InitPoolInv, <1>1, PTL DEF PoolSpec

\* Where close, wait or the destructor of a pool of any size has gone on from a thread,
\* start_loop of that thread has left run: it calls no callbacks any more.
THEOREM WaitedForThreadsHaveStopped == PoolSpec => []DoneThreadsHaveStopped
<1>1. PoolInv => DoneThreadsHaveStopped
  BY DEF PoolInv
<1> QED
  BY PoolInvariant, <1>1, PTL

\* EventLoopThread::close and ~EventLoopThread go through no nullptr and no destroyed
\* loop, and destroy no joinable thread, unless a callback closed the loop or the
\* thread ended while close had it in hand.
THEOREM PoolSafety == PoolSpec => []PoolIsSafeUnlessOvertaken
<1>1. PoolInv => PoolIsSafeUnlessOvertaken
  BY DEF PoolInv
<1> QED
  BY PoolInvariant, <1>1, PTL

\* close and the destructor of the pool wait only for loops whose _close is set.
THEOREM PoolJoinsEnd == PoolSpec => []NoEndlessJoin
BY PoolInvariant, InvImpliesNoEndlessJoin, PTL
=============================================================================
