------------------------------ MODULE LoopPool ------------------------------
(***************************************************************************)
(* ThreadingEventLoop and EventLoopThread                                  *)
(* (net/eventloop/ThreadingEventLoop.h and .cpp): the threads of a pool,   *)
(* each with an event loop of its own on its stack, and the owner of the   *)
(* pool, who makes, closes, awaits and destroys them one after the other.  *)
(*                                                                         *)
(* Owner and thread share the pointer loop and the promise running_loop of *)
(* an EventLoopThread.  The pointer is plain and not guarded: the owner    *)
(* reads it, uses what it points to and reads it again while the thread    *)
(* may set it to nullptr and destroy the loop.  Of a loop only _close      *)
(* matters here, and that it ends when that is set (EventLoop).            *)
(*                                                                         *)
(* The program is broken, and the model ends, when                         *)
(*   promise   a thread sets the value of a promise not yet constructed    *)
(*   null      close goes through a loop that is nullptr                   *)
(*   dangling  a method is called, or goes on, on a loop that is destroyed *)
(*   joinable  a thread object is destroyed before it was joined           *)
(***************************************************************************)
EXTENDS Naturals

CONSTANT Size   \* the threads of the pool: thread_num

ASSUME SizeAssumption == Size \in Nat \ {0}

VARIABLES
  place,      \* where thread t is: "none", "starting", "running", or, when run has
              \* returned, "left", "nulled", "over"
  promised,   \* running_loop of thread t: "none", "made" or "set"
  loop,       \* the pointer loop of thread t is not nullptr
  closing,    \* _close of the loop of thread t
  joined,     \* the threads that were joined
  owner,      \* what the owner does, where it is in it, and with which thread;
              \* the thread is Size when it is through
  broken,     \* history: "none", or how the program came to its end
  foreign,    \* history: the loops that somebody else closed
  overtaken   \* history: the threads that ended while the owner was closing them

threadVars == <<place, promised, loop, closing, joined>>
past == <<broken, foreign, overtaken>>
poolVars == <<threadVars, owner, past>>

Thread == 0 .. Size - 1

-----------------------------------------------------------------------------
\* The first step of each operation for a thread, and the operations that it may
\* follow: the owner closes the pool once, and destroys it last.
First(op) ==
  CASE op = "make"  -> "thread"
    [] op = "close" -> "read"
    [] op = "wait"  -> "join"
    [] op = "destroy" -> "test"

MayFollow(op) ==
  CASE op = "wait"  -> {"make"}
    [] op = "close" -> {"make", "wait"}
    [] op = "destroy" -> {"make", "wait", "close"}

PoolInit ==
  /\ place = [t \in Thread |-> "none"]
  /\ promised = [t \in Thread |-> "none"]
  /\ loop = [t \in Thread |-> FALSE]
  /\ closing = [t \in Thread |-> FALSE]
  /\ joined = {}
  /\ owner = [op |-> "make", at |-> First("make"), t |-> 0]
  /\ broken = "none"
  /\ foreign = {}
  /\ overtaken = {}

\* The owner is at a step, with thread t; it goes on with t or with the next one.
OwnerAt(at, t) == owner.at = at /\ owner.t = t

GoOn(at) == owner' = [owner EXCEPT !.at = at]

NextThread ==
  owner' = IF owner.t + 1 < Size
           THEN [owner EXCEPT !.t = @ + 1, !.at = First(owner.op)]
           ELSE [owner EXCEPT !.t = Size, !.at = "idle"]

Break(how) ==
  /\ broken' = how
  /\ UNCHANGED <<threadVars, owner, foreign, overtaken>>

-----------------------------------------------------------------------------
\* Construction of an EventLoopThread.  Its members are made in the order of their
\* declaration: the thread, which starts at once, and then the promise.
MakeThread(t) ==
  /\ OwnerAt("thread", t)
  /\ place' = [place EXCEPT ![t] = "starting"]
  /\ GoOn("promise")
  /\ UNCHANGED <<promised, loop, closing, joined, past>>

MakePromise(t) ==
  /\ OwnerAt("promise", t)
  /\ promised' = [promised EXCEPT ![t] = "made"]
  /\ GoOn("future")
  /\ UNCHANGED <<place, loop, closing, joined, past>>

GetFuture(t) ==
  /\ OwnerAt("future", t)
  /\ promised[t] = "set"
  /\ loop' = [loop EXCEPT ![t] = TRUE]
  /\ NextThread
  /\ UNCHANGED <<place, promised, closing, joined, past>>

-----------------------------------------------------------------------------
\* start_loop: the callback of call_soon, which is called at once, sets the value;
SetValue(t) ==
  /\ place[t] = "starting"
  /\ promised[t] = "made"
  /\ promised' = [promised EXCEPT ![t] = "set"]
  /\ place' = [place EXCEPT ![t] = "running"]
  /\ UNCHANGED <<loop, closing, joined, owner, past>>

SetValueEarly(t) ==
  /\ place[t] = "starting"
  /\ promised[t] = "none"
  /\ Break("promise")

\* run returns after _close was set;
Leave(t) ==
  /\ place[t] = "running"
  /\ closing[t]
  /\ place' = [place EXCEPT ![t] = "left"]
  /\ UNCHANGED <<promised, loop, closing, joined, owner, past>>

\* this->loop = nullptr;
Null(t) ==
  /\ place[t] = "left"
  /\ loop' = [loop EXCEPT ![t] = FALSE]
  /\ place' = [place EXCEPT ![t] = "nulled"]
  /\ overtaken' = IF owner.t = t /\ owner.at \in {"flag", "push", "join"}
                  THEN overtaken \union {t} ELSE overtaken
  /\ UNCHANGED <<promised, closing, joined, owner, broken, foreign>>

\* and the loop, on the stack of start_loop, is destroyed.
End(t) ==
  /\ place[t] = "nulled"
  /\ place' = [place EXCEPT ![t] = "over"]
  /\ UNCHANGED <<promised, loop, closing, joined, owner, past>>

\* A callback of the application calls EventLoop::close of a loop of the pool.
CloseFromCallback(t) ==
  /\ place[t] = "running"
  /\ ~closing[t]
  /\ closing' = [closing EXCEPT ![t] = TRUE]
  /\ foreign' = foreign \union {t}
  /\ UNCHANGED <<place, promised, loop, joined, owner, broken, overtaken>>

-----------------------------------------------------------------------------
\* Mutant of Begin: the workers are closed first.
BeginWithWorkers(op) ==
  /\ owner.at = "idle"
  /\ owner.op \in MayFollow(op)
  /\ owner' = [op |-> op, at |-> First(op), t |-> 1]
  /\ UNCHANGED <<threadVars, past>>

\* The owner calls close, join or wait of the pool, or its destructor.
Begin(op) ==
  /\ owner.at = "idle"
  /\ owner.op \in MayFollow(op)
  /\ owner' = [op |-> op, at |-> First(op), t |-> 0]
  /\ UNCHANGED <<threadVars, past>>

\* EventLoopThread::close reads the pointer,
CloseReads(t) ==
  /\ OwnerAt("read", t)
  /\ IF loop[t] THEN GoOn("flag") /\ UNCHANGED <<threadVars, past>> ELSE Break("null")

\* Mutant of CloseSets: the flag is not set.
CloseForgets(t) ==
  /\ OwnerAt("flag", t)
  /\ IF place[t] = "over" THEN Break("dangling")
     ELSE /\ GoOn("push")
          /\ UNCHANGED <<threadVars, past>>

\* EventLoop::close sets _close, unless it is set, which is all then,
CloseSets(t) ==
  /\ OwnerAt("flag", t)
  /\ IF place[t] = "over" THEN Break("dangling")
     ELSE /\ GoOn(IF closing[t] THEN "join" ELSE "push")
          /\ closing' = [closing EXCEPT ![t] = TRUE]
          /\ UNCHANGED <<place, promised, loop, joined, past>>

\* and wakes the loop, which may have noticed before,
ClosePushes(t) ==
  /\ OwnerAt("push", t)
  /\ IF place[t] = "over" THEN Break("dangling")
     ELSE GoOn("join") /\ UNCHANGED <<threadVars, past>>

\* join reads the pointer anew, and joins the thread if there is one,
AfterJoin == IF owner.op = "wait" THEN NextThread ELSE GoOn("clear")

\* Mutant of JoinReads: the thread is not waited for.
JoinNothing(t) == OwnerAt("join", t) /\ AfterJoin /\ UNCHANGED <<threadVars, past>>

JoinReads(t) ==
  /\ OwnerAt("join", t)
  /\ IF loop[t] THEN GoOn("joining") ELSE AfterJoin
  /\ UNCHANGED <<threadVars, past>>

Join(t) ==
  /\ OwnerAt("joining", t)
  /\ place[t] = "over"
  /\ joined' = joined \union {t}
  /\ AfterJoin
  /\ UNCHANGED <<place, promised, loop, closing, past>>

\* and close sets it to nullptr.
CloseClears(t) ==
  /\ OwnerAt("clear", t)
  /\ loop' = [loop EXCEPT ![t] = FALSE]
  /\ IF owner.op = "destroy" THEN GoOn("members") ELSE NextThread
  /\ UNCHANGED <<place, promised, closing, joined, past>>

\* Mutant of DestroyTests: the destructor closes whatever the pointer is.
DestroyCloses(t) ==
  /\ OwnerAt("test", t)
  /\ GoOn("read")
  /\ UNCHANGED <<threadVars, past>>

\* ~EventLoopThread closes a thread that has a loop,
DestroyTests(t) ==
  /\ OwnerAt("test", t)
  /\ GoOn(IF loop[t] THEN "read" ELSE "members")
  /\ UNCHANGED <<threadVars, past>>

\* and the destructor of its std::thread terminates the program if it is joinable.
DestroyMembers(t) ==
  /\ OwnerAt("members", t)
  /\ IF t \in joined
     THEN NextThread /\ UNCHANGED <<threadVars, past>>
     ELSE Break("joinable")

-----------------------------------------------------------------------------
LoopThread(t) == SetValue(t) \/ SetValueEarly(t) \/ Leave(t) \/ Null(t) \/ End(t)

Owner(t) ==
  \/ MakeThread(t) \/ MakePromise(t) \/ GetFuture(t)
  \/ CloseReads(t) \/ CloseSets(t) \/ ClosePushes(t) \/ JoinReads(t) \/ Join(t)
  \/ CloseClears(t) \/ DestroyTests(t) \/ DestroyMembers(t)

PoolStep ==
  \/ \E t \in Thread : LoopThread(t) \/ Owner(t) \/ CloseFromCallback(t)
  \/ \E op \in {"wait", "close", "destroy"} : Begin(op)

PoolNext == broken = "none" /\ PoolStep

PoolSpec == PoolInit /\ [][PoolNext]_poolVars
-----------------------------------------------------------------------------
PoolTypeOK ==
  /\ place \in [Thread -> {"none", "starting", "running", "left", "nulled", "over"}]
  /\ promised \in [Thread -> {"none", "made", "set"}]
  /\ loop \in [Thread -> BOOLEAN]
  /\ closing \in [Thread -> BOOLEAN]
  /\ joined \subseteq Thread
  /\ owner.op \in {"make", "close", "wait", "destroy"}
  /\ owner.t \in 0 .. Size
  /\ owner.t = Size <=> owner.at = "idle"
  /\ foreign \union overtaken \subseteq Thread

\* Where close, wait or the destructor of the pool has gone on from a thread, that
\* thread calls no callbacks any more, whether it was joined or had ended before:
\* a loop is nullptr only when its run has returned (ThreadingEventLoop.cpp:98-99,
\* 117-121).
DoneThreadsHaveStopped ==
  owner.op # "make" => \A t \in Thread : t < owner.t => place[t] \in {"nulled", "over"}

\* There are three ways to break a pool, all of them a matter of time: the promise;
\* a loop that ends by itself, closed by a callback; and a thread that ends between
\* loop->close() and the second look of join at the pointer.  Otherwise close, wait
\* and destruction are safe in any order that MayFollow allows.
PoolIsSafeUnlessOvertaken ==
  broken \in {"null", "dangling", "joinable"} => owner.t \in foreign \union overtaken

\* close and the destructor of the pool join only threads whose loops were told to
\* end, so they do not wait for ever; wait waits for loops that others close.
NoEndlessJoin == owner.at = "joining" /\ owner.op # "wait" => closing[owner.t]
=============================================================================
