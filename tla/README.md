# netyo in TLA+

netyo is a small reactor-based TCP server in C++17: event loops with edge-triggered
epoll, a lock-free queue that carries callbacks between threads, timers over timerfd,
a hashed timing wheel for idle connections, ring buffers, and a server that accepts in
one loop and serves each connection in another. There are no tests and next to no
documentation; the modules here are read off the code. Paths below are relative to `src/`
of the repository's source tree (`src/src/...` in `PROJECT.json`).

## 1. Inventory

| Component | State | Operations | Interacts with |
|---|---|---|---|
| `MpscQueue` (`net/eventloop/MpscQueue.h`) | linked nodes, `head_`, `tail_` (atomics) | `enqueue` by any thread, `dequeue` by one | heap; producers and consumer share the nodes |
| `TaskQueue` (`TaskQueue.h/.cpp`) | the queue, an eventfd, its channel | `push`, `handle_wakeup` | any thread writes the eventfd, the loop's epoll reports it |
| `EventLoop` (`ThreadingEventLoop.h/.cpp`) | `_close`, `_closed`, selector, task and timer queue | `run`, `call_soon`, `close`, `call_at/later/every` | plain bools shared by threads; callbacks re-enter it |
| `EventLoopThread`, `ThreadingEventLoop` (same files) | `loop` pointer, promise, thread; round-robin index | `start_loop`, `close`, `join`, `get_loop` | owner's thread and loop's thread share `loop` |
| `TimerQueue`, `Timer` (`TimerQueue.h/.cpp`) | heap of timers, set of valid ids, timerfd | `add_timer`, `remove_timer`, `handle_exprired` | callbacks add and remove timers; other threads go through `call_soon` |
| `EpollSelector`, `Selector` (`selectors/`) | epoll instance, event buffer that doubles and shrinks | `select`, `add`, `modify`, `remove` | the kernel; calls `Channel::handle_events` with raw pointers |
| `Channel` (`Channel.h`) | `_events`, `_state` NEW/ADDED/DELETED/DESTROYED | `enable`, `disable`, `destroy`, `handle_events` | selector below, transport above |
| `Transport`, `TcpTransport`, `TcpServerAcceptor` (`net/Transport.h/.cpp`) | INITIAL/ACTIVATED/DISCONNECTING/DISCONNECTED, two buffers, `last_active` | `activate`, `send`, `close`, `force_close`, the four handlers | its loop's thread, the server's thread, callbacks of the application |
| `TcpServer` (`net/Server.h`) | `connections`, timing wheel | accept loop, timeout reset, erasure 2 s after the loss | server loop and worker loops, through `call_soon` and `call_later` |
| `TimingWheel` (`net/TimingWheel.h`) | wheels of 100 buckets, `curtick` | `insert`, one tick every 1.5 s or later | destroying an entry closes its connection |
| `RingBuffer`, `FixedRingBuffer`, `Buffer` (`net/Buffer.h`) | vector, `lo`, `hi` | feed from and drain to a socket or the application | transports, timing wheel |
| `Socket`, `InetAddr` (`net/Socket.h`), `utils/`, `main.cpp`, `web/`, `Client`, `CoroutineEventLoop` | a descriptor, or nothing | wrappers, logging, the example program, empty files | |

What is hard here, and so what the properties are about (the hazards of `PROJECT.json` give
the lines):

* threads stopped between any two atomic steps of `enqueue`, between the push and its
  wakeup, between the test of `_closed` and the push;
* edge-triggered wakeups that must not be lost although queue, eventfd counter and ready
  list are never in step;
* a loop that is closed, left and destroyed while others still use it;
* callbacks that re-enter the component that calls them (timers from timers, `close` from
  `connection_made`, tasks from tasks);
* one timerfd for many timers, one coarse wheel for many timeouts;
* connections that are closed by the worker, by the server's timing wheel and by the
  application at the same time, and whose objects are shared by two threads' containers;
* ring arithmetic at the wrap and when the vector grows.

## 2. Modules

| Module | Models | Built on |
|---|---|---|
| `TaskFifo` | abstract: one log of tasks, taken in order | |
| `MpscQueue` | the lock-free list, each atomic step of `enqueue` and `dequeue` an action | implements `TaskFifo` |
| `TaskQueue` | eventfd, edge-triggered wakeup, drain; the loop's turn | extends `MpscQueue`, implements `TaskFifo!FairSpec` |
| `EventLoop` | `call_soon`, `close`, end of `run`, destruction | extends `TaskQueue` |
| `TimerQueue` | heap, valid ids, timerfd, passes of `handle_exprired` | tasks of other threads are an abstract sequence |
| `Channel` | states of a channel and what epoll holds for it; the handlers of an event | operators only |
| `Session` | abstract: what application and server are promised of one connection | |
| `Connection` | one connection between worker, server, application and peer | extends `Channel`, implements `Session` |
| `LoopPool` | `EventLoopThread` and `ThreadingEventLoop`: a pool of loop threads and its owner | of a loop, only what `EventLoop` promises |
| `Server` | `TcpServer` and `TcpServerAcceptor` on the pool, several connections | extends `LoopPool` and `Channel`; of a connection only its `Session`, which each keeps |
| `RingBuffer` | `lo`, `hi`, `MOD`, `size` | operators only |
| `Buffer` | `feed_rbuffer`, `reader()`, `feed_wbuffer`, `drain_wbuffer` | extends `RingBuffer` |
| `TimingWheel` | `insert_in_loop` and the tick | extends `RingBuffer` |
| `IdleTimeout` | `reset_timeout` and `reset_timeout_cb`: use of connections, resets and the wheel | extends `TimingWheel` |

`X` has its model values in `MCX.tla` and `MCX*.cfg` (`LoopPool` is checked under `Server`,
`IdleTimeout` by `MCTimingWheel`); `XProofs` holds the theorems about `X` (`EventLoopProofs`
those about `TaskQueue` too, `TimingWheelProofs` those about `IdleTimeout`).
In all of them an action bears the name of the function it stands for, or of the part of it
that runs without another thread in between; operators called "Mutant of ..." are changed
forms of the definition that follows and used by no specification.

**MpscQueue.** `head`, `tail`, `next`, `data` are the members of the queue and of the nodes;
`live` is the heap, so that `delete` and the reuse of an address by `operator new` are
visible. `enqueue` is `Exchange` then `Link` (then `Return` to the caller), `dequeue` is
`DequeueLoad` then `DequeueTake`, or `DequeueFalse`. The atomics are taken to be sequentially
consistent; the orders in the source (`acq_rel`, `release`, `acquire`) pair the store of
`next_` with the load that follows it, which is all the algorithm asks of them. `log`, `out`
and `chain` are history.

**TaskQueue.** `push` is `PushExchange`, `PushLink`, `WriteEventFd`. The loop's thread goes
`top` (the `while` of `run`), `wait` (`EnterSelect`), `read` (`SelectWakeup`), `drain`, `run`.
`SelectOther` is a batch without the wakeup: other descriptors, a timeout, a batch full of
others. `efd` and `edge` are the counter and epoll's ready list.

**EventLoop.** `call_soon` and `close` evaluate their conditions in one step and act in later
ones, since `_close` and `_closed` are plain bools that other threads set in between.
`Exit` and `Destroy` are the end of `run` and the destructors that `start_loop` runs.

**TimerQueue.** Times are relative (`rem`), so the state space is finite without a bound on
the clock. The comparison of addresses in `add_timer` is a choice. Beside the timers
that are followed there are any number of others, of which only `crowd` is kept: whether one is
in the heap (`AddOther` inserts one, and `HandleEnds` may find that one is its head). `Report`,
`HandleExpired`, `CallTop`, `SkipTop`, `CallbackReturns`, `HandleEnds` are the steps of
`handle_exprired`, between which callbacks add and remove timers. `reset` is declared and
never defined.

**Connection.** `pc["worker"]` walks through a channel event: `batch`, `events` (the handlers
that `handle_events` has still to call are in `todo`), `callback` (the application has
control and may send, close, pause reading), `close`, `half`, `test`, `set`, `destroy`,
`lose`. `pc["server"]` walks through the last four when an entry of the timing wheel expires.
`_state` is a plain int, so test and assignment are steps of their own: that is where worker
and server meet. `Alive` says who holds a `shared_ptr`; everything else holds raw pointers.
The peer, the network and the socket's buffers are the actions `Peer...` and the record
`sock`, from which `Poll` tells what epoll would report. The error of the socket is given once,
to whichever of `readv`, `write` and `getsockopt` comes first; a `write` on a connection that is
reset or shut down and has no error left raises SIGPIPE (`HandleWriteFails`), which nothing in
the repository ignores: the program ends there (`Killed`). Of the buffers only the number of
unsent messages is kept, and of the timing wheel only that an entry comes due.

**Buffer.** Bytes are numbered as they are fed. One action is one round of the `readv` loop
(`FeedRbuffer`), one `feed_wbuffer`, one `drain_wbuffer` (`DrainFirst`, `DrainBoth`,
`DrainFails`, by how far the two writes get). The model ends when the content is spoiled.

**TimingWheel.** A reference to an entry carries the place that it has yet to visit in the
first wheel: that is the `CallBackEntry` wrapped around it. `Tick` and `Turn(i)` are the
callback of `call_every`.

**IdleTimeout.** `Use` is `reset_timeout` in the worker, which asks for nothing within 3 s
(`ResetGap`) of the last time; `ResetTask` is `reset_timeout_cb` in the server's loop;
`TurnIdle` closes the connections whose entries the wheel drops. The wheel takes a tick for a
second, and its timer is asked for one (`tick_interval`), but `write_timer_fd` never sets
`timerfd` less than 1.5 s away (TimerQueue.cpp:97-101), and other timers may put the tick off
further: so time has a clock of its own here (`Pass`), of which a tick takes from `TickMin`
(1.5 s) to `TickMax` (no more than a bound for the model).

**LoopPool.** Each thread goes `starting`, `running`, `left`, `nulled`, `over`: the promise,
the loop's `run`, `this->loop = nullptr`, the destruction of the loop on its stack. The owner
walks through the threads: `thread`, `promise`, `future` (construction), `read`, `flag`,
`push`, `join`, `joining`, `clear` (`EventLoopThread::close`), `test`, `members` (the
destructor). `loop` is a plain pointer that both sides read and write, so every look at it is
a step of its own. The model stops when the program would have undefined behaviour or
terminate, and `broken` says how: `promise`, `null`, `dangling`, `joinable`, and in `Server`
also `worker` and `server`.

**Server.** The acceptor's channel is a `Channel` of the loop of thread 0, its events are
edges; `Accept`, `AcceptEnds`, `AcceptFails`, `AcceptAborts` are one turn of the accept loop,
`Handed` is the `call_soon` of `activate`, and `index` is `thread_index`. A step of the pool
is a step of `LoopPool` (`Pool(step)`), except that the server's loop does not leave `run` in
the middle of an accept loop. `ForceClose` stands for all that `Connection` does between
ACTIVATED and `connection_lost_cb`.

## 3. Runs

| Run | Bounds | Shows |
|---|---|---|
| `mpsc_queue` | 3 producers, 2 pushes each, 4 addresses | list, memory and order; implements the log |
| `task_queue` | 2 producers, 3 pushes each, 3 addresses | no lost wakeup; every task is taken |
| `event_loop` | the loop's own thread and 2 others, 1 push each, by `call_soon` or by `close` | tidy exit, order of own calls, memory; `close` ends the loop |
| `timer_queue` | 2 timers and any number of others, delays 1 and 3, once or every 2, `MinArm` 1, `Milli` 1, clock up to 1 tick ahead | heap armed, ids, removal; every timer is served unless new ones put it off for ever, every pass ends |
| `connection` | 3 sends, 2 packets, no timeouts, no pauses, no close in `connection_made_cb`, no sends after the loss | life and end of a connection, up to SIGPIPE; implements `Session` |
| `connection_timeout` | 1 send, 1 packet, all four flags on | every connection is freed in the end, unless SIGPIPE ends the program |
| `buffer` | vectors of 7 bytes that grow, 20 bytes in all | the stream is kept, but for four situations |
| `timing_wheel` | 2 wheels of 5 places, 1 connection, timeouts 1, 4, 5, 6 and 10, 5 insertions, 36 ticks; in units of 1.5 s ticks 1 to 2 apart and `ResetGap` 2 | when an entry expires, exactly; when an idle connection is closed |
| `server` | 3 loops, 2 clients, `accept` may fail at any time | how pool and server end; no client is forgotten; every connection is a session |
| `event_loop_leak` | as `event_loop` | violation: descriptors are never closed |
| `timer_queue_late` | as `timer_queue` | violation: timerfd set too late |
| `connection_pause` | 1 send, 1 packet, pauses | violation: epoll keeps a freed connection |

Why the bounds are enough. The queue's hazards need a producer stopped in the gap, a second one
pushing past it and the consumer deleting the node before it: three producers, and an address
fewer than the nodes pushed so that addresses come back (an exhausted heap just delays a push). A
wakeup is lost between one push and one drain; two producers with three pushes go round that
several times. Two timers give every relation of a new timer to the head, and the others, without
number, move the alarm at any time; 3 is more than `MinArm` and the stall together, so that an
alarm can be far too late. (With `Milli` 1 nothing is rounded down; an alarm that comes too early
is one that was set for another timer. The theorems are about any `Milli`.) A connection needs a
second message for a partial write and a second packet for data behind the end of the stream.
Seven bytes is the real size of an empty buffer; 20 bytes take it through two expansions and past
its end in every state of `lo` and `hi`. Two clients give every relation of a new client to the
accept loop (before, in, after it), two of them accepted for one event, and an accept that fails
with one waiting; three loops are one for the server, and two workers so that the owner is
before, at or past a worker that has ended. The wheels are scaled from 100 places to 5: every
case (full or not, place passed or not, the free place, the second wheel filling or full) occurs
by tick 36 > 5 x 5 + 10. One connection is enough for them, as entries share nothing but the sets
that they are in; the theorems are about any number. All safety properties of the passing runs
are proved for any bound. Deadlock is not an error where the model comes to an end: a loop that
is gone, a connection that is freed, a bound that is reached, a program that is broken, an owner
that does nothing more.

**Fairness.** `TaskQueue`: the loop's thread runs; a thread inside `push`, which has no lock
to wait for, gets through; epoll rotates its ready list, so a wakeup that stays due is
reported (strong fairness of `SelectWakeup`). Nobody need ever push. `EventLoop`: the same
threads, but `epoll_wait` need never time out. `TimerQueue`: the loop goes on, runs its
tasks, and time passes. `Connection`: both loops go on and, by the result for `TaskQueue`,
tasks and events each get their turn although the other may recur for ever; callbacks of the
application return; time passes when the worker has nothing at hand (two seconds and the
client timeout are longer than a turn of the loop); a peer that is there reads what it is
sent. Nothing is assumed of when the application or the peer act. `Server`: the
server's loop goes on with what the acceptor has to do, and each worker's loop with its tasks.

## 4. What the runs show

`connection`: data that wait always have their write event although events are edges
(`UnsentIsWatched`); `close` writes what is in `wbuffer` before the end, unless an error or a
timeout asked for it (`CloseFlushes`); a closing connection is closed, or SIGPIPE ends the
program (`CloseCompletes`); it lives as a `Session`: opened, perhaps closing, lost and freed,
each once and in this order, and, but for SIGPIPE, what is lost is freed (`LivesAsASession`); but
not freed while the worker is in it or about to be (`ControllerOutlivesItsEvents`), nor before it
is closed (`DeathFindsItClosed`). The flags say under which use this is so; with a flag on, TLC
finds what then fails:

* `PausesReading`: the run `connection_pause`. A channel with no events left is `DELETED`;
  `destroy` goes through `notify`, which adds it to epoll again and leaves it there until the
  descriptor is closed: the worker may have an event at hand, already fetched, when the
  connection is freed.
* `SendsWhenLost`: `send` tests no state, so a late one leaves the worker a task for a freed
  connection (`ControllerOutlivesItsEvents` fails with this flag on).
* `Timeouts`: `close` in the worker and `force_close` in the server's thread race on
  `_state`; DISCONNECTING may overwrite DISCONNECTED, and the destructor then closes again
  and calls `shared_from_this` (`DeathFindsItClosed` fails with this flag on).
* `ClosesAtOnce`: `activate` overwrites the state that a `close` in `connection_made_cb` has
  set.

Cases that the properties name rather than hide:

* `CloseFlushes` speaks of `wbuffer` only. A `send` of another thread is a task of the worker;
  if `close` runs before it and nothing is being written, `force_close` is next and what was
  sent is lost (Transport.cpp:176-178, 229-244). A close by `done_writing_cb` is taken by
  `handle_onwrite` for one whose data are out.
* When `readv` or `write` takes the error of a reset, `handle_onerror` finds none and returns
  (Transport.cpp:159), and the connection stays as it is. Nor does `handle_events` stop when an
  earlier handler of the event has closed the connection (Channel.h:114-122). What ends it, if
  there is still something to write, is the next `write`: SIGPIPE, and with it the program.
  With timeouts the wheel closes the others (`EveryConnectionGoes`).

`timer_queue`: that `timerfd` is set for one timer, by a comparison of addresses, loses no timer
by itself. But each new timer may move the alarm, to 1.5 s from now or later, and the program
makes one for every lost connection: if that never ends, no timer need ever be served.
`EveryTimerIsServed` excepts just this (`Postpones` again and again); without the exception TLC
shows it: one timer waits, time passes, a new timer sets the alarm back, and so on for ever.

`buffer`: the content is the stream if and only if none of the four situations in the head
of `Buffer.tla` has come up. They are not far-fetched: the first one, `overrun`, is reached
by a second message on a connection whose first one has been sent.

`timing_wheel`: `EntryGoesWhenDue` gives the exact tick. With a delay below 100 and a ring that
is full, that is `delay` ticks after the last renewal, as it is meant. A delay of exactly 100
lands on the free place and goes at the next tick. In the first 99 ticks an entry goes early by
the age of the wheel, or waits until the ring comes round. A delay above 100 goes to the last
place of the second wheel whatever it is; until that wheel is full this means tick 10 000.
`ClosesTheIdle` adds the way of a reset through both loops and the clock: a connection with a
timeout of n seconds (below 100, and not reset before the ring was full) is open and idle for no
longer than n + 1 ticks take, the one more for a reset on its way; and it is closed, unless a
reset is on its way, only when it was idle for as long as n - 1 ticks take, less 3 s (its rate
limit). As a tick is 1.5 s at least, the 1 min of `main.cpp` becomes about 90 s and not less than
85.5 s; upwards there is the limit only that ticks have. Both bounds are exact: with one unit
less in either TLC finds a violation.

`server`: the pool comes to grief in exactly the ways that `PoolIsSafeUnlessOvertaken` leaves:
a thread that sets the promise before it is constructed, and a thread that ends by itself,
or between `loop->close()` and the second look of `join` at the pointer. What `close` or
`wait` has passed has stopped (`DoneThreadsHaveStopped`), whether it was joined or not, and
nobody joins a loop that was not told to end (`NoEndlessJoin`). Since the pool closes the
server's loop first, no connection is given to a worker that has ended
(`WorkersOutliveTheServer`); the other way round there is no such order, and a connection
that is lost after the server's loop ended breaks the program as `server`. The accept loop
takes all that wait, so that an edge loses nobody (`BacklogIsWatched`, `ClientsAreServed`),
unless an accept fails with others waiting (`missed`): for want of descriptors, or because
the first one has failed, the rest wait until somebody else connects. Each connection goes
through its phases as `Session` says (`SessionsAreKept`).

`event_loop_leak`, `timer_queue_late`, `connection_pause`: see the findings in
`PROJECT.json`. Not a finding of its own: a thread may have passed the test of `_closed` when
the loop is destroyed under its `push`; the model stops such a thread there.

## 5. What is proved

All proofs are checked by tlapm for every value of the constants that satisfies the
assumptions named in the modules (`NullAssumption`: nullptr is neither a node nor a value;
`MaxPushAssumption`; `SelfAssumption`; for timers, that delays are positive and
`MinArm >= Milli`). No finiteness of `Node` or `Producers` is assumed.

* `MpscQueueProofs`. `MpscInv` is type correctness and `ChainInv`, which is inductive: the ghost
  sequence `chain` lists the nodes from `tail_` to `head_`; it is injective and is all of the
  heap; consecutive nodes are linked, or broken with exactly one producer about to link them;
  values follow the log; the consumer's local `next` is the second node. The chain is needed
  because memory alone does not say where a detached suffix belongs. From it follow
  `NodesUsedAreLive`, `NodesAreReleased` (by the cardinality of an injective sequence's range),
  `EmptyAnswersAreJustified`, and the refinement `QueueIsFifo`: an `enqueue` takes effect at its
  exchange, a `dequeue` at its take, all else stutters.
* `EventLoopProofs`. For `TaskQueue`, `TaskQueueInv` adds `NoLostWakeup`, which is inductive
  together with the chain; a step of `TaskQueue` is a step of `MpscQueue` or leaves it unchanged,
  so the chain comes for free. `SleepingLoopIsDone` combines the two: a loop asleep with nobody
  inside `push` has an unbroken chain of length one. For `EventLoop`, `EventLoopInv` keeps
  `MpscInv` until the loop is gone, extends the promise about wakeups to a loop that has left its
  `while`, and says that the loop's own thread pushes nothing before `_close` is set.
  `ExitIsTidy`, `OwnCallsAreOrdered`, `NodesAreFreedAtExit`. What `CloseEndsTheLoop` rests on is
  proved as `CloseIsNotSleptThrough`: a closed loop that sleeps has its wakeup due or another
  thread on its way to write it, because `call_soon` drops nothing while the loop sleeps.
* `TimerQueueProofs`. `TimerInv` is the four safety properties and `InsertedOnce`: a timer whose
  insertion is still a task of another thread is nowhere else and pending once, and one that runs
  is not in the heap. Without it a pending insertion could bring back a timer that was removed.
  All of it holds among any number of other timers. `PassesShrink` is the measure behind
  `PassEnds`: during a pass the set of the timers still to be popped (`Ripe`, whose time has
  passed for the clock that the pass has read) never grows, since what callbacks and other
  threads add lies ahead of that clock, and each pop takes one away.

* `ConnectionProofs`. `ConnectionInv` has a part that holds under any use (`Basic`: types;
  what the state of the channel says of epoll; that the interest in writing is on exactly
  while there is something to write, and a watched socket with room is due; how many messages
  can be under way) and parts that need flags to be off: `Opened` (nothing happens before the
  activation) and `Flushed` without `ClosesAtOnce`, `Unreachable` (a destroyed channel is out
  of epoll) when in addition reading is never paused and nothing sent after the loss, `Once`
  (one thread closes) without `Timeouts`. Each theorem assumes the flags that it needs, and no
  more: `UnsentDataAreWatched` none, `CloseWritesTheBuffer`, `ControllersOutliveEvents`,
  `ConnectionsDieClosed` and the refinement of `Session`'s safety, `ConnectionIsASession`.
  Lemmas say what each operation of a channel does; then there is a lemma per part with a step
  per action.
* `LoopPoolProofs`. What the owner may rely on depends on how far its walk has come, so
  `PoolInv` says of each thread what holds before the owner closes it (`ToClose`), while it
  does (`OwnThreadInv`) and after, when the destructor comes (`ToDestroy`).
  `WaitedForThreadsHaveStopped`, `PoolSafety`, `PoolJoinsEnd`, for a pool of any size.
* `ServerProofs`. A step of the pool under the server is a step of `LoopPool`, so `PoolInv`
  comes for free (`ServerKeepsPool`). `ServerInv` adds where a client is (`BacklogInv`,
  `TasksInv`, `WorkersInv`: in the backlog or in the tasks of its worker, once), what the
  listening channel is, and `CloseInv`: the owner closes a worker only when the server's
  thread has stopped. `ServerTypeCorrect`, `NoClientIsOverlooked`, `WorkersEndLast` and
  `ServerKeepsSessions`, for any number of loops and clients.

* `BufferProofs`. `BufferInv` says place by place what the stream property says of sequences:
  while there is no damage each byte delivered and each byte between `lo` and `hi` is the one
  with its number (`Kept`), `lo` and `hi` are places of `vec`, no place holds a byte that has
  not been fed yet (`NoneAhead`), and `rbuffer` never wraps around. `NoneAhead` is what makes
  the other half of the equivalence provable: a place that the code fails to write holds an
  older byte, so that the content cannot be the stream. Lemmas say what a copy in one or two
  pieces, `reserve` and `expand` do to each place. `StreamIsKept` and `ReadvAlwaysHasRoom`,
  for any size of `vec`. The proof did not go through at first: the cause of `damage` was a
  `CASE` whose guards overlap when `reserve` has shifted the content and `hi` has come to 0,
  where TLA+ leaves the choice open; `FeedWbuffer` now says that the shift comes first.
* `TimingWheelProofs`. A reference is followed by its expiry, the tick at which its place is
  dropped (for one in the second wheel, the tick at which the place in the first where it goes
  then is dropped). `WheelInv` says that a ring that has turned `t` times has the `lo` and
  `hi` of one (`HasTurned`), that no reference expires later than its entry is due
  (`NoneIsLate`) and that one of them expires just then (`OneIsOnTime`); every turn and every
  move down a wheel keeps the expiry. From it `WheelTypeCorrect` and `EntriesGoWhenDue`.
  For `IdleTimeout`, which implements the wheel (`IdleTimeoutIsAWheel`), `IdleInv` relates the
  time that a connection has been idle to the ticks since its last reset: it is no more than
  one tick more can have taken (`NotTooLate`, with `Most`), because a reset waits for no more
  than one tick (`ResetsArePrompt`), and, unless a reset is on its way, no less than one tick
  fewer must have taken, but for `ResetGap` (`NotTooEarly`, with `Least`), because a use that
  asks for none comes within `ResetGap` of one that did. From it the action property
  `ClosesTheIdle` (`IdleAreClosed`), for any number of connections, any timeouts, any
  `ResetGap` and any `TickMin <= TickMax` (`ClockAssumption`).

For `Buffer`, `VecSize > 1` is assumed, as the code's initial 7; for the wheels at least two
places, one or two wheels (two is what ten minutes need) and delays greater than 0, for
which `insert_in_loop` does nothing. Each of the inductive invariants was model-checked
before it was proved, on the bounds of its run and around them (vectors of 2, 3, 4, 5 and 7
bytes; one and two wheels of 2 to 5 places, `ResetGap` 0, 1 and 2).

Model-checked only: liveness (`EveryTaskIsTaken`, `CloseEndsTheLoop`, `EveryTimerIsServed`,
`PassEnds`, `CloseCompletes`, `EveryConnectionGoes`, `ClientsAreServed` and the liveness in
`LivesAsASession`), since the proof system does not handle liveness under fairness. Every
other property of the passing runs is proved. The types of `MpscQueue` and `TaskQueue` are
proved and, in the runs, part of `EventLoopTypeOK`; `Buffer` has no type invariant of its own,
since `StreamIsKeptUnlessDamaged` cannot be evaluated with an index outside the vector.

## 6. Not modelled

`get_loop` of a pool of one thread, which divides by zero; `call_later(0)`, which drops its
callback; an `accept` that returns descriptor 0, as when standard input is closed, and so ends
`while (sockfd > 0)` early; two servers that share one `Protocol`, whose callbacks each of them
wraps; the end of a stream that arrives together with data and is not told before the next event;
the statistics timer of the server but for the error that it takes, and the server's destructor,
which nothing runs; `write_highlevel`; `send_file` (empty); `push`/`pop` of the rings,
`drain_rbuffer` and the assignment of buffers (used by nobody); sockets and addresses (wrappers
of system calls); logging; the empty files. Weak memory is not modelled beyond single steps of
plain flags and pointers. The growth of epoll's event buffer shows only as batches that may leave
the wakeup for later.

## 7. Plan

1. Proofs: what the other liveness properties rest on as far as it is safety, such as which
   step of `Connection` is due while a connection that was closed is still there.
2. `Connection` with `Buffer`'s drain in the place of the counter `unsent`, so that a spoiled
   buffer is seen by the application and the peer.
3. `Connection` with timeouts as an implementation of a weaker `Session`, in which the loss
   may be told twice, to say exactly what the race of `close` and `force_close` costs.
