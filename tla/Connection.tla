----------------------------- MODULE Connection -----------------------------
(***************************************************************************)
(* The life of one connection of a TcpServer: net/Transport.cpp, the       *)
(* callbacks of net/Server.h and the channel between them and epoll.       *)
(*                                                                         *)
(* The connection belongs to a worker loop, whose thread handles its       *)
(* events, runs the tasks handed to it and calls the application.  The     *)
(* server's loop keeps it in the map connections and in the timing wheel,  *)
(* and it is the server's thread that force_closes a connection whose time *)
(* is up.  _state is a plain int: the tests and the assignments of close   *)
(* and force_close are steps of their own.                                 *)
(*                                                                         *)
(* The object lives as long as somebody holds a shared_ptr to it; the      *)
(* channel, the epoll instance and the tasks of the worker hold raw        *)
(* pointers.  The erasure from the map is put off by two seconds, in which *)
(* whatever the worker had at hand is taken to be finished (Elapse).       *)
(***************************************************************************)
EXTENDS Naturals, Sequences, Channel

CONSTANTS
  Timeouts,      \* client_timeout > 0
  PausesReading, \* the application calls pause_reading and resume_reading
  ClosesAtOnce,  \* the application may close in connection_made_cb
  SendsWhenLost, \* the application may send when connection_lost_cb was called
  MaxSend,       \* bound: calls of send
  MaxData        \* bound: packets of the peer

ASSUME FlagsAssumption == {Timeouts, PausesReading, ClosesAtOnce, SendsWhenLost} \subseteq BOOLEAN
ASSUME BoundsAssumption == MaxSend \in Nat /\ MaxData \in Nat

VARIABLES
  state,     \* _state
  channel,   \* channel
  sock,      \* the socket: data to read; the end of the stream, "fin" by the peer
             \* or "shut" by shutdown; reset; SO_ERROR; room to write; shut down
  unsent,    \* the messages in wbuffer
  pc,        \* pc[x]: where thread x is, "worker" or "server"
  after,     \* the callback of the application that the worker is in
  todo,      \* the handlers that handle_events has still to call
  wtasks,    \* the tasks of the connection in the queue of the worker's loop
  resets,    \* how many tasks of reset_timeout_cb the server's loop has
  entry,     \* the TimeOutEntry of the connection in the timing wheel: "none",
             \* "new" or, when the timeout is over, "due"
  mapped,    \* the connection is in the map connections
  erasers,   \* how many timers to erase it from there are set ...
  ripe,      \* ... and for how many the two seconds are over
  lost,      \* history: the calls of connection_lost_cb
  forced,    \* history: an error or a timeout asked for the close
  owed,      \* history: the messages that were in wbuffer at close and are not
             \* written, if close was not called by done_writing_cb
  calls      \* history: the calls of send and the packets of the peer so far

object == <<state, channel, unsent, after, todo, wtasks>>
server == <<resets, entry, mapped, erasers, ripe>>
past   == <<lost, forced, owed, calls>>
rest   == <<state, channel, unsent, after, wtasks, sock, server, past>>
vars   == <<object, sock, pc, server, past>>

-----------------------------------------------------------------------------
\* The accept loop has made the transport, put it into the map and called
\* activate, which hands the activation to the worker's loop.
Init ==
  /\ state = "INITIAL"
  /\ channel = NewChannel
  /\ sock = [data |-> FALSE, eof |-> "no", rst |-> FALSE, err |-> FALSE,
             room |-> TRUE, down |-> FALSE]
  /\ unsent = 0
  /\ pc = [x \in {"worker", "server"} |-> "idle"]
  /\ after = "none"
  /\ todo = {}
  /\ wtasks = <<"activate">>
  /\ resets = 0
  /\ entry = "none"
  /\ mapped = TRUE
  /\ erasers = 0
  /\ ripe = 0
  /\ lost = 0
  /\ forced = FALSE
  /\ owed = 0
  /\ calls = [send |-> 0, data |-> 0]

\* The shared_ptrs to the connection: the map's, those that the timers and the
\* tasks of the server's loop have captured, and the arguments of callbacks.
Alive ==
  mapped \/ erasers > 0 \/ resets > 0 \/ pc["worker"] = "callback" \/ pc["server"] # "idle"

\* poll of the socket.
Poll ==
  UNION { IF sock.data \/ sock.eof # "no" \/ sock.rst \/ sock.down THEN {"READ"} ELSE {},
          IF sock.room \/ sock.rst \/ sock.down THEN {"WRITE"} ELSE {},
          IF sock.rst \/ sock.down THEN {"HUP"} ELSE {},
          IF sock.err THEN {"ERR"} ELSE {} }

\* write has raised SIGPIPE, which nothing ignores: the program has ended.
Killed == pc["worker"] = "killed"

At(x, place) == pc[x] = place /\ Alive /\ ~Killed
Go(x, place) == pc' = [pc EXCEPT ![x] = place]

\* Where thread x goes on after close or force_close.
Resume(x) ==
  CASE x = "server" -> "idle"
    [] x = "worker" /\ after # "none" -> "callback"
    [] x = "worker" /\ after = "none" -> "events"

\* TcpTransport::reset_timeout, which does nothing within 3 s of the last time.
ResetTimeout == resets' \in IF Timeouts THEN {resets, resets + 1} ELSE {resets}

-----------------------------------------------------------------------------
\* The application, in any thread that holds the connection, calls send.
SendFromThread ==
  /\ Alive /\ ~Killed
  /\ lost > 0 => SendsWhenLost
  /\ calls.send < MaxSend
  /\ calls' = [calls EXCEPT !.send = @ + 1]
  /\ wtasks' = Append(wtasks, "send")
  /\ UNCHANGED <<state, channel, unsent, after, todo, sock, pc, server, lost, forced, owed>>

\* The callback that send hands to the loop.
SendInLoop ==
  /\ unsent' = unsent + 1
  /\ channel' = resume_writing(channel)
  /\ ResetTimeout

\* The worker's loop runs a task.
RunSend ==
  /\ At("worker", "idle")
  /\ wtasks # << >> /\ Head(wtasks) = "send"
  /\ wtasks' = Tail(wtasks)
  /\ SendInLoop
  /\ UNCHANGED <<state, after, todo, sock, pc, entry, mapped, erasers, ripe, past>>

RunActivate ==
  /\ At("worker", "idle")
  /\ wtasks # << >> /\ Head(wtasks) = "activate"
  /\ wtasks' = Tail(wtasks)
  /\ Go("worker", "callback")
  /\ after' = "made"
  /\ UNCHANGED <<state, channel, unsent, todo, sock, server, past>>

-----------------------------------------------------------------------------
\* epoll_wait of the worker reports the channel; its turn in the batch comes.
Report ==
  /\ At("worker", "idle")
  /\ Reported(channel, Poll) # {}
  /\ todo' = {h \in Handlers : Calls(h, Reported(channel, Poll))}
  /\ channel' = [channel EXCEPT !.due = FALSE]
  /\ Go("worker", "batch")
  /\ UNCHANGED <<state, unsent, after, wtasks, sock, server, past>>

\* handle_events does nothing for a channel that was destroyed.
HandleEvents ==
  /\ At("worker", "batch")
  /\ todo' = IF channel.state = "DESTROYED" THEN {} ELSE todo
  /\ Go("worker", "events")
  /\ UNCHANGED rest

EventsDone ==
  /\ At("worker", "events")
  /\ todo = {}
  /\ Go("worker", "idle")
  /\ UNCHANGED <<object, sock, server, past>>

\* The next handler of the event.
NextCall(handler) ==
  /\ At("worker", "events")
  /\ handler \in todo /\ Before(handler) \intersect todo = {}
  /\ todo' = todo \ {handler}

\* close_cb and error_cb.
HandleClose == NextCall("close") /\ Go("worker", "close") /\ UNCHANGED rest

HandleError == NextCall("error") /\ Go("worker", "error") /\ UNCHANGED rest

\* handle_onread: the socket is read until it has no more.  Data hide the end
\* of the stream behind them.  The last readv takes a pending error of the socket,
\* unless the peer's end of the stream comes first.
HandleRead ==
  /\ NextCall("read")
  /\ sock' = [sock EXCEPT !.data = FALSE, !.err = @ /\ sock.eof = "fin"]
  /\ after' = IF sock.data THEN "data" ELSE "eof"
  /\ IF sock.data THEN ResetTimeout ELSE UNCHANGED resets
  /\ Go("worker", "callback")
  /\ UNCHANGED <<state, channel, unsent, wtasks, entry, mapped, erasers, ripe, past>>

\* handle_onwrite, when all of wbuffer goes out: done_writing_cb is called.
HandleWriteAll ==
  /\ NextCall("write")
  /\ unsent > 0 => sock.room /\ ~sock.rst /\ ~sock.down
  /\ \E room \in BOOLEAN : sock' = [sock EXCEPT !.room = IF unsent > 0 THEN room ELSE @]
  /\ unsent' = 0
  /\ owed' = 0
  /\ channel' = pause_writing(channel)
  /\ after' = "wrote"
  /\ Go("worker", "callback")
  /\ UNCHANGED <<state, wtasks, server, lost, forced, calls>>

\* Mutant of HandleWriteSome: one part is enough to turn the interest off.
WriteSomeAndPause ==
  /\ NextCall("write")
  /\ sock.room /\ ~sock.rst /\ ~sock.down
  /\ \E n \in 1 .. unsent - 1 :
       /\ unsent' = unsent - n
       /\ owed' = IF owed > n THEN owed - n ELSE 0
  /\ sock' = [sock EXCEPT !.room = FALSE]
  /\ channel' = pause_writing(channel)
  /\ UNCHANGED <<state, after, wtasks, pc, server, lost, forced, calls>>

\* handle_onwrite, when the socket takes a part.
HandleWriteSome ==
  /\ NextCall("write")
  /\ sock.room /\ ~sock.rst /\ ~sock.down
  /\ \E n \in 1 .. unsent - 1 :
       /\ unsent' = unsent - n
       /\ owed' = IF owed > n THEN owed - n ELSE 0
  /\ sock' = [sock EXCEPT !.room = FALSE]
  /\ UNCHANGED <<state, channel, after, wtasks, pc, server, lost, forced, calls>>

\* handle_onwrite, when write fails: there is no room (EAGAIN), or write returns the
\* pending error of the socket and clears it, or there is none, or it is EPIPE (the
\* peer had shut down before the reset), and write raises SIGPIPE.
HandleWriteFails ==
  /\ NextCall("write")
  /\ unsent > 0
  /\ \/ ~sock.room /\ ~sock.rst /\ ~sock.down /\ Go("worker", "error")
     \/ /\ sock.rst \/ sock.down
        /\ \/ sock.err /\ Go("worker", "error")
           \/ (sock.err => sock.eof = "fin") /\ Go("worker", "killed")
  /\ sock' = [sock EXCEPT !.err = FALSE]
  /\ UNCHANGED <<state, channel, unsent, after, wtasks, server, past>>

\* handle_onerror: getsockopt(SO_ERROR) returns the error and clears it.
OnError ==
  /\ At("worker", "error")
  /\ sock' = [sock EXCEPT !.err = FALSE]
  /\ forced' = (forced \/ sock.err)
  /\ Go("worker", IF sock.err THEN "test" ELSE "events")
  /\ UNCHANGED <<object, server, lost, owed, calls>>

-----------------------------------------------------------------------------
\* A callback of the application calls send, close, pause_reading, ...
AppSend ==
  /\ At("worker", "callback")
  /\ calls.send < MaxSend
  /\ calls' = [calls EXCEPT !.send = @ + 1]
  /\ SendInLoop
  /\ UNCHANGED <<state, after, todo, wtasks, sock, pc, entry, mapped, erasers, ripe,
                 lost, forced, owed>>

AppClose ==
  /\ At("worker", "callback")
  /\ after = "made" => ClosesAtOnce
  /\ Go("worker", "close")
  /\ owed' = IF state \in {"INITIAL", "ACTIVATED"} /\ after # "wrote" THEN unsent ELSE owed
  /\ UNCHANGED <<object, sock, server, lost, forced, calls>>

AppPauses ==
  /\ At("worker", "callback")
  /\ PausesReading
  /\ channel' \in {pause_reading(channel), resume_reading(channel)}
  /\ UNCHANGED <<state, unsent, after, todo, wtasks, sock, pc, server, past>>

\* ... and returns.  The activation goes on,
ReturnFromMade ==
  /\ At("worker", "callback")
  /\ after = "made"
  /\ channel' = resume_reading(channel)
  /\ state' = "ACTIVATED"
  /\ resets' = IF Timeouts THEN resets + 1 ELSE resets
  /\ after' = "none"
  /\ Go("worker", "idle")
  /\ UNCHANGED <<unsent, todo, wtasks, sock, entry, mapped, erasers, ripe, past>>

\* Mutant of ReturnFromEvent: the close in progress is forgotten.
ReturnAndStay ==
  /\ At("worker", "callback")
  /\ after # "made"
  /\ after' = "none"
  /\ Go("worker", "events")
  /\ UNCHANGED <<state, channel, unsent, todo, wtasks, sock, server, past>>

\* handle_onread is done; handle_onwrite ends a close in progress.
ReturnFromEvent ==
  /\ At("worker", "callback")
  /\ after # "made"
  /\ after' = "none"
  /\ Go("worker", IF after = "wrote" /\ state = "DISCONNECTING" THEN "test" ELSE "events")
  /\ UNCHANGED <<state, channel, unsent, todo, wtasks, sock, server, past>>

-----------------------------------------------------------------------------
\* Mutant of CloseTests: what is still to be written does not matter.
CloseAtOnce ==
  /\ At("worker", "close")
  /\ Go("worker", IF state \in {"DISCONNECTING", "DISCONNECTED"}
                  THEN Resume("worker") ELSE "test")
  /\ UNCHANGED <<object, sock, server, past>>

\* close: the tests of _state and of is_writing.
CloseTests ==
  /\ At("worker", "close")
  /\ Go("worker", CASE state \in {"DISCONNECTING", "DISCONNECTED"} -> Resume("worker")
                    [] state \in {"INITIAL", "ACTIVATED"} ->
                         IF is_writing(channel) THEN "half" ELSE "test")
  /\ UNCHANGED <<object, sock, server, past>>

\* close: shutdown(SHUT_RD), and the rest is up to handle_onwrite.
CloseHalf ==
  /\ At("worker", "half")
  /\ sock' = [sock EXCEPT !.eof = IF @ = "no" THEN "shut" ELSE @]
  /\ channel' = Signal(channel)
  /\ state' = "DISCONNECTING"
  /\ Go("worker", Resume("worker"))
  /\ UNCHANGED <<unsent, after, todo, wtasks, server, past>>

\* force_close by thread x: the test of _state,
ForceTests(x) ==
  /\ At(x, "test")
  /\ Go(x, IF state = "DISCONNECTED" THEN Resume(x) ELSE "set")
  /\ UNCHANGED <<object, sock, server, past>>

\* Mutant of ForceSets: the state is set by nobody.
ForceSetsNothing(x) ==
  /\ At(x, "set")
  /\ Go(x, "destroy")
  /\ UNCHANGED <<object, sock, server, past>>

\* its assignment,
ForceSets(x) ==
  /\ At(x, "set")
  /\ state' = "DISCONNECTED"
  /\ Go(x, "destroy")
  /\ UNCHANGED <<channel, unsent, after, todo, wtasks, sock, server, past>>

\* the end of the channel and shutdown(SHUT_RDWR),
ForceDestroys(x) ==
  /\ At(x, "destroy")
  /\ channel' = Signal(destroy(channel))
  /\ sock' = [sock EXCEPT !.down = TRUE]
  /\ Go(x, "lose")
  /\ UNCHANGED <<state, unsent, after, todo, wtasks, server, past>>

\* Mutants of ForceLoses: no timer is set when the application has no callback;
\* the erasure is not put off.
LosesUntimed(x) ==
  /\ At(x, "lose")
  /\ lost' = lost + 1
  /\ Go(x, Resume(x))
  /\ UNCHANGED <<object, sock, server, forced, owed, calls>>

LosesAndErases(x) ==
  /\ At(x, "lose")
  /\ lost' = lost + 1
  /\ mapped' = FALSE
  /\ Go(x, Resume(x))
  /\ UNCHANGED <<object, sock, resets, entry, erasers, ripe, forced, owed, calls>>

\* and connection_lost_cb, which sets a timer to erase the connection.
ForceLoses(x) ==
  /\ At(x, "lose")
  /\ lost' = lost + 1
  /\ erasers' = erasers + 1
  /\ Go(x, Resume(x))
  /\ UNCHANGED <<object, sock, resets, entry, mapped, ripe, forced, owed, calls>>

-----------------------------------------------------------------------------
\* Mutant of ResetTask: the map is not asked, and operator[] puts the key back.
ResetUnasked ==
  /\ At("server", "idle")
  /\ resets > 0
  /\ resets' = resets - 1
  /\ entry' = "new"
  /\ mapped' = TRUE
  /\ UNCHANGED <<object, sock, pc, erasers, ripe, past>>

\* The task of reset_timeout_cb in the server's loop: the entry of a connection
\* that is still in the map goes into the timing wheel, again or anew.
ResetTask ==
  /\ At("server", "idle")
  /\ resets > 0
  /\ resets' = resets - 1
  /\ entry' = IF mapped THEN "new" ELSE entry
  /\ UNCHANGED <<object, sock, pc, mapped, erasers, ripe, past>>

\* The timeout of the entry is over; it is longer than the worker needs for what
\* it has at hand.
ComeDue ==
  /\ entry = "new"
  /\ pc["worker"] = "idle" /\ wtasks = << >>
  /\ entry' = "due"
  /\ UNCHANGED <<object, sock, pc, resets, mapped, erasers, ripe, past>>

\* The timing wheel drops the entry, whose destructor locks the connection and
\* force_closes it.
Expire ==
  /\ pc["server"] = "idle" /\ ~Killed
  /\ entry = "due"
  /\ entry' = "none"
  /\ forced' = TRUE
  /\ Go("server", IF Alive THEN "test" ELSE "idle")
  /\ UNCHANGED <<object, sock, resets, mapped, erasers, ripe, lost, owed, calls>>

\* The two seconds are over.
Elapse ==
  /\ ripe < erasers
  /\ pc["worker"] = "idle" /\ wtasks = << >>
  /\ ripe' = erasers
  /\ UNCHANGED <<object, sock, pc, resets, entry, mapped, erasers, past>>

Erase ==
  /\ At("server", "idle")
  /\ ripe > 0
  /\ ripe' = ripe - 1
  /\ erasers' = erasers - 1
  /\ mapped' = FALSE
  /\ UNCHANGED <<object, sock, pc, resets, entry, past>>

-----------------------------------------------------------------------------
\* The peer and the network, until the connection is reset.
Happens(s) ==
  /\ Alive /\ ~Killed /\ ~sock.rst
  /\ sock' = s
  /\ channel' = Signal(channel)
  /\ UNCHANGED <<state, unsent, after, todo, wtasks, pc, server, lost, forced, owed>>

PeerSends ==
  /\ calls.data < MaxData /\ sock.eof # "fin"
  /\ calls' = [calls EXCEPT !.data = @ + 1]
  /\ Happens([sock EXCEPT !.data = TRUE])

PeerShutsDown ==
  sock.eof # "fin" /\ Happens([sock EXCEPT !.eof = "fin"]) /\ UNCHANGED calls

PeerReads == ~sock.room /\ Happens([sock EXCEPT !.room = TRUE]) /\ UNCHANGED calls

PeerResets == Happens([sock EXCEPT !.rst = TRUE, !.err = TRUE]) /\ UNCHANGED calls

-----------------------------------------------------------------------------
Return == ReturnFromMade \/ ReturnFromEvent

ForceClose(x) == ForceTests(x) \/ ForceSets(x) \/ ForceDestroys(x) \/ ForceLoses(x)

Handler ==
  \/ HandleEvents \/ EventsDone \/ HandleClose \/ HandleError \/ HandleRead
  \/ HandleWriteAll \/ HandleWriteSome \/ HandleWriteFails \/ OnError

Worker ==
  Handler \/ CloseTests \/ CloseHalf \/ ForceClose("worker")

Application == SendFromThread \/ AppSend \/ AppClose \/ AppPauses

Server == ResetTask \/ Erase \/ ForceClose("server")

Peer == PeerSends \/ PeerShutsDown \/ PeerReads \/ PeerResets

Next ==
  \/ RunSend \/ RunActivate \/ Report \/ Worker \/ Return \/ Application
  \/ Server \/ ComeDue \/ Expire \/ Elapse \/ Peer

Spec == Init /\ [][Next]_vars

\* Both loops go on; tasks and events get their turn whatever else keeps the
\* worker busy, since epoll_wait rotates its ready list (TaskQueue); callbacks of
\* the application return, the wheel turns and time passes.
LoopFairness ==
  /\ SF_vars(RunSend \/ RunActivate) /\ SF_vars(Report) /\ WF_vars(Worker)
  /\ SF_vars(Return)
  /\ WF_vars(Server) /\ SF_vars(ComeDue) /\ WF_vars(Expire) /\ SF_vars(Elapse)

\* A peer that is there reads what it is sent.
FairSpec == Spec /\ LoopFairness /\ WF_vars(PeerReads)
-----------------------------------------------------------------------------
Places ==
  {"idle", "batch", "events", "callback", "error", "close", "half",
   "test", "set", "destroy", "lose", "killed"}

TypeOK ==
  /\ state \in {"INITIAL", "ACTIVATED", "DISCONNECTING", "DISCONNECTED"}
  /\ channel.state \in {"NEW", "ADDED", "DELETED", "DESTROYED"}
  /\ channel.events \union channel.interest \subseteq {"READ", "WRITE"}
  /\ channel.state = "ADDED" => channel.registered /\ channel.interest = channel.events
  /\ channel.state \in {"NEW", "DELETED"} => ~channel.registered /\ channel.events = {}
  /\ channel.due => channel.registered
  /\ unsent \in 0 .. MaxSend
  /\ owed <= unsent
  /\ pc \in [{"worker", "server"} -> Places]
  /\ after \in {"none", "made", "data", "eof", "wrote"}
  /\ pc["worker"] = "callback" => after # "none"
  /\ ripe <= erasers
  /\ resets \in Nat /\ (resets > 0 => Timeouts)
  /\ entry \in {"none", "new", "due"}
  /\ {mapped, forced} \subseteq BOOLEAN

\* What is still to be sent has its write event: while data wait, the channel is
\* registered for writing and, if the socket has room, epoll is about to report
\* it or the worker about to handle it, although the events are edges.
UnsentIsWatched ==
  unsent > 0 /\ channel.state # "DESTROYED" =>
    /\ "WRITE" \in channel.interest
    /\ sock.room /\ ~sock.rst => channel.due \/ "write" \in todo

\* A close that nothing but the application asked for writes what the worker has put
\* into wbuffer before it: what its callbacks have sent, and what other threads have
\* if the task of their send was run (Transport.cpp:169-179, 142-144).  It does not
\* wait for a send whose task is still queued: if nothing is being written, the
\* channel is destroyed first and that send is lost.  Nor does a close in
\* done_writing_cb wait for what that callback sends.
CloseFlushes ==
  [][state # "DISCONNECTED" /\ state' = "DISCONNECTED" /\ ~forced => owed = 0]_vars

\* "must use call_later, as some contoller of channel mightbe predead"
\* (Server.h:110): erased two seconds after its loss, a connection is not freed
\* while the worker is in one of its handlers or has a task or an event for it.
ControllerOutlivesItsEvents ==
  ~Alive => pc["worker"] = "idle" /\ wtasks = << >>

\* By then it has come to its end for good: the force_close of its destructor,
\* which could not share the pointer of a dying object, has nothing to do.
DeathFindsItClosed == ~Alive => state = "DISCONNECTED"

\* A close in progress comes to its end, also when readv or write has taken the
\* error of a reset and handle_onerror finds none (Transport.cpp:159): what is still
\* to be written is tried again then, and that raises SIGPIPE.
CloseCompletes ==
  state = "DISCONNECTING" ~> state = "DISCONNECTED" \/ Killed

\* The connection lives as a Session does, whatever the events, tasks and timers of
\* both loops bring in which order: it is opened before it closes, it closes before
\* the application is told of the loss, once, whichever of its close, the peer's
\* close, an error and the end of writing come together, and it is freed after that,
\* although tasks and timers hold it, if no SIGPIPE ends the program.
Phase ==
  CASE ~Alive -> "gone"
    [] Alive /\ lost > 0 -> IF lost = 1 THEN "lost" ELSE "lost again"
    [] Alive /\ lost = 0 -> IF state = "INITIAL" THEN "new"
                           ELSE IF state = "ACTIVATED" THEN "open" ELSE "closing"

Life == INSTANCE Session WITH phase <- Phase

LivesAsASession == Life!SessionSpec /\ (Life!SessionGoesOn \/ <>Killed)

\* With timeouts every connection is lost and freed in the end, whatever the
\* application, the peer and the network do, if no SIGPIPE ends the program.
EveryConnectionGoes == <>[](~Alive \/ Killed)
=============================================================================
