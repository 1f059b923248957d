------------------------------- MODULE Server -------------------------------
(***************************************************************************)
(* TcpServer (net/Server.h) on a pool of loops: the acceptor, whose loop   *)
(* is the one of thread 0, and the connections that it makes and hands to  *)
(* the other threads in turn.  Of a connection only the phases of Session  *)
(* are left, which Connection implements.                                  *)
(*                                                                         *)
(* The listening socket is reported on edges, so the accept loop has to    *)
(* take all that wait.  It ends at the first accept that fails, be it      *)
(* because none waits, because the descriptors of the process are used up, *)
(* or because the connection it was given has failed already.              *)
(*                                                                         *)
(* Besides the ways of LoopPool, the program is broken when                *)
(*   worker  a connection is given a loop that has ended, or closed on one *)
(*   server  the server's loop is used when it is destroyed                *)
(***************************************************************************)
EXTENDS LoopPool, Channel, Sequences

CONSTANT
  MaxClients   \* bound: those who connect

ASSUME ServerAssumption == Size > 1 /\ MaxClients \in Nat

VARIABLES
  acceptor,   \* "none", "handed" to the server's loop, "ACTIVATED", "DISCONNECTED"
  listener,   \* the channel of the acceptor
  backlog,    \* the connections that wait to be accepted
  sockerr,    \* SO_ERROR of the listening socket
  accepting,  \* the server's loop is in the accept loop
  index,      \* thread_index
  phase,      \* phase[c]: "out", "queued", "refused", or a phase of Session
  worker,     \* worker[c]: the thread that c was given to, until c is gone
  tasks,      \* tasks[t]: the activations in the queue of loop t
  missed      \* history: an accept failed with others waiting, and nobody has connected
              \* since

acceptVars == <<acceptor, accepting, index>>
socketVars == <<listener, backlog, sockerr, missed>>
clientVars == <<phase, worker, tasks>>
serverVars == <<acceptVars, socketVars, clientVars>>
vars == <<poolVars, serverVars>>

\* Those who connect, once each and in this order.
Client == 1 .. MaxClients
-----------------------------------------------------------------------------
Init ==
  /\ PoolInit
  /\ acceptor = "none"
  /\ listener = NewChannel
  /\ backlog = << >>
  /\ sockerr = FALSE
  /\ accepting = FALSE
  /\ index = 0
  /\ phase = [c \in Client |-> "out"]
  /\ worker = [c \in Client |-> 0]
  /\ tasks = [t \in Thread |-> << >>]
  /\ missed = FALSE

\* The server's loop runs and calls no callback.
ServerIsFree == place[0] = "running" /\ ~accepting

\* The connections that were accepted and are not erased.
Connections == {c \in Client : phase[c] \in {"new", "open", "lost"}}

Fail(how) == Break(how) /\ UNCHANGED serverVars
-----------------------------------------------------------------------------
\* The owner makes a TcpServer and calls activate.
ActivateServer ==
  /\ owner.op = "make" /\ owner.at = "idle"
  /\ acceptor = "none"
  /\ IF loop[0] THEN acceptor' = "handed" /\ UNCHANGED <<broken, foreign, overtaken>>
     ELSE Break("server") /\ UNCHANGED acceptor
  /\ UNCHANGED <<threadVars, owner, socketVars, clientVars, accepting, index>>

\* In its loop: listen, and the acceptor's own activate.
ActivateAcceptor ==
  /\ ServerIsFree
  /\ acceptor = "handed"
  /\ acceptor' = "ACTIVATED"
  /\ listener' = resume_reading(listener)
  /\ UNCHANGED <<poolVars, clientVars, backlog, sockerr, accepting, index, missed>>

\* A client connects.
Connect(c) ==
  /\ acceptor = "ACTIVATED"
  /\ phase[c] = "out" /\ \A d \in 1 .. c - 1 : phase[d] # "out"
  /\ phase' = [phase EXCEPT ![c] = "queued"]
  /\ backlog' = Append(backlog, c)
  /\ listener' = Signal(listener)
  /\ missed' = FALSE
  /\ UNCHANGED <<poolVars, acceptVars, sockerr, worker, tasks>>

\* epoll_wait of the server's loop reports the acceptor.
Readable ==
  /\ ServerIsFree
  /\ "READ" \in Reported(listener, IF backlog # << >> THEN {"READ"} ELSE {})

\* The listening socket has an error.  It matters only when the socket is about to
\* be reported, and poll does not show it.
ListenerFails ==
  /\ Readable
  /\ sockerr' = TRUE
  /\ UNCHANGED <<poolVars, acceptVars, clientVars, listener, backlog, missed>>

\* The statistics of the server, every 5 s, print the error and thereby take it.
ServerStates ==
  /\ ServerIsFree
  /\ sockerr /\ sockerr' = FALSE
  /\ UNCHANGED <<poolVars, acceptVars, clientVars, listener, backlog, missed>>

\* The event without an error: handle_onread.
HandleRead ==
  /\ Readable /\ ~sockerr
  /\ listener' = [listener EXCEPT !.due = FALSE]
  /\ accepting' = TRUE
  /\ UNCHANGED <<poolVars, clientVars, acceptor, backlog, sockerr, index, missed>>

\* The event with one: it is taken by the test, so handle_onerror finds none, and
\* handle_onclose closes the acceptor; those who wait are turned away.
HandleReadFails ==
  /\ Readable /\ sockerr
  /\ sockerr' = FALSE
  /\ acceptor' = "DISCONNECTED"
  /\ listener' = destroy(listener)
  /\ backlog' = << >>
  /\ phase' = [c \in Client |-> IF phase[c] = "queued" THEN "refused" ELSE phase[c]]
  /\ missed' = FALSE
  /\ UNCHANGED <<poolVars, accepting, index, worker, tasks>>

\* ThreadingEventLoop::get_loop(false)
NextIndex == (index + 1) % (Size - 1)

\* Mutant of Handed: the connection is in the map, but nobody activates it.
NotHanded(c, w) == tasks

\* activate: a loop that has left run drops the task.
Handed(c, w) ==
  IF place[w] = "running" THEN [tasks EXCEPT ![w] = Append(@, c)] ELSE tasks

\* accept gives a connection, which goes into the map and to worker w.
Give(c, w) ==
  /\ backlog' = Tail(backlog)
  /\ phase' = [phase EXCEPT ![c] = "new"]
  /\ worker' = [worker EXCEPT ![c] = w]
  /\ tasks' = Handed(c, w)
  /\ UNCHANGED poolVars

AcceptNext ==
  /\ accepting /\ backlog # << >>
  /\ index' = NextIndex
  /\ IF loop[NextIndex + 1] THEN Give(Head(backlog), NextIndex + 1)
     ELSE Break("worker") /\ UNCHANGED <<clientVars, backlog>>
  /\ UNCHANGED <<acceptor, listener, sockerr, missed>>

\* Mutant of Accept: one connection for each event.
AcceptOnce == AcceptNext /\ accepting' = FALSE

Accept == AcceptNext /\ UNCHANGED accepting

\* accept gives none: there is no one; there is no descriptor left, whoever has them;
\* or it is one that has failed.
AcceptEnds ==
  /\ accepting /\ backlog = << >>
  /\ accepting' = FALSE
  /\ UNCHANGED <<poolVars, socketVars, clientVars, acceptor, index>>

AcceptFails ==
  /\ accepting /\ backlog # << >>
  /\ accepting' = FALSE
  /\ missed' = TRUE
  /\ UNCHANGED <<poolVars, clientVars, acceptor, listener, backlog, sockerr, index>>

AcceptAborts ==
  /\ accepting /\ backlog # << >>
  /\ accepting' = FALSE
  /\ backlog' = Tail(backlog)
  /\ missed' = (backlog' # << >>)
  /\ phase' = [phase EXCEPT ![Head(backlog)] = "refused"]
  /\ UNCHANGED <<poolVars, acceptor, listener, sockerr, index, worker, tasks>>
-----------------------------------------------------------------------------
\* Mutant of Activate: the task stays in the queue.
ActivateAgain(t) ==
  /\ place[t] = "running"
  /\ tasks[t] # << >>
  /\ phase' = [phase EXCEPT ![Head(tasks[t])] = "open"]
  /\ UNCHANGED <<poolVars, acceptVars, socketVars, worker, tasks>>

\* A worker's loop runs the activation.
Activate(t) ==
  /\ place[t] = "running"
  /\ tasks[t] # << >>
  /\ phase' = [phase EXCEPT ![Head(tasks[t])] = "open"]
  /\ tasks' = [tasks EXCEPT ![t] = Tail(@)]
  /\ UNCHANGED <<poolVars, acceptVars, socketVars, worker>>

\* Mutant of ForceClose: the connection is erased at once.
ForceErase(c) ==
  /\ phase[c] = "open"
  /\ place[worker[c]] = "running" \/ ServerIsFree
  /\ phase' = [phase EXCEPT ![c] = "gone"]
  /\ UNCHANGED <<poolVars, acceptVars, socketVars, worker, tasks>>

\* force_close by the worker, or by the server when a timeout is over.  It takes the
\* channel out of the selector of the worker's loop, and its callback calls
\* call_later of the server's loop.
ForceClose(c) ==
  /\ phase[c] = "open"
  /\ place[worker[c]] = "running" \/ ServerIsFree
  /\ CASE place[worker[c]] = "over" -> Fail("worker")
       [] place[0] = "over" -> Fail("server")
       [] OTHER -> /\ phase' = [phase EXCEPT ![c] = "lost"]
                   /\ UNCHANGED <<poolVars, acceptVars, socketVars, worker, tasks>>

\* The timer of two seconds, in the server's loop.
Erase(c) ==
  /\ ServerIsFree
  /\ phase[c] = "lost"
  /\ phase' = [phase EXCEPT ![c] = "gone"]
  /\ worker' = [worker EXCEPT ![c] = 0]
  /\ UNCHANGED <<poolVars, acceptVars, socketVars, tasks>>
-----------------------------------------------------------------------------
\* run tests _close between two calls of select.
Pool(step) ==
  /\ step
  /\ accepting => place'[0] = place[0]
  /\ UNCHANGED serverVars

Acceptor ==
  \/ ActivateAcceptor \/ HandleRead \/ HandleReadFails
  \/ Accept \/ AcceptEnds \/ AcceptFails \/ AcceptAborts

Next ==
  /\ broken = "none"
  /\ \/ Pool(PoolStep)
     \/ ActivateServer \/ Acceptor \/ ListenerFails \/ ServerStates
     \/ \E t \in Thread : Activate(t)
     \/ \E c \in Client : Connect(c) \/ ForceClose(c) \/ Erase(c)

Spec == Init /\ [][Next]_vars

\* The loops go on.  Nobody need connect, close a loop or call anything of the pool.
FairSpec ==
  /\ Spec
  /\ WF_vars(broken = "none" /\ Acceptor)
  /\ \A t \in Thread : WF_vars(broken = "none" /\ Activate(t))
-----------------------------------------------------------------------------
TypeOK ==
  /\ PoolTypeOK
  /\ acceptor \in {"none", "handed", "ACTIVATED", "DISCONNECTED"}
  /\ listener.registered <=> acceptor = "ACTIVATED"
  /\ {sockerr, accepting, missed} \subseteq BOOLEAN
  /\ index \in 0 .. Size - 2
  /\ \A c \in Client : /\ phase[c] = "queued" <=> \E i \in 1 .. Len(backlog) : backlog[i] = c
                       /\ c \in Connections => worker[c] \in Thread \ {0}
  /\ \A t \in Thread : \A i \in 1 .. Len(tasks[t]) :
       worker[tasks[t][i]] = t /\ phase[tasks[t][i]] = "new"

\* The events of the listening socket are edges: while clients wait, epoll is about
\* to report it or the accept loop goes on.  The exception is an accept that failed
\* with others waiting: they wait until somebody else connects.
BacklogIsWatched ==
  backlog # << >> /\ ~missed => listener.due \/ accepting

\* The pool closes the loop of the acceptor first, and joins its thread, so no
\* connection is given to a worker's loop, or taken from it by the server, when that
\* has ended, unless a callback closed it (ThreadingEventLoop.cpp:140-144).
WorkersOutliveTheServer == broken = "worker" => foreign \ {0} # {}

\* When clients wait for their connection there comes a time when nobody does: they
\* were refused or opened, unless an accept fails or the program or one of its loops
\* comes to an end.
Waiting == {c \in Client : phase[c] \in {"queued", "new"}}

ClientsAreServed ==
  Waiting # {} ~> Waiting = {} \/ missed \/ broken # "none" \/ \E t \in Thread : closing[t]

\* Acceptor, pool and workers take each connection through its phases as Session
\* says, from when it was accepted; it is refused only before.
SessionPhase(c) == IF phase[c] \in {"out", "queued", "refused"} THEN "new" ELSE phase[c]

SessionOf(c) == INSTANCE Session WITH phase <- SessionPhase(c)

SessionsAreKept ==
  [][\A c \in Client : [SessionOf(c)!SessionNext]_(SessionPhase(c))]_phase
=============================================================================
