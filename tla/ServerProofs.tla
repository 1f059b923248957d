---------------------------- MODULE ServerProofs ----------------------------
(***************************************************************************)
(* Proofs about Server, for pools of any size and any number of clients. A *)
(* step of the pool under the server is a step of LoopPool, so its         *)
(* invariant comes with it; to it are added where the connections are on   *)
(* their way from the backlog to their workers, and that the owner closes  *)
(* a worker only when the server's thread is over.                         *)
(***************************************************************************)
EXTENDS Server, LoopPoolProofs, SequenceTheorems

Phases == {"out", "queued", "refused", "new", "open", "lost", "gone"}

\* The pointers to the loops of all threads have been taken.
PoolMade == owner.op # "make" \/ owner.at = "idle"

ServerTypeOK ==
  /\ acceptor \in {"none", "handed", "ACTIVATED", "DISCONNECTED"}
  /\ accepting \in BOOLEAN /\ sockerr \in BOOLEAN /\ missed \in BOOLEAN
  /\ index \in 0 .. Size - 2
  /\ backlog \in Seq(Client)
  /\ phase \in [Client -> Phases]
  /\ worker \in [Client -> Thread]
  /\ tasks \in [Thread -> Seq(Client)]

\* The listening channel, by what the acceptor has done with it.
ListenerInv ==
  /\ acceptor \in {"none", "handed"} => listener = NewChannel
  /\ acceptor = "ACTIVATED" =>
       /\ listener \in [state : {"ADDED"}, events : {{"READ"}}, registered : {TRUE},
                        interest : {{"READ"}}, due : BOOLEAN]
  /\ acceptor = "DISCONNECTED" =>
       /\ ~listener.registered
       /\ backlog = << >>

\* The accept loop runs in the server's loop, when the pool is complete.
AcceptorInv ==
  /\ acceptor # "none" => PoolMade
  /\ accepting => acceptor = "ACTIVATED" /\ place[0] = "running"
  /\ backlog # << >> => acceptor = "ACTIVATED"

\* Those who wait to be accepted are in the backlog, once each.
BacklogInv ==
  /\ \A i \in 1 .. Len(backlog) : phase[backlog[i]] = "queued"
  /\ \A c \in Client : phase[c] = "queued" => \E i \in 1 .. Len(backlog) : backlog[i] = c
  /\ \A i, j \in 1 .. Len(backlog) : backlog[i] = backlog[j] => i = j

\* Those who are to be activated are in the tasks of their worker, once each.
TasksInv ==
  \A t \in Thread :
    /\ \A i \in 1 .. Len(tasks[t]) : worker[tasks[t][i]] = t /\ phase[tasks[t][i]] = "new"
    /\ \A i, j \in 1 .. Len(tasks[t]) : tasks[t][i] = tasks[t][j] => i = j

WorkersInv ==
  \A c \in Client : phase[c] \in {"new", "open", "lost"} => worker[c] \in Thread \ {0}

\* The owner closes the loop of a worker only when the server's thread has stopped.
CloseInv ==
  \A w \in Thread \ {0} : closing[w] =>
    w \in foreign \/ (Stopped(0) /\ owner.op # "make")

\* The inductive invariant.
ServerInv ==
  /\ PoolInv
  /\ ServerTypeOK /\ ListenerInv /\ AcceptorInv /\ BacklogInv /\ TasksInv /\ WorkersInv
  /\ CloseInv
  /\ BacklogIsWatched /\ WorkersOutliveTheServer
-----------------------------------------------------------------------------
\* What a step of the pool may do to what the server relies on.
PoolKeeps ==
  /\ broken' # "worker"
  /\ owner.op # "make" => owner'.op # "make"
  /\ PoolMade => PoolMade'
  /\ foreign \subseteq foreign'
  /\ owner.op # "make" /\ Stopped(0) => Stopped(0)'
  /\ \A w \in Thread : closing'[w] =>
       closing[w] \/ w \in foreign' \/ (owner.op # "make" /\ owner.t = w)

LEMMA ThreadStepKeeps ==
  ASSUME PoolInv, broken = "none", NEW t \in Thread, LoopThread(t) \/ CloseFromCallback(t)
  PROVE  PoolKeeps
<1> USE SizeAssumption DEF PoolInv, PoolTypeOK, PoolKeeps, PoolMade, Stopped, Thread,
                           threadVars, past, Break
<1>1. CASE SetValue(t)          BY <1>1 DEF SetValue
<1>2. CASE SetValueEarly(t)     BY <1>2 DEF SetValueEarly
<1>3. CASE Leave(t)             BY <1>3 DEF Leave
<1>4. CASE Null(t)              BY <1>4 DEF Null
<1>5. CASE End(t)               BY <1>5 DEF End
<1>6. CASE CloseFromCallback(t) BY <1>6 DEF CloseFromCallback
<1> QED
  BY <1>1, <1>2, <1>3, <1>4, <1>5, <1>6 DEF LoopThread

LEMMA OwnerStepKeeps ==
  ASSUME PoolInv, broken = "none", NEW t \in Thread, Owner(t)
  PROVE  PoolKeeps
<1>1. /\ owner \in OwnerType /\ PoolTypeOK /\ OwnerTypeOK
      /\ owner.t = t => owner.at # "idle"
  BY DEF PoolInv, OwnerTypeOK, PoolTypeOK, Thread
<1> USE <1>1, SizeAssumption, GoOnEffect, NextThreadEffect
    DEF OwnerAt, Places, PoolKeeps, PoolMade, Stopped, Thread, threadVars, past, Break
<1>2. CASE MakeThread(t)
  <2>1. owner.op = "make"
    BY <1>2 DEF MakeThread, OwnerTypeOK, OwnerType
  <2> QED
    BY <1>2, <2>1 DEF MakeThread, PoolTypeOK
<1>3. CASE MakePromise(t)  BY <1>3 DEF MakePromise, OwnerTypeOK
<1>4. CASE GetFuture(t)    BY <1>4 DEF GetFuture, OwnerTypeOK
<1>5. CASE CloseReads(t)   BY <1>5 DEF CloseReads, OwnerTypeOK
<1>6. CASE CloseSets(t)    BY <1>6 DEF CloseSets, OwnerTypeOK, PoolTypeOK
<1>7. CASE ClosePushes(t)  BY <1>7 DEF ClosePushes, OwnerTypeOK
<1>8. CASE JoinReads(t)    BY <1>8 DEF JoinReads, AfterJoin, OwnerTypeOK
<1>9. CASE Join(t)         BY <1>9 DEF Join, AfterJoin, OwnerTypeOK
<1>10. CASE CloseClears(t) BY <1>10 DEF CloseClears, OwnerTypeOK
<1>11. CASE DestroyTests(t)   BY <1>11 DEF DestroyTests, OwnerTypeOK
<1>12. CASE DestroyMembers(t) BY <1>12 DEF DestroyMembers, OwnerTypeOK
<1> QED
  BY <1>2, <1>3, <1>4, <1>5, <1>6, <1>7, <1>8, <1>9, <1>10, <1>11, <1>12 DEF Owner

LEMMA BeginStepKeeps ==
  ASSUME PoolInv, broken = "none", NEW op \in {"wait", "close", "destroy"}, Begin(op)
  PROVE  PoolKeeps
BY DEF Begin, PoolInv, PoolTypeOK, PoolKeeps, PoolMade, Stopped, threadVars, past

LEMMA PoolStepKeeps ==
  ASSUME PoolInv, broken = "none", PoolStep
  PROVE  PoolKeeps
BY ThreadStepKeeps, OwnerStepKeeps, BeginStepKeeps DEF PoolStep

LEMMA PoolKeepsServerInv ==
  ASSUME ServerInv, broken = "none", Pool(PoolStep)
  PROVE  ServerInv'
<1>1. PoolInv'
  BY PoolStepKeepsInv DEF ServerInv, Pool
<1>2. /\ PoolKeeps
      /\ UNCHANGED serverVars
      /\ accepting => place'[0] = place[0]
  BY PoolStepKeeps DEF ServerInv, Pool
<1> USE DEF serverVars, acceptVars, socketVars, clientVars
<1>3. /\ ServerTypeOK' /\ ListenerInv' /\ BacklogInv' /\ TasksInv' /\ WorkersInv'
      /\ BacklogIsWatched'
  <2>1. ServerTypeOK'     BY <1>2 DEF ServerInv, ServerTypeOK
  <2>2. ListenerInv'      BY <1>2 DEF ServerInv, ListenerInv
  <2>3. BacklogInv'       BY <1>2 DEF ServerInv, BacklogInv
  <2>4. TasksInv'         BY <1>2 DEF ServerInv, TasksInv
  <2>5. WorkersInv'       BY <1>2 DEF ServerInv, WorkersInv
  <2>6. BacklogIsWatched' BY <1>2 DEF ServerInv, BacklogIsWatched
  <2> QED
    BY <2>1, <2>2, <2>3, <2>4, <2>5, <2>6
<1>4. AcceptorInv'
  BY <1>2 DEF ServerInv, AcceptorInv, PoolKeeps
<1>5. CloseInv'
  <2> SUFFICES ASSUME NEW w \in Thread \ {0}, closing'[w], w \notin foreign'
               PROVE  Stopped(0)' /\ owner'.op # "make"
    BY DEF CloseInv
  <2>1. CASE closing[w]
    BY <1>2, <2>1 DEF ServerInv, CloseInv, PoolKeeps
  <2>2. CASE owner.op # "make" /\ owner.t = w
    <3>1. 0 \in Thread /\ 0 < w
      BY SizeAssumption DEF Thread
    <3>2. Stopped(0)
      BY <2>2, <3>1 DEF ServerInv, PoolInv, DoneThreadsHaveStopped, Stopped
    <3> QED
      BY <1>2, <2>2, <3>2 DEF PoolKeeps
  <2> QED
    BY <1>2, <2>1, <2>2 DEF PoolKeeps
<1>6. WorkersOutliveTheServer'
  BY <1>2 DEF PoolKeeps, WorkersOutliveTheServer
<1> QED
  BY <1>1, <1>3, <1>4, <1>5, <1>6 DEF ServerInv
-----------------------------------------------------------------------------
\* The steps of the server leave the pool alone, or break the program.
LEMMA PoolUntouched ==
  ASSUME ServerInv, UNCHANGED poolVars
  PROVE  PoolInv' /\ CloseInv' /\ WorkersOutliveTheServer'
<1>1. PoolInv'
  BY StutterKeepsInv DEF ServerInv
<1>2. CloseInv' /\ WorkersOutliveTheServer'
  BY DEF poolVars, threadVars, past, ServerInv, CloseInv, WorkersOutliveTheServer, Stopped
<1> QED
  BY <1>1, <1>2

\* A worker's loop that has ended while the server's goes on was closed by a callback.
LEMMA EndedWorkerIsForeign ==
  ASSUME ServerInv, place[0] = "running", NEW w \in Thread \ {0},
         place[w] = "over" \/ (~loop[w] /\ PoolMade)
  PROVE  w \in foreign \ {0}
<1>1. 0 \in Thread /\ ThreadInv(w)
  BY SizeAssumption DEF Thread, ServerInv, PoolInv
<1>2. closing[w]
  <2>1. CASE place[w] = "over"
    BY <1>1, <2>1 DEF ThreadInv
  <2>2. CASE ~loop[w] /\ PoolMade
    <3>1. Made(w)
      BY <2>2 DEF Made, PoolMade, ServerInv, PoolInv, PoolTypeOK, Thread
    <3> QED
      BY <1>1, <2>2, <3>1 DEF ThreadInv, Stopped
  <2> QED
    BY <2>1, <2>2
<1> QED
  BY <1>1, <1>2 DEF ServerInv, CloseInv, Stopped

LEMMA FailKeepsPart ==
  ASSUME ServerInv, NEW how \in {"worker", "server"}, Break(how),
         how = "worker" => foreign \ {0} # {}
  PROVE  PoolInv' /\ CloseInv' /\ WorkersOutliveTheServer'
<1>1. PoolInv'
  BY BreakKeepsInv DEF ServerInv
<1>2. CloseInv' /\ WorkersOutliveTheServer'
  BY DEF Break, threadVars, ServerInv, CloseInv, WorkersOutliveTheServer, Stopped
<1> QED
  BY <1>1, <1>2

LEMMA GetLoopInRange ==
  ASSUME index \in 0 .. Size - 2
  PROVE  NextIndex \in 0 .. Size - 2 /\ NextIndex + 1 \in Thread \ {0}
<1>1. Size \in Nat /\ Size - 1 \in Nat \ {0} /\ index + 1 \in Nat
  BY SizeAssumption, ServerAssumption
<1>2. \A n \in Nat, d \in Nat \ {0} : n % d \in 0 .. d - 1
  OBVIOUS
<1>3. NextIndex \in 0 .. (Size - 1) - 1
  BY <1>1, <1>2 DEF NextIndex
<1> QED
  BY <1>1, <1>3 DEF Thread

-----------------------------------------------------------------------------
\* The steps that move no connection.
LEMMA AcceptorKeepsServerInv ==
  ASSUME ServerInv,
         \/ ActivateServer \/ ActivateAcceptor \/ ListenerFails \/ ServerStates
         \/ HandleRead \/ AcceptEnds \/ AcceptFails
  PROVE  ServerInv'
<1> USE DEF poolVars, acceptVars, socketVars, clientVars, serverVars
<1>1. /\ ServerTypeOK /\ ListenerInv /\ AcceptorInv /\ BacklogInv /\ TasksInv /\ WorkersInv
      /\ BacklogIsWatched
  BY DEF ServerInv
<1>2. UNCHANGED clientVars /\ UNCHANGED backlog
  BY DEF ActivateServer, ActivateAcceptor, ListenerFails, ServerStates, HandleRead,
     AcceptEnds, AcceptFails
<1>3. BacklogInv' /\ TasksInv' /\ WorkersInv'
  BY <1>1, <1>2 DEF BacklogInv, TasksInv, WorkersInv
<1>4. PoolInv' /\ CloseInv' /\ WorkersOutliveTheServer'
  <2>1. CASE ActivateServer /\ ~loop[0]
    BY <2>1, FailKeepsPart DEF ActivateServer
  <2>2. CASE ~(ActivateServer /\ ~loop[0])
    <3>1. UNCHANGED poolVars
      BY <2>2 DEF ActivateServer, ActivateAcceptor, ListenerFails, ServerStates, HandleRead,
         AcceptEnds, AcceptFails, past
    <3> QED
      BY <3>1, PoolUntouched
  <2> QED
    BY <2>1, <2>2
<1>5. /\ ServerTypeOK' /\ ListenerInv' /\ AcceptorInv' /\ BacklogIsWatched'
  <2> USE <1>1 DEF ServerTypeOK, ListenerInv, AcceptorInv, BacklogIsWatched, PoolMade
  <2>1. CASE ActivateServer
    BY <2>1 DEF ActivateServer, Break, threadVars
  <2>2. CASE ActivateAcceptor
    <3>1. listener' \in [state : {"ADDED"}, events : {{"READ"}}, registered : {TRUE},
                         interest : {{"READ"}}, due : {TRUE}]
      <4> DEFINE on == [NewChannel EXCEPT !.events = @ \union {"READ"}]
      <4>1. listener = NewChannel /\ NewChannel.events = {}
        BY <2>2 DEF ActivateAcceptor, NewChannel
      <4>2. on \in [state : {"NEW"}, events : {{"READ"}}, registered : {FALSE},
                    interest : {{}}, due : {FALSE}]
        BY DEF NewChannel
      <4>3. listener' = notify(on)
        BY <2>2, <4>1 DEF ActivateAcceptor, resume_reading, is_reading, enable
      <4> HIDE DEF on
      <4>4. notify(on) = Watch([on EXCEPT !.state = "ADDED"])
        BY <4>2 DEF notify
      <4> QED
        BY <4>2, <4>3, <4>4 DEF Watch
    <3> QED
      BY <2>2, <3>1 DEF ActivateAcceptor, ServerIsFree, threadVars
  <2>3. CASE ListenerFails \/ ServerStates
    <3>1. /\ UNCHANGED <<poolVars, acceptVars, clientVars, listener, backlog, missed>>
          /\ sockerr' \in BOOLEAN
      BY <2>3 DEF ListenerFails, ServerStates
    <3> QED
      BY <3>1 DEF threadVars
  <2>4. CASE HandleRead
    <3>1. acceptor = "ACTIVATED" /\ place[0] = "running"
      BY <2>4 DEF HandleRead, Readable, ServerIsFree, Reported, NewChannel
    <3> QED
      BY <2>4, <3>1 DEF HandleRead, threadVars
  <2>5. CASE AcceptEnds \/ AcceptFails
    BY <2>5 DEF AcceptEnds, AcceptFails, threadVars
  <2> QED
    BY <2>1, <2>2, <2>3, <2>4, <2>5
<1> QED
  BY <1>3, <1>4, <1>5 DEF ServerInv

\* A client joins the backlog.
LEMMA ConnectKeepsServerInv ==
  ASSUME ServerInv, NEW c \in Client, Connect(c)
  PROVE  ServerInv'
<1> USE DEF poolVars, acceptVars, Connect
<1>1. /\ ServerTypeOK /\ ListenerInv /\ AcceptorInv /\ BacklogInv /\ TasksInv /\ WorkersInv
      /\ BacklogIsWatched
  BY DEF ServerInv
<1>2. PoolInv' /\ CloseInv' /\ WorkersOutliveTheServer'
  BY PoolUntouched
<1>3. ServerTypeOK'
  <2>1. phase' \in [Client -> Phases]
    BY <1>1 DEF ServerTypeOK, Phases
  <2>2. backlog' \in Seq(Client)
    BY <1>1, AppendProperties DEF ServerTypeOK
  <2> QED
    BY <1>1, <2>1, <2>2 DEF ServerTypeOK
<1>4. ListenerInv' /\ AcceptorInv' /\ BacklogIsWatched'
  BY <1>1 DEF ListenerInv, AcceptorInv, BacklogIsWatched, Signal, PoolMade, threadVars
<1>5. /\ Len(backlog') = Len(backlog) + 1 /\ Len(backlog) \in Nat
      /\ \A i \in 1 .. Len(backlog) : backlog'[i] = backlog[i]
      /\ backlog'[Len(backlog) + 1] = c
  BY <1>1, AppendProperties DEF ServerTypeOK
<1>6. BacklogInv'
  <2>1. \A i \in 1 .. Len(backlog) : backlog[i] \in Client /\ backlog[i] # c
    BY <1>1, ElementOfSeq DEF BacklogInv, ServerTypeOK
  <2>2. \A i \in 1 .. Len(backlog') : phase'[backlog'[i]] = "queued"
    BY <1>1, <1>5, <2>1 DEF BacklogInv, ServerTypeOK
  <2>3. \A d \in Client : phase'[d] = "queued" => \E i \in 1 .. Len(backlog') : backlog'[i] = d
    <3> SUFFICES ASSUME NEW d \in Client, phase'[d] = "queued"
                 PROVE  \E i \in 1 .. Len(backlog') : backlog'[i] = d
      OBVIOUS
    <3>1. CASE d = c
      BY <1>5, <3>1
    <3>2. CASE d # c
      BY <1>1, <1>5, <3>2 DEF BacklogInv, ServerTypeOK
    <3> QED
      BY <3>1, <3>2
  <2>4. \A i, j \in 1 .. Len(backlog') : backlog'[i] = backlog'[j] => i = j
    BY <1>1, <1>5, <2>1 DEF BacklogInv
  <2> QED
    BY <2>2, <2>3, <2>4 DEF BacklogInv
<1>7. TasksInv'
  BY <1>1 DEF TasksInv, ServerTypeOK
<1>8. WorkersInv'
  BY <1>1 DEF WorkersInv, ServerTypeOK
<1> QED
  BY <1>2, <1>3, <1>4, <1>6, <1>7, <1>8 DEF ServerInv

\* The steps that take a connection out of the backlog: it is turned away or goes to a
\* worker, whose loop may drop the task.
LEMMA BacklogTail ==
  ASSUME ServerTypeOK, BacklogInv, backlog # << >>
  PROVE  /\ Head(backlog) \in Client /\ phase[Head(backlog)] = "queued"
         /\ Tail(backlog) \in Seq(Client)
         /\ \A i \in 1 .. Len(Tail(backlog)) : /\ Tail(backlog)[i] = backlog[i + 1]
                                               /\ i + 1 \in 1 .. Len(backlog)
                                               /\ Tail(backlog)[i] # Head(backlog)
         /\ \A c \in Client : phase[c] = "queued" /\ c # Head(backlog) =>
              \E i \in 1 .. Len(Tail(backlog)) : Tail(backlog)[i] = c
<1>1. /\ backlog \in Seq(Client) /\ Len(backlog) \in Nat \ {0}
      /\ Head(backlog) \in Client /\ Head(backlog) = backlog[1]
      /\ Tail(backlog) \in Seq(Client) /\ Len(Tail(backlog)) = Len(backlog) - 1
      /\ \A i \in 1 .. Len(Tail(backlog)) : Tail(backlog)[i] = backlog[i + 1]
  BY HeadTailProperties DEF ServerTypeOK
<1>2. \A i \in 1 .. Len(Tail(backlog)) : /\ Tail(backlog)[i] = backlog[i + 1]
                                         /\ i + 1 \in 1 .. Len(backlog)
                                         /\ Tail(backlog)[i] # Head(backlog)
  BY <1>1 DEF BacklogInv
<1>3. ASSUME NEW c \in Client, phase[c] = "queued", c # Head(backlog)
      PROVE  \E i \in 1 .. Len(Tail(backlog)) : Tail(backlog)[i] = c
  <2>1. PICK j \in 1 .. Len(backlog) : backlog[j] = c
    BY <1>3 DEF BacklogInv
  <2>2. j - 1 \in 1 .. Len(Tail(backlog)) /\ (j - 1) + 1 = j
    BY <1>1, <1>3, <2>1
  <2> QED
    BY <1>1, <2>1, <2>2
<1> QED
  BY <1>1, <1>2, <1>3 DEF BacklogInv

LEMMA BacklogShrinks ==
  ASSUME ServerTypeOK, BacklogInv, backlog # << >>, backlog' = Tail(backlog),
         NEW p \in Phases \ {"queued"}, phase' = [phase EXCEPT ![Head(backlog)] = p]
  PROVE  /\ BacklogInv'
         /\ backlog' \in Seq(Client) /\ phase' \in [Client -> Phases]
         /\ \A c \in Client : c # Head(backlog) => phase'[c] = phase[c]
<1>1. /\ backlog' \in Seq(Client) /\ phase' \in [Client -> Phases]
      /\ \A c \in Client : phase'[c] = IF c = Head(backlog) THEN p ELSE phase[c]
  BY BacklogTail DEF ServerTypeOK
<1>2. \A i \in 1 .. Len(backlog') : backlog'[i] \in Client
  BY <1>1, ElementOfSeq
<1>3. \A i \in 1 .. Len(backlog') : phase'[backlog'[i]] = "queued"
  BY <1>1, <1>2, BacklogTail DEF BacklogInv
<1>4. \A c \in Client : phase'[c] = "queued" => \E i \in 1 .. Len(backlog') : backlog'[i] = c
  BY <1>1, BacklogTail
<1>5. \A i, j \in 1 .. Len(backlog') : backlog'[i] = backlog'[j] => i = j
  <2> SUFFICES ASSUME NEW i \in 1 .. Len(backlog'), NEW j \in 1 .. Len(backlog'),
                      backlog'[i] = backlog'[j]
               PROVE  i = j
    OBVIOUS
  <2>1. /\ i + 1 \in 1 .. Len(backlog) /\ j + 1 \in 1 .. Len(backlog)
        /\ backlog[i + 1] = backlog[j + 1]
    BY BacklogTail
  <2> QED
    BY <2>1 DEF BacklogInv
<1> QED
  BY <1>1, <1>3, <1>4, <1>5 DEF BacklogInv

LEMMA AbortKeepsServerInv ==
  ASSUME ServerInv, AcceptAborts
  PROVE  ServerInv'
<1> USE DEF AcceptAborts, poolVars
<1>1. /\ ServerTypeOK /\ ListenerInv /\ AcceptorInv /\ BacklogInv /\ TasksInv /\ WorkersInv
      /\ BacklogIsWatched
  BY DEF ServerInv
<1>2. PoolInv' /\ CloseInv' /\ WorkersOutliveTheServer'
  BY PoolUntouched
<1>3. /\ BacklogInv'
      /\ backlog' \in Seq(Client) /\ phase' \in [Client -> Phases]
      /\ Head(backlog) \in Client /\ phase[Head(backlog)] = "queued"
      /\ \A c \in Client : phase'[c] = IF c = Head(backlog) THEN "refused" ELSE phase[c]
  BY <1>1, BacklogTail, BacklogShrinks DEF Phases, ServerTypeOK
<1>4. ServerTypeOK'
  BY <1>1, <1>3 DEF ServerTypeOK
<1>5. ListenerInv' /\ AcceptorInv' /\ BacklogIsWatched'
  BY <1>1 DEF ListenerInv, AcceptorInv, BacklogIsWatched, PoolMade, threadVars
<1>6. TasksInv'
  <2>1. \A t \in Thread : \A i \in 1 .. Len(tasks[t]) : tasks[t][i] \in Client
    BY <1>1, ElementOfSeq DEF ServerTypeOK
  <2> QED
    BY <1>1, <1>3, <2>1, ZenonT(30) DEF TasksInv
<1>7. WorkersInv'
  BY <1>1, <1>3 DEF WorkersInv
<1> QED
  BY <1>2, <1>3, <1>4, <1>5, <1>6, <1>7 DEF ServerInv

LEMMA AcceptKeepsServerInv ==
  ASSUME ServerInv, Accept
  PROVE  ServerInv'
<1> USE DEF Accept, AcceptNext, poolVars
<1>1. /\ ServerTypeOK /\ ListenerInv /\ AcceptorInv /\ BacklogInv /\ TasksInv /\ WorkersInv
      /\ BacklogIsWatched
  BY DEF ServerInv
<1> DEFINE w == NextIndex + 1
           c == Head(backlog)
<1>2. index' \in 0 .. Size - 2 /\ w \in Thread \ {0}
  BY <1>1, GetLoopInRange DEF ServerTypeOK
<1>3. place[0] = "running" /\ PoolMade
  BY <1>1 DEF AcceptorInv
<1>4. CASE ~loop[w]
  <2>1. Break("worker") /\ UNCHANGED <<clientVars, backlog>>
    BY <1>4
  <2>2. foreign \ {0} # {}
    BY <1>2, <1>3, <1>4, EndedWorkerIsForeign
  <2>3. PoolInv' /\ CloseInv' /\ WorkersOutliveTheServer'
    BY <2>1, <2>2, FailKeepsPart
  <2>4. ServerTypeOK'
    BY <1>1, <1>2, <2>1 DEF ServerTypeOK, clientVars
  <2>5. BacklogInv' /\ TasksInv' /\ WorkersInv'
    BY <1>1, <2>1 DEF BacklogInv, TasksInv, WorkersInv, clientVars
  <2>6. ListenerInv' /\ AcceptorInv' /\ BacklogIsWatched'
    BY <1>1, <2>1 DEF ListenerInv, AcceptorInv, BacklogIsWatched, PoolMade, Break, threadVars
  <2> QED
    BY <2>3, <2>4, <2>5, <2>6 DEF ServerInv
<1>5. CASE loop[w]
  <2>1. Give(c, w)
    BY <1>5
  <2>2. PoolInv' /\ CloseInv' /\ WorkersOutliveTheServer'
    BY <2>1, PoolUntouched DEF Give
  <2>3. /\ BacklogInv'
        /\ backlog' \in Seq(Client) /\ phase' \in [Client -> Phases]
        /\ c \in Client /\ phase[c] = "queued"
        /\ \A d \in Client : phase'[d] = IF d = c THEN "new" ELSE phase[d]
    BY <1>1, <2>1, BacklogTail, BacklogShrinks DEF Phases, ServerTypeOK, Give
  <2>4. /\ worker' \in [Client -> Thread]
        /\ \A d \in Client : worker'[d] = IF d = c THEN w ELSE worker[d]
    BY <1>1, <1>2, <2>1, <2>3 DEF Give, ServerTypeOK
  <2>5. /\ \/ tasks' = tasks
           \/ tasks' = [tasks EXCEPT ![w] = Append(tasks[w], c)]
    BY <2>1 DEF Give, Handed
  <2>6. tasks' \in [Thread -> Seq(Client)]
    <3>1. tasks \in [Thread -> Seq(Client)] /\ Append(tasks[w], c) \in Seq(Client)
      BY <1>1, <1>2, <2>3, AppendProperties DEF ServerTypeOK
    <3>2. \A q \in Seq(Client) : [tasks EXCEPT ![w] = q] \in [Thread -> Seq(Client)]
      BY <1>2, <3>1
    <3> QED
      BY <2>5, <3>1, <3>2
  <2>7. ServerTypeOK'
    BY <1>1, <1>2, <2>3, <2>4, <2>6 DEF ServerTypeOK
  <2>8. ListenerInv' /\ AcceptorInv' /\ BacklogIsWatched'
    BY <1>1, <2>1 DEF ListenerInv, AcceptorInv, BacklogIsWatched, PoolMade, Give, threadVars
  <2>9. WorkersInv'
    BY <1>1, <1>2, <2>3, <2>4 DEF WorkersInv
  <2>10. TasksInv'
    <3> SUFFICES ASSUME NEW t \in Thread
                 PROVE
          /\ \A i \in 1 .. Len(tasks'[t]) :
               worker'[tasks'[t][i]] = t /\ phase'[tasks'[t][i]] = "new"
          /\ \A i, j \in 1 .. Len(tasks'[t]) : tasks'[t][i] = tasks'[t][j] => i = j
      BY DEF TasksInv
    <3>1. /\ tasks[t] \in Seq(Client)
          /\ \A i \in 1 .. Len(tasks[t]) :
               /\ tasks[t][i] \in Client /\ tasks[t][i] # c
               /\ worker'[tasks[t][i]] = t /\ phase'[tasks[t][i]] = "new"
      <4>1. tasks[t] \in Seq(Client)
        BY <1>1 DEF ServerTypeOK
      <4>2. ASSUME NEW i \in 1 .. Len(tasks[t])
            PROVE  /\ tasks[t][i] \in Client /\ tasks[t][i] # c
                   /\ worker'[tasks[t][i]] = t /\ phase'[tasks[t][i]] = "new"
        <5>1. tasks[t][i] \in Client
          BY <4>1, ElementOfSeq
        <5>2. worker[tasks[t][i]] = t /\ phase[tasks[t][i]] = "new"
          BY <1>1 DEF TasksInv
        <5>3. tasks[t][i] # c
          BY <2>3, <5>2
        <5> QED
          BY <2>3, <2>4, <5>1, <5>2, <5>3
      <4> QED
        BY <4>1, <4>2
    <3>2. CASE tasks'[t] = tasks[t]
      BY <1>1, <3>1, <3>2 DEF TasksInv
    <3>3. CASE t = w /\ tasks'[t] = Append(tasks[t], c)
      <4>1. /\ Len(tasks'[t]) = Len(tasks[t]) + 1 /\ Len(tasks[t]) \in Nat
            /\ \A i \in 1 .. Len(tasks[t]) : tasks'[t][i] = tasks[t][i]
            /\ tasks'[t][Len(tasks[t]) + 1] = c
        BY <2>3, <3>1, <3>3, AppendProperties
      <4>2. worker'[c] = t /\ phase'[c] = "new"
        BY <2>3, <2>4, <3>3
      <4>3. ASSUME NEW i \in 1 .. Len(tasks'[t])
            PROVE  \/ i \in 1 .. Len(tasks[t]) /\ tasks'[t][i] = tasks[t][i]
                   \/ i = Len(tasks[t]) + 1 /\ tasks'[t][i] = c
        BY <4>1
      <4>4. \A i \in 1 .. Len(tasks'[t]) :
              worker'[tasks'[t][i]] = t /\ phase'[tasks'[t][i]] = "new"
        BY <3>1, <4>2, <4>3
      <4>5. ASSUME NEW i \in 1 .. Len(tasks'[t]), NEW j \in 1 .. Len(tasks'[t]),
                   tasks'[t][i] = tasks'[t][j]
            PROVE  i = j
        <5>1. \A k, l \in 1 .. Len(tasks[t]) : tasks[t][k] = tasks[t][l] => k = l
          BY <1>1 DEF TasksInv
        <5> QED
          BY <3>1, <4>3, <4>5, <5>1
      <4> QED
        BY <4>4, <4>5
    <3> QED
      BY <1>1, <1>2, <2>5, <3>2, <3>3 DEF ServerTypeOK
  <2> QED
    BY <2>2, <2>3, <2>7, <2>8, <2>9, <2>10 DEF ServerInv
<1> QED
  BY <1>4, <1>5

\* The acceptor closes itself and those who wait are turned away.
LEMMA ReadFailsKeepsServerInv ==
  ASSUME ServerInv, HandleReadFails
  PROVE  ServerInv'
<1> USE DEF HandleReadFails, poolVars
<1>1. /\ ServerTypeOK /\ ListenerInv /\ AcceptorInv /\ BacklogInv /\ TasksInv /\ WorkersInv
  BY DEF ServerInv
<1>2. PoolInv' /\ CloseInv' /\ WorkersOutliveTheServer'
  BY PoolUntouched
<1>3. acceptor = "ACTIVATED" /\ ~accepting /\ PoolMade
  BY <1>1 DEF ListenerInv, AcceptorInv, Readable, ServerIsFree, Reported, NewChannel
<1>4. ~(listener').registered
  <2>1. /\ listener.state = "ADDED" /\ listener.events = {"READ"}
        /\ listener \in [state : {"ADDED"}, events : {{"READ"}}, registered : {TRUE},
                         interest : {{"READ"}}, due : BOOLEAN]
    BY <1>1, <1>3 DEF ListenerInv
  <2> DEFINE off == [listener EXCEPT !.events = @ \ {"READ", "WRITE"}]
  <2>2. listener' = [notify(off) EXCEPT !.state = "DESTROYED"]
    BY <2>1 DEF destroy, disable
  <2>3. off.state = "ADDED" /\ off.events = {}
    BY <2>1
  <2>4. notify(off) = Unwatch([off EXCEPT !.state = "DELETED"])
    BY <2>3 DEF notify
  <2> HIDE DEF off
  <2>5. off \in [state : {"ADDED"}, events : {{}}, registered : {TRUE},
                 interest : {{"READ"}}, due : BOOLEAN]
    BY <2>1 DEF off
  <2> QED
    BY <2>2, <2>4, <2>5 DEF Unwatch
<1>5. \A c \in Client : phase'[c] = IF phase[c] = "queued" THEN "refused" ELSE phase[c]
  OBVIOUS
<1>6. ServerTypeOK'
  <2>1. phase' \in [Client -> Phases]
    BY <1>1 DEF ServerTypeOK, Phases
  <2>2. backlog' \in Seq(Client) /\ index' = index /\ accepting' = accepting
    BY EmptySeq
  <2> QED
    BY <1>1, <2>1, <2>2 DEF ServerTypeOK
<1>7. ListenerInv' /\ AcceptorInv' /\ BacklogIsWatched'
  BY <1>3, <1>4 DEF ListenerInv, AcceptorInv, BacklogIsWatched, PoolMade
<1>8. BacklogInv'
  BY <1>5 DEF BacklogInv
<1>9. TasksInv' /\ WorkersInv'
  <2>1. \A t \in Thread : \A i \in 1 .. Len(tasks[t]) : tasks[t][i] \in Client
    BY <1>1, ElementOfSeq DEF ServerTypeOK
  <2> QED
    BY <1>1, <1>5, <2>1 DEF TasksInv, WorkersInv
<1> QED
  BY <1>2, <1>6, <1>7, <1>8, <1>9 DEF ServerInv

\* A worker opens the connection at the head of its tasks.
LEMMA ActivateKeepsServerInv ==
  ASSUME ServerInv, NEW t \in Thread, Activate(t)
  PROVE  ServerInv'
<1> USE DEF Activate, poolVars, acceptVars, socketVars
<1>1. /\ ServerTypeOK /\ ListenerInv /\ AcceptorInv /\ BacklogInv /\ TasksInv /\ WorkersInv
      /\ BacklogIsWatched
  BY DEF ServerInv
<1>2. PoolInv' /\ CloseInv' /\ WorkersOutliveTheServer'
  BY PoolUntouched
<1>3. ListenerInv' /\ AcceptorInv' /\ BacklogIsWatched'
  BY <1>1 DEF ListenerInv, AcceptorInv, BacklogIsWatched, PoolMade, threadVars
<1> DEFINE c == Head(tasks[t])
           rest == Tail(tasks[t])
<1>4. /\ tasks[t] \in Seq(Client) /\ Len(tasks[t]) \in Nat \ {0}
      /\ c \in Client /\ c = tasks[t][1]
      /\ rest \in Seq(Client) /\ Len(rest) = Len(tasks[t]) - 1
      /\ \A i \in 1 .. Len(rest) : rest[i] = tasks[t][i + 1]
  BY <1>1, HeadTailProperties DEF ServerTypeOK
<1>5. worker[c] = t /\ phase[c] = "new"
  BY <1>1, <1>4 DEF TasksInv
<1> HIDE DEF c, rest
<1>6. \A d \in Client : phase'[d] = IF d = c THEN "open" ELSE phase[d]
  BY <1>1, <1>4 DEF ServerTypeOK, c
<1>7. \A u \in Thread : tasks'[u] = IF u = t THEN rest ELSE tasks[u]
  BY <1>1 DEF ServerTypeOK, rest
<1>8. ServerTypeOK'
  <2>1. phase' \in [Client -> Phases]
    BY <1>1, <1>4 DEF ServerTypeOK, Phases, c
  <2>2. tasks' \in [Thread -> Seq(Client)]
    BY <1>1, <1>4, <1>7 DEF ServerTypeOK
  <2> QED
    BY <1>1, <2>1, <2>2 DEF ServerTypeOK
<1>9. BacklogInv'
  <2>1. \A i \in 1 .. Len(backlog) : backlog[i] \in Client /\ backlog[i] # c
    BY <1>1, <1>5, ElementOfSeq DEF ServerTypeOK, BacklogInv
  <2> QED
    BY <1>1, <1>5, <1>6, <2>1 DEF BacklogInv
<1>10. WorkersInv'
  BY <1>1, <1>5, <1>6 DEF WorkersInv
<1>11. TasksInv'
  <2> SUFFICES ASSUME NEW u \in Thread
               PROVE
        /\ \A i \in 1 .. Len(tasks'[u]) :
             worker'[tasks'[u][i]] = u /\ phase'[tasks'[u][i]] = "new"
        /\ \A i, j \in 1 .. Len(tasks'[u]) : tasks'[u][i] = tasks'[u][j] => i = j
    BY DEF TasksInv
  <2>1. \A i \in 1 .. Len(tasks[u]) : tasks[u][i] \in Client
    BY <1>1, ElementOfSeq DEF ServerTypeOK
  <2>2. CASE u = t
    <3>1. \A i \in 1 .. Len(rest) : /\ i + 1 \in 1 .. Len(tasks[t])
                                    /\ rest[i] = tasks[t][i + 1]
                                    /\ rest[i] \in Client /\ rest[i] # c
      BY <1>1, <1>4, <2>1, <2>2 DEF TasksInv
    <3>2. \A i \in 1 .. Len(rest) : worker'[rest[i]] = t /\ phase'[rest[i]] = "new"
      BY <1>1, <1>6, <3>1 DEF TasksInv
    <3>3. tasks'[u] = rest
      BY <1>7, <2>2
    <3>4. \A i \in 1 .. Len(tasks'[u]) :
            worker'[tasks'[u][i]] = u /\ phase'[tasks'[u][i]] = "new"
      BY <2>2, <3>2, <3>3
    <3>5. ASSUME NEW i \in 1 .. Len(tasks'[u]), NEW j \in 1 .. Len(tasks'[u]),
                 tasks'[u][i] = tasks'[u][j]
          PROVE  i = j
      <4>1. i + 1 = j + 1
        BY <1>1, <3>1, <3>3, <3>5 DEF TasksInv
      <4> QED
        BY <1>4, <3>3, <4>1
    <3> QED
      BY <3>4, <3>5
  <2>3. CASE u # t
    <3>1. \A i \in 1 .. Len(tasks[u]) : tasks[u][i] # c
      BY <1>1, <1>5, <2>3 DEF TasksInv
    <3> QED
      BY <1>1, <1>6, <1>7, <2>1, <2>3, <3>1 DEF TasksInv
  <2> QED
    BY <2>2, <2>3
<1> QED
  BY <1>2, <1>3, <1>8, <1>9, <1>10, <1>11 DEF ServerInv

\* A connection that is open is lost, or one that is lost is erased.
LEMMA LeavingKeepsServerInv ==
  ASSUME ServerInv, NEW c \in Client, ForceClose(c) \/ Erase(c)
  PROVE  ServerInv'
<1> USE DEF poolVars, acceptVars, socketVars, serverVars, clientVars
<1>1. /\ ServerTypeOK /\ ListenerInv /\ AcceptorInv /\ BacklogInv /\ TasksInv /\ WorkersInv
      /\ BacklogIsWatched
  BY DEF ServerInv
<1>2. CASE UNCHANGED poolVars
  <2>1. PoolInv' /\ CloseInv' /\ WorkersOutliveTheServer'
    BY <1>2, PoolUntouched
  <2>2. /\ phase[c] \in {"open", "lost"}
        /\ \/ phase' = [phase EXCEPT ![c] = "lost"] /\ UNCHANGED worker
           \/ phase' = [phase EXCEPT ![c] = "gone"] /\ worker' = [worker EXCEPT ![c] = 0]
           \/ UNCHANGED <<phase, worker>>
        /\ UNCHANGED <<acceptVars, socketVars, tasks>>
    BY <1>2 DEF ForceClose, Erase, Fail, Break
  <2>3. /\ phase' \in [Client -> Phases] /\ worker' \in [Client -> Thread]
        /\ \A d \in Client \ {c} : phase'[d] = phase[d] /\ worker'[d] = worker[d]
        /\ phase'[c] \in {"open", "lost", "gone"}
        /\ phase'[c] # "gone" => worker'[c] = worker[c]
    <3>1. 0 \in Thread /\ phase \in [Client -> Phases] /\ worker \in [Client -> Thread]
      BY <1>1, SizeAssumption DEF ServerTypeOK, Thread
    <3>2. CASE phase' = [phase EXCEPT ![c] = "lost"] /\ UNCHANGED worker
      BY <3>1, <3>2 DEF Phases
    <3>3. CASE phase' = [phase EXCEPT ![c] = "gone"] /\ worker' = [worker EXCEPT ![c] = 0]
      BY <3>1, <3>3 DEF Phases
    <3>4. CASE UNCHANGED <<phase, worker>>
      BY <2>2, <3>1, <3>4
    <3> QED
      BY <2>2, <3>2, <3>3, <3>4
  <2>4. ServerTypeOK' /\ WorkersInv'
    BY <1>1, <2>2, <2>3 DEF ServerTypeOK, WorkersInv
  <2>5. ListenerInv' /\ AcceptorInv' /\ BacklogIsWatched'
    BY <1>1, <1>2, <2>2 DEF ListenerInv, AcceptorInv, BacklogIsWatched, PoolMade, threadVars
  <2>6. BacklogInv'
    <3>1. \A i \in 1 .. Len(backlog) : backlog[i] \in Client /\ backlog[i] # c
      BY <1>1, <2>2, ElementOfSeq DEF ServerTypeOK, BacklogInv
    <3> QED
      BY <1>1, <2>2, <2>3, <3>1 DEF BacklogInv
  <2>7. TasksInv'
    <3>1. \A t \in Thread : \A i \in 1 .. Len(tasks[t]) : tasks[t][i] \in Client \ {c}
      BY <1>1, <2>2, ElementOfSeq DEF ServerTypeOK, TasksInv
    <3> QED
      BY <1>1, <2>2, <2>3, <3>1 DEF TasksInv
  <2> QED
    BY <2>1, <2>4, <2>5, <2>6, <2>7 DEF ServerInv
<1>3. CASE /\ ForceClose(c)
            /\ \E how \in {"worker", "server"} :
                 Fail(how) /\ (how = "worker" => place[worker[c]] = "over")
  <2>1. PICK how \in {"worker", "server"} :
          Break(how) /\ UNCHANGED serverVars /\ (how = "worker" => foreign \ {0} # {})
    <3>1. worker[c] \in Thread \ {0}
      BY <1>1, <1>3 DEF ForceClose, WorkersInv
    <3>2. place[worker[c]] = "over" => foreign \ {0} # {}
      BY <1>3, <3>1, EndedWorkerIsForeign DEF ForceClose, ServerIsFree
    <3> QED
      BY <1>3, <3>2 DEF Fail
  <2>2. PoolInv' /\ CloseInv' /\ WorkersOutliveTheServer'
    BY <2>1, FailKeepsPart
  <2>3. ServerTypeOK' /\ WorkersInv' /\ BacklogInv' /\ TasksInv'
    <3>1. UNCHANGED serverVars
      BY <2>1
    <3>2. ServerTypeOK' /\ WorkersInv'
      BY <1>1, <3>1 DEF ServerTypeOK, WorkersInv
    <3>3. BacklogInv'
      BY <1>1, <3>1 DEF BacklogInv
    <3>4. TasksInv'
      BY <1>1, <3>1 DEF TasksInv
    <3> QED
      BY <3>2, <3>3, <3>4
  <2>4. ListenerInv' /\ AcceptorInv' /\ BacklogIsWatched'
    BY <1>1, <2>1 DEF ListenerInv, AcceptorInv, BacklogIsWatched, PoolMade, Break, threadVars
  <2> QED
    BY <2>2, <2>3, <2>4 DEF ServerInv
<1> QED
  BY <1>2, <1>3 DEF ForceClose, Erase

-----------------------------------------------------------------------------
LEMMA InitServerInv == Init => ServerInv
<1> SUFFICES ASSUME Init PROVE ServerInv
  OBVIOUS
<1>1. PoolInv
  BY InitPoolInv DEF Init
<1>2. owner.op = "make" /\ foreign = {} /\ broken = "none" /\ \A t \in Thread : ~closing[t]
  BY DEF Init, PoolInit
<1>3. ServerTypeOK
  <2>1. 0 \in 0 .. Size - 2 /\ 0 \in Thread
    BY SizeAssumption, ServerAssumption DEF Thread
  <2>2. << >> \in Seq(Client)
    BY EmptySeq
  <2> QED
    BY <2>1, <2>2 DEF Init, ServerTypeOK, Phases
<1>4. /\ ListenerInv /\ AcceptorInv /\ BacklogInv /\ TasksInv /\ WorkersInv
      /\ BacklogIsWatched
  BY DEF Init, ListenerInv, AcceptorInv, BacklogInv, TasksInv, WorkersInv, BacklogIsWatched
<1>5. CloseInv /\ WorkersOutliveTheServer
  BY <1>2 DEF CloseInv, WorkersOutliveTheServer
<1> QED
  BY <1>1, <1>3, <1>4, <1>5 DEF ServerInv

LEMMA NextKeepsServerInv ==
  ASSUME ServerInv, Next
  PROVE  ServerInv'
BY PoolKeepsServerInv, AcceptorKeepsServerInv, ConnectKeepsServerInv, AbortKeepsServerInv,
   AcceptKeepsServerInv, ReadFailsKeepsServerInv, ActivateKeepsServerInv,
   LeavingKeepsServerInv DEF Next, Acceptor

LEMMA StutterKeepsServerInv ==
  ASSUME ServerInv, UNCHANGED vars
  PROVE  ServerInv'
<1> USE DEF vars, poolVars, serverVars, acceptVars, socketVars, clientVars
<1>1. PoolInv' /\ CloseInv' /\ WorkersOutliveTheServer'
  BY PoolUntouched
<1>2. ServerTypeOK' /\ WorkersInv' /\ BacklogInv' /\ TasksInv'
  BY DEF ServerInv, ServerTypeOK, WorkersInv, BacklogInv, TasksInv
<1>3. ListenerInv' /\ AcceptorInv' /\ BacklogIsWatched'
  BY DEF ServerInv, ListenerInv, AcceptorInv, BacklogIsWatched, PoolMade, threadVars
<1> QED
  BY <1>1, <1>2, <1>3 DEF ServerInv

\* Acceptor, pool, workers and the owner together keep the invariant.
THEOREM ServerInvariant == Spec => []ServerInv
<1>1. ServerInv /\ [Next]_vars => ServerInv'
  BY NextKeepsServerInv, StutterKeepsServerInv
<1> QED
  BY InitServerInv, <1>1, PTL DEF Spec

\* Every variable of the server (net/Server.h) and its pool keeps its type; in
\* particular the tasks of a worker are its own new connections.
THEOREM ServerTypeCorrect == Spec => []TypeOK
<1>1. ServerInv => TypeOK
  <2> SUFFICES ASSUME ServerInv PROVE TypeOK
    OBVIOUS
  <2>1. PoolTypeOK /\ ServerTypeOK /\ ListenerInv /\ BacklogInv /\ TasksInv /\ WorkersInv
    BY DEF ServerInv, PoolInv
  <2>2. listener.registered <=> acceptor = "ACTIVATED"
    <3>1. ~NewChannel.registered
      BY DEF NewChannel
    <3>2. CASE acceptor \in {"none", "handed"}
      BY <2>1, <3>1, <3>2 DEF ListenerInv
    <3>3. CASE acceptor = "ACTIVATED"
      BY <2>1, <3>3 DEF ListenerInv
    <3>4. CASE acceptor = "DISCONNECTED"
      BY <2>1, <3>4 DEF ListenerInv
    <3> QED
      BY <2>1, <3>2, <3>3, <3>4 DEF ServerTypeOK
  <2>3. \A i \in 1 .. Len(backlog) : backlog[i] \in Client /\ phase[backlog[i]] = "queued"
    BY <2>1, ElementOfSeq DEF ServerTypeOK, BacklogInv
  <2>4. \A c \in Client :
          /\ phase[c] = "queued" <=> \E i \in 1 .. Len(backlog) : backlog[i] = c
          /\ c \in Connections => worker[c] \in Thread \ {0}
    BY <2>1, <2>3 DEF BacklogInv, WorkersInv, Connections
  <2> QED
    BY <2>1, <2>2, <2>4 DEF ServerTypeOK, TasksInv, TypeOK
<1> QED
  BY ServerInvariant, <1>1, PTL

\* Under the server too the owner of the pool waits for every thread, goes through no
\* dead loop and waits for none that was not told to end.
THEOREM ServerKeepsPool ==
  Spec => [](DoneThreadsHaveStopped /\ PoolIsSafeUnlessOvertaken /\ NoEndlessJoin)
<1>1. ServerInv =>
        DoneThreadsHaveStopped /\ PoolIsSafeUnlessOvertaken /\ NoEndlessJoin
  BY InvImpliesNoEndlessJoin DEF ServerInv, PoolInv
<1> QED
  BY ServerInvariant, <1>1, PTL

\* The accept loop of handle_onread (net/Server.h) leaves no client behind on an
\* edge-triggered socket, unless accept4 fails with clients waiting.
THEOREM NoClientIsOverlooked == Spec => []BacklogIsWatched
<1>1. ServerInv => BacklogIsWatched
  BY DEF ServerInv
<1> QED
  BY ServerInvariant, <1>1, PTL

\* close of ThreadingEventLoop ends the acceptor's loop before the workers', so the
\* server never uses a worker's loop that the owner has closed.
THEOREM WorkersEndLast == Spec => []WorkersOutliveTheServer
<1>1. ServerInv => WorkersOutliveTheServer
  BY DEF ServerInv
<1> QED
  BY ServerInvariant, <1>1, PTL

-----------------------------------------------------------------------------
\* The ways in which a step may take a connection from one phase to another.
Waits == {"out", "queued", "refused"}

Moves(c) ==
  \/ phase'[c] = phase[c]
  \/ phase[c] \in Waits /\ phase'[c] \in Waits \union {"new"}
  \/ phase[c] = "new" /\ phase'[c] = "open"
  \/ phase[c] = "open" /\ phase'[c] = "lost"
  \/ phase[c] = "lost" /\ phase'[c] = "gone"

LEMMA NextMoves ==
  ASSUME ServerInv, Next, NEW c \in Client
  PROVE  Moves(c)
<1> USE DEF Moves, Waits
<1>1. ServerTypeOK /\ BacklogInv /\ TasksInv /\ phase \in [Client -> Phases]
  BY DEF ServerInv, ServerTypeOK
<1>2. CASE UNCHANGED phase
  BY <1>2
<1>3. CASE AcceptAborts \/ Accept
  <2>1. /\ Head(backlog) \in Client /\ phase[Head(backlog)] = "queued"
        /\ \/ UNCHANGED phase
           \/ \E p \in {"refused", "new"} : phase' = [phase EXCEPT ![Head(backlog)] = p]
    BY <1>1, <1>3, BacklogTail DEF AcceptAborts, Accept, AcceptNext, Give, clientVars
  <2> QED
    BY <1>1, <2>1
<1>4. CASE HandleReadFails
  BY <1>1, <1>4 DEF HandleReadFails
<1>5. CASE \E t \in Thread : Activate(t)
  <2>1. PICK t \in Thread : Activate(t)
    BY <1>5
  <2>2. phase[Head(tasks[t])] = "new"
    BY <1>1, <2>1, HeadTailProperties DEF Activate, ServerTypeOK, TasksInv
  <2> QED
    BY <1>1, <2>1, <2>2 DEF Activate
<1>6. CASE \E d \in Client : Connect(d)
  BY <1>1, <1>6 DEF Connect
<1>7. CASE \E d \in Client : ForceClose(d) \/ Erase(d)
  BY <1>1, <1>7 DEF ForceClose, Erase, Fail, serverVars, clientVars
<1>8. CASE Pool(PoolStep) \/ ActivateServer \/ ListenerFails \/ ServerStates
           \/ ActivateAcceptor \/ HandleRead \/ AcceptEnds \/ AcceptFails
  BY <1>8, <1>2 DEF Pool, ActivateServer, ListenerFails, ServerStates, ActivateAcceptor,
     HandleRead, AcceptEnds, AcceptFails, serverVars, clientVars
<1> QED
  BY <1>2, <1>3, <1>4, <1>5, <1>6, <1>7, <1>8 DEF Next, Acceptor

\* Whatever acceptor, pool and workers do, each connection of handle_onread goes
\* through the phases of Session, each once and in order.
THEOREM ServerKeepsSessions == Spec => SessionsAreKept
<1>1. ASSUME ServerInv, [Next]_vars
      PROVE  [\A c \in Client : [SessionOf(c)!SessionNext]_(SessionPhase(c))]_phase
  <2>1. CASE UNCHANGED vars
    BY <2>1 DEF vars, serverVars, clientVars
  <2>2. CASE Next
    <3> SUFFICES ASSUME NEW c \in Client
                 PROVE  [SessionOf(c)!SessionNext]_(SessionPhase(c))
      OBVIOUS
    <3> QED
      BY <1>1, <2>2, NextMoves
         DEF Moves, Waits, SessionPhase, SessionOf!SessionNext, SessionOf!Open,
             SessionOf!Lose, SessionOf!Free
  <2> QED
    BY <1>1, <2>1, <2>2
<1> QED
  BY ServerInvariant, <1>1, PTL DEF Spec, SessionsAreKept
=============================================================================
