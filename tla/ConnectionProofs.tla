-------------------------- MODULE ConnectionProofs --------------------------
(***************************************************************************)
(* Proofs about Connection, for any number of messages and packets.  The   *)
(* invariant has a part that holds under any use, and parts that the flags *)
(* make possible: each theorem names the flags that it needs to be off.    *)
(***************************************************************************)
EXTENDS Connection, TLAPS, SequenceTheorems

States == {"INITIAL", "ACTIVATED", "DISCONNECTING", "DISCONNECTED"}

Chan ==
  [state : {"NEW", "ADDED", "DELETED", "DESTROYED"}, events : SUBSET {"READ", "WRITE"},
   registered : BOOLEAN, interest : SUBSET {"READ", "WRITE"}, due : BOOLEAN]

Sock ==
  [data : BOOLEAN, eof : {"no", "fin", "shut"}, rst : BOOLEAN, err : BOOLEAN,
   room : BOOLEAN, down : BOOLEAN]

\* What a channel and the epoll instance know of each other.
Matches(c) ==
  /\ c \in Chan
  /\ c.state = "ADDED" => c.registered /\ c.interest = c.events
  /\ c.state \in {"NEW", "DELETED"} => ~c.registered /\ c.events = {}
  /\ c.due => c.registered

\* The activation is still a task of the worker, and then the first one.
Activating == wtasks # << >> /\ wtasks[1] = "activate"

Typed ==
  /\ state \in States
  /\ Matches(channel)
  /\ sock \in Sock
  /\ unsent \in Nat /\ owed \in Nat /\ owed <= unsent
  /\ pc \in [{"worker", "server"} -> Places]
  /\ after \in {"none", "made", "data", "eof", "wrote"}
  /\ pc["worker"] = "callback" => after # "none"
  /\ todo \subseteq Handlers
  /\ resets \in Nat /\ (resets > 0 => Timeouts)
  /\ entry \in {"none", "new", "due"}
  /\ mapped \in BOOLEAN /\ forced \in BOOLEAN
  /\ erasers \in Nat /\ ripe \in Nat /\ ripe <= erasers
  /\ lost \in Nat
  /\ calls \in [send : 0 .. MaxSend, data : 0 .. MaxData]

\* Each message is in a task or in wbuffer, or gone.
Counted ==
  /\ wtasks \in Seq({"activate", "send"})
  /\ \A i \in 2 .. Len(wtasks) : wtasks[i] = "send"
  /\ unsent + Len(wtasks) <= calls.send + (IF Activating THEN 1 ELSE 0)

\* The interest in writing is on while there is something to write.
Watched ==
  /\ channel.state # "DESTROYED" => ("WRITE" \in channel.events <=> unsent > 0)
  /\ sock.down => channel.state = "DESTROYED"
  /\ UnsentIsWatched

Basic == Typed /\ Counted /\ Watched

Made == ~Activating /\ after # "made"

\* Nothing happens to a connection before it is activated, if the application does
\* not close it in connection_made_cb.
Opened ==
  /\ Activating => channel.state = "NEW" /\ pc["worker"] = "idle"
  /\ after = "made" => pc["worker"] = "callback"
  /\ entry = "due" \/ pc["server"] # "idle" => Made

\* On the way to DISCONNECTED that nothing but a close has taken, all is written that
\* was in wbuffer when close began: there was nothing, or the last handle_onwrite has
\* written it.
Flushed ==
  /\ pc["server"] # "idle" => forced
  /\ after = "wrote" => owed = 0
  /\ ~forced =>
       /\ channel.state = "DESTROYED" => state = "DISCONNECTED"
       /\ after = "made" => channel.state # "DESTROYED"
       /\ pc["worker"] \in {"test", "set"} => owed = 0
       /\ pc["worker"] = "half" => state # "DISCONNECTED"
       /\ pc["worker"] = "destroy" => state = "DISCONNECTED"

\* The channel of an active connection watches for the peer's end until it is destroyed;
\* then it is out of the epoll instance, and no event is due two seconds after the loss.
Unreachable ==
  /\ Made /\ channel.state # "DESTROYED" =>
       channel.state = "ADDED" /\ "READ" \in channel.events
  /\ channel.state = "DESTROYED" => ~channel.registered /\ Made
  /\ lost > 0 \/ "lose" \in {pc["worker"], pc["server"]} => channel.state = "DESTROYED"
  /\ erasers > 0 => lost > 0
  /\ ripe > 0 \/ ~mapped => lost > 0 /\ pc["worker"] = "idle" /\ wtasks = << >>

\* The server's thread never force_closes, and one thread closes once: the loss follows
\* the assignment of DISCONNECTED, and erasure the loss.
Once ==
  /\ entry = "none" /\ pc["server"] = "idle"
  /\ state = "INITIAL" <=> ~Made
  /\ pc["worker"] = "half" => state = "ACTIVATED"
  /\ pc["worker"] = "set" => state \in {"ACTIVATED", "DISCONNECTING"}
  /\ pc["worker"] \in {"destroy", "lose"} => state = "DISCONNECTED" /\ lost = 0
  /\ lost > 0 => state = "DISCONNECTED" /\ lost = 1
  /\ state = "DISCONNECTED" => lost = 1 \/ pc["worker"] \in {"destroy", "lose"}
  /\ erasers > 0 \/ ~mapped => lost > 0
-----------------------------------------------------------------------------
\* What the operations of a channel do to it.
Bits == {"READ", "WRITE"}

\* EPOLL_CTL_ADD and EPOLL_CTL_MOD, EPOLL_CTL_DEL.
LEMMA WatchEffect ==
  ASSUME NEW c \in Chan, c.state = "ADDED"
  PROVE  /\ Matches(Watch(c))
         /\ Watch(c).state = "ADDED" /\ Watch(c).events = c.events /\ Watch(c).due
BY DEF Watch, Matches, Chan

LEMMA UnwatchEffect ==
  ASSUME NEW c \in Chan, c.state = "DELETED", c.events = {}
  PROVE  /\ Matches(Unwatch(c))
         /\ Unwatch(c).state = "DELETED" /\ Unwatch(c).events = {} /\ ~Unwatch(c).registered
BY DEF Unwatch, Matches, Chan

\* notify tells epoll of the events, but for a channel that is destroyed.
LEMMA NotifyEffect ==
  ASSUME NEW c \in Chan
  PROVE  /\ c.state = "DESTROYED" => notify(c) = c
         /\ c.state # "DESTROYED" => /\ Matches(notify(c))
                                     /\ notify(c).state \in {"ADDED", "DELETED"}
                                     /\ notify(c).events = c.events
         /\ c.state # "DESTROYED" /\ c.events # {} =>
              notify(c).state = "ADDED" /\ notify(c).due
         /\ c.state = "ADDED" /\ c.events = {} => ~notify(c).registered
<1>1. CASE c.state = "DESTROYED"
  BY <1>1 DEF notify
<1>2. CASE c.state \in {"NEW", "DELETED"}
  <2>1. notify(c) = Watch([c EXCEPT !.state = "ADDED"])
    BY <1>2 DEF notify
  <2>2. /\ [c EXCEPT !.state = "ADDED"] \in Chan
        /\ [c EXCEPT !.state = "ADDED"].state = "ADDED"
        /\ [c EXCEPT !.state = "ADDED"].events = c.events
    BY DEF Chan
  <2> QED
    BY <1>2, <2>1, <2>2, WatchEffect
<1>3. CASE c.state = "ADDED" /\ c.events # {}
  <2>1. notify(c) = Watch(c)
    BY <1>3 DEF notify
  <2> QED
    BY <1>3, <2>1, WatchEffect
<1>4. CASE c.state = "ADDED" /\ c.events = {}
  <2>1. notify(c) = Unwatch([c EXCEPT !.state = "DELETED"])
    BY <1>4 DEF notify
  <2>2. /\ [c EXCEPT !.state = "DELETED"] \in Chan
        /\ [c EXCEPT !.state = "DELETED"].state = "DELETED"
        /\ [c EXCEPT !.state = "DELETED"].events = {}
    BY <1>4 DEF Chan
  <2> QED
    BY <1>4, <2>1, <2>2, UnwatchEffect
<1> QED
  BY <1>1, <1>2, <1>3, <1>4 DEF Chan

\* enable and disable change the events and notify.
LEMMA EnableEffect ==
  ASSUME NEW c, Matches(c), NEW evs \in SUBSET Bits, evs # {}
  PROVE  /\ Matches(enable(c, evs))
         /\ enable(c, evs).events = c.events \union evs
         /\ IF c.state = "DESTROYED"
            THEN /\ enable(c, evs).state = "DESTROYED"
                 /\ enable(c, evs).registered = c.registered
            ELSE enable(c, evs).state = "ADDED" /\ enable(c, evs).due
<1> DEFINE d == [c EXCEPT !.events = c.events \union evs]
<1>1. /\ d \in Chan /\ d.state = c.state /\ d.events = c.events \union evs /\ d.events # {}
      /\ d.registered = c.registered /\ d.due = c.due
  BY DEF Matches, Chan, Bits
<1>2. enable(c, evs) = notify(d)
  BY DEF enable
<1> HIDE DEF d
<1>3. CASE c.state = "DESTROYED"
  BY <1>1, <1>2, <1>3, NotifyEffect DEF Matches
<1>4. CASE c.state # "DESTROYED"
  BY <1>1, <1>2, <1>4, NotifyEffect
<1> QED
  BY <1>3, <1>4

LEMMA DisableEffect ==
  ASSUME NEW c, Matches(c), NEW evs \in SUBSET Bits
  PROVE  /\ Matches(disable(c, evs))
         /\ disable(c, evs).events = c.events \ evs
         /\ c.state = "DESTROYED" =>
              /\ disable(c, evs).state = "DESTROYED"
              /\ disable(c, evs).registered = c.registered
         /\ c.state # "DESTROYED" =>
              disable(c, evs).state # "DESTROYED"
         /\ c.state # "DESTROYED" /\ c.events \ evs # {} =>
              disable(c, evs).state = "ADDED" /\ disable(c, evs).due
         /\ c.state = "ADDED" /\ c.events \ evs = {} => ~disable(c, evs).registered
<1> DEFINE d == [c EXCEPT !.events = c.events \ evs]
<1>1. /\ d \in Chan /\ d.state = c.state /\ d.events = c.events \ evs
      /\ d.registered = c.registered /\ d.due = c.due
  BY DEF Matches, Chan, Bits
<1>2. disable(c, evs) = notify(d)
  BY DEF disable
<1> HIDE DEF d
<1>3. CASE c.state = "DESTROYED"
  BY <1>1, <1>2, <1>3, NotifyEffect DEF Matches
<1>4. CASE c.state # "DESTROYED"
  BY <1>1, <1>2, <1>4, NotifyEffect
<1> QED
  BY <1>3, <1>4

\* The same of the operations that do nothing when there is nothing to do: a channel
\* that is not destroyed and has an event is ADDED.
LEMMA ResumeEffect ==
  ASSUME NEW c, Matches(c), NEW ev \in Bits,
         NEW d, d = IF ev \in c.events THEN c ELSE enable(c, {ev})
  PROVE  /\ Matches(d) /\ d.events = c.events \union {ev}
         /\ IF c.state = "DESTROYED"
            THEN d.state = "DESTROYED" /\ d.registered = c.registered
            ELSE d.state = "ADDED" /\ (d = c \/ d.due)
<1>1. CASE ev \in c.events
  BY <1>1 DEF Matches, Chan
<1>2. CASE ev \notin c.events
  BY <1>2, EnableEffect DEF Bits
<1> QED
  BY <1>1, <1>2

LEMMA PauseEffect ==
  ASSUME NEW c, Matches(c), NEW ev \in Bits,
         NEW d, d = IF ev \in c.events THEN disable(c, {ev}) ELSE c
  PROVE  /\ Matches(d) /\ d.events = c.events \ {ev}
         /\ IF c.state = "DESTROYED"
            THEN d.state = "DESTROYED" /\ d.registered = c.registered
            ELSE d.state # "DESTROYED"
         /\ c.state # "DESTROYED" /\ c.events \ {ev} # {} =>
              d.state = "ADDED" /\ (d = c \/ d.due)
<1>1. CASE ev \in c.events
  BY <1>1, DisableEffect DEF Bits
<1>2. CASE ev \notin c.events
  BY <1>2 DEF Matches, Chan
<1> QED
  BY <1>1, <1>2

\* What the connection calls to read and to write.
LEMMA ReadingEffect ==
  ASSUME NEW c, Matches(c)
  PROVE  /\ Matches(resume_reading(c)) /\ Matches(pause_reading(c))
         /\ resume_reading(c).events = c.events \union {"READ"}
         /\ pause_reading(c).events = c.events \ {"READ"}
         /\ IF c.state = "DESTROYED"
            THEN /\ resume_reading(c).state = "DESTROYED"
                 /\ pause_reading(c).state = "DESTROYED"
                 /\ resume_reading(c).registered = c.registered
            ELSE /\ resume_reading(c).state = "ADDED"
                 /\ pause_reading(c).state # "DESTROYED"
                 /\ resume_reading(c) = c \/ resume_reading(c).due
                 /\ "WRITE" \in c.events =>
                      /\ pause_reading(c).state = "ADDED"
                      /\ pause_reading(c) = c \/ pause_reading(c).due
BY ResumeEffect, PauseEffect DEF resume_reading, pause_reading, is_reading, Bits

LEMMA WritingEffect ==
  ASSUME NEW c, Matches(c)
  PROVE  /\ Matches(resume_writing(c)) /\ Matches(pause_writing(c))
         /\ resume_writing(c).events = c.events \union {"WRITE"}
         /\ pause_writing(c).events = c.events \ {"WRITE"}
         /\ IF c.state = "DESTROYED"
            THEN /\ resume_writing(c).state = "DESTROYED"
                 /\ pause_writing(c).state = "DESTROYED"
                 /\ resume_writing(c).registered = c.registered
                 /\ pause_writing(c).registered = c.registered
            ELSE /\ resume_writing(c).state = "ADDED"
                 /\ pause_writing(c).state # "DESTROYED"
                 /\ resume_writing(c) = c \/ resume_writing(c).due
                 /\ "READ" \in c.events => pause_writing(c).state = "ADDED"
BY ResumeEffect, PauseEffect DEF resume_writing, pause_writing, is_writing, Bits

\* A channel that was ADDED is out of the epoll instance when it is destroyed.
LEMMA DestroyEffect ==
  ASSUME NEW c, Matches(c)
  PROVE  /\ Matches(destroy(c)) /\ destroy(c).state = "DESTROYED"
         /\ c.state = "DESTROYED" => destroy(c) = c
         /\ c.state = "ADDED" => ~destroy(c).registered
<1>1. CASE c.state = "DESTROYED"
  BY <1>1 DEF destroy
<1>2. CASE c.state # "DESTROYED"
  <2> DEFINE d == disable(c, {"READ", "WRITE"})
  <2>1. c.events \ {"READ", "WRITE"} = {}
    BY DEF Matches, Chan
  <2>2. Matches(d) /\ (c.state = "ADDED" => ~d.registered)
    BY <2>1, DisableEffect DEF Bits
  <2>3. destroy(c) = [d EXCEPT !.state = "DESTROYED"]
    BY <1>2 DEF destroy
  <2> HIDE DEF d
  <2> QED
    BY <1>2, <2>2, <2>3 DEF Matches, Chan
<1> QED
  BY <1>1, <1>2

\* What happens to the descriptor changes nothing but the ready list.
LEMMA SignalEffect ==
  ASSUME NEW c, Matches(c)
  PROVE  /\ Matches(Signal(c)) /\ Signal(c).due = c.registered
         /\ Signal(c).state = c.state /\ Signal(c).events = c.events
         /\ Signal(c).registered = c.registered /\ Signal(c).interest = c.interest
BY DEF Signal, Matches, Chan
-----------------------------------------------------------------------------
\* Every step keeps each part of the invariant.
LEMMA TypedKept ==
  ASSUME Basic, Next
  PROVE  Typed'
<1>1. Typed
  BY DEF Basic
<1> USE <1>1, BoundsAssumption
    DEF Typed, States, Sock, Places, At, Go, object, server, past, rest
<1>2. CASE SendFromThread
  BY <1>2, SMTT(30) DEF SendFromThread
<1>3. CASE RunSend
  BY <1>3, WritingEffect DEF RunSend, SendInLoop, ResetTimeout
<1>4. CASE RunActivate
  BY <1>4 DEF RunActivate
<1>5. CASE Report
  <2>1. todo' \subseteq Handlers
    BY <1>5 DEF Report
  <2>2. Matches(channel')
    BY <1>5 DEF Report, Matches, Chan
  <2> QED
    BY <1>5, <2>1, <2>2 DEF Report
<1>6. CASE HandleEvents
  BY <1>6 DEF HandleEvents
<1>7. CASE EventsDone
  BY <1>7 DEF EventsDone
<1>8. CASE HandleClose
  BY <1>8 DEF HandleClose, NextCall
<1>9. CASE HandleError
  BY <1>9 DEF HandleError, NextCall
<1>10. CASE HandleRead
  <2>1. (sock.err /\ sock.eof = "fin") \in BOOLEAN
    OBVIOUS
  <2>2. \A e \in BOOLEAN : [sock EXCEPT !.data = FALSE, !.err = e] \in Sock
    OBVIOUS
  <2>3. sock' \in Sock
    BY <1>10, <2>1, <2>2 DEF HandleRead
  <2>4. resets' \in Nat /\ (resets' > 0 => Timeouts)
    BY <1>10 DEF HandleRead, ResetTimeout
  <2>5. after' \in {"data", "eof"} /\ todo' \subseteq Handlers
    BY <1>10 DEF HandleRead, NextCall
  <2>6. pc' \in [{"worker", "server"} -> Places]
    BY <1>10 DEF HandleRead
  <2> HIDE DEF Sock
  <2> QED
    BY <1>10, <2>3, <2>4, <2>5, <2>6 DEF HandleRead
<1>11. CASE HandleWriteAll
  BY <1>11, WritingEffect DEF HandleWriteAll, NextCall
<1>12. CASE HandleWriteSome
  <2>1. PICK n \in 1 .. unsent - 1 :
          unsent' = unsent - n /\ owed' = IF owed > n THEN owed - n ELSE 0
    BY <1>12 DEF HandleWriteSome
  <2>2. unsent' \in Nat /\ owed' \in Nat /\ owed' <= unsent'
    BY <2>1
  <2>3. sock' \in Sock /\ todo' \subseteq Handlers
    BY <1>12 DEF HandleWriteSome, NextCall
  <2> QED
    BY <1>12, <2>2, <2>3 DEF HandleWriteSome
<1>13. CASE HandleWriteFails
  <2>1. sock' \in Sock /\ todo' \subseteq Handlers
    BY <1>13 DEF HandleWriteFails, NextCall
  <2>2. /\ pc' \in [{"worker", "server"} -> Places]
        /\ pc'["worker"] # "callback"
    BY <1>13 DEF HandleWriteFails
  <2> HIDE DEF Sock
  <2> QED
    BY <1>13, <2>1, <2>2 DEF HandleWriteFails
<1>14. CASE OnError
  <2>1. sock' \in Sock
    BY <1>14 DEF OnError
  <2>2. forced' \in BOOLEAN
    BY <1>14, <2>1 DEF OnError
  <2>3. pc' \in [{"worker", "server"} -> Places]
    BY <1>14 DEF OnError
  <2>4. pc'["worker"] # "callback"
    BY <1>14 DEF OnError
  <2> QED
    BY <1>14, <2>1, <2>2, <2>3, <2>4 DEF OnError
<1>15. CASE AppSend
  BY <1>15, WritingEffect DEF AppSend, SendInLoop, ResetTimeout
<1>16. CASE AppClose
  BY <1>16 DEF AppClose
<1>17. CASE AppPauses
  BY <1>17, ReadingEffect DEF AppPauses
<1>18. CASE ReturnFromMade
  BY <1>18, ReadingEffect DEF ReturnFromMade
<1>19. CASE ReturnFromEvent
  BY <1>19 DEF ReturnFromEvent
<1>20. CASE CloseTests
  BY <1>20 DEF CloseTests, Resume
<1>21. CASE CloseHalf
  BY <1>21, SignalEffect DEF CloseHalf, Resume
<1>22. CASE \E x \in {"worker", "server"} : ForceTests(x)
  BY <1>22 DEF ForceTests, Resume
<1>23. CASE \E x \in {"worker", "server"} : ForceSets(x)
  BY <1>23 DEF ForceSets
<1>24. CASE \E x \in {"worker", "server"} : ForceDestroys(x)
  <2>1. Matches(channel')
    BY <1>24, DestroyEffect, SignalEffect DEF ForceDestroys
  <2>2. sock' \in Sock
    <3>1. sock \in Sock /\ sock' = [sock EXCEPT !.down = TRUE]
      BY <1>24 DEF ForceDestroys
    <3> QED
      BY <3>1
  <2>3. pc' \in [{"worker", "server"} -> Places]
    BY <1>24 DEF ForceDestroys
  <2>4. pc'["worker"] # "callback" \/ pc'["worker"] = pc["worker"]
    BY <1>24 DEF ForceDestroys
  <2> QED
    BY <1>24, <2>1, <2>2, <2>3, <2>4 DEF ForceDestroys
<1>25. CASE \E x \in {"worker", "server"} : ForceLoses(x)
  BY <1>25 DEF ForceLoses, Resume
<1>26. CASE ResetTask
  BY <1>26 DEF ResetTask
<1>27. CASE ComeDue
  BY <1>27 DEF ComeDue
<1>28. CASE Expire
  BY <1>28 DEF Expire
<1>29. CASE Elapse
  BY <1>29 DEF Elapse
<1>30. CASE Erase
  <2>1. erasers' \in Nat /\ ripe' \in Nat /\ ripe' <= erasers'
    BY <1>30 DEF Erase
  <2>2. mapped' \in BOOLEAN
    BY <1>30 DEF Erase
  <2>3. UNCHANGED <<object, sock, pc, resets, entry, past>>
    BY <1>30 DEF Erase
  <2> QED
    BY <2>1, <2>2, <2>3
<1>31. CASE PeerSends
  <2>1. calls' \in [send : 0 .. MaxSend, data : 0 .. MaxData]
    BY <1>31 DEF PeerSends
  <2>2. Matches(channel') /\ sock' \in Sock
    BY <1>31, SignalEffect DEF PeerSends, Happens
  <2> QED
    BY <1>31, <2>1, <2>2 DEF PeerSends, Happens
<1>32. CASE PeerShutsDown
  BY <1>32, SignalEffect DEF PeerShutsDown, Happens
<1>33. CASE PeerReads
  BY <1>33, SignalEffect, Zenon DEF PeerReads, Happens
<1>34. CASE PeerResets
  BY <1>34, SignalEffect, Zenon DEF PeerResets, Happens
<1> QED
  BY <1>2, <1>3, <1>4, <1>5, <1>6, <1>7, <1>8, <1>9, <1>10, <1>11, <1>12, <1>13,
     <1>14, <1>15, <1>16, <1>17, <1>18, <1>19, <1>20, <1>21, <1>22, <1>23, <1>24,
     <1>25, <1>26, <1>27, <1>28, <1>29, <1>30, <1>31, <1>32, <1>33, <1>34 DEF Next,
     Worker, Handler, Return, ForceClose, Application, Server, Peer

\* Only calls of send put messages into tasks and wbuffer.
LEMMA CountedKept ==
  ASSUME Basic, Next
  PROVE  Counted'
<1>1. /\ Counted /\ unsent \in Nat /\ calls \in [send : 0 .. MaxSend, data : 0 .. MaxData]
  BY DEF Basic, Typed
<1> USE <1>1, BoundsAssumption DEF Counted, Activating, At, Go, object, server, past, rest
<1>2. CASE SendFromThread
  <2>1. /\ wtasks' \in Seq({"activate", "send"}) /\ Len(wtasks') = Len(wtasks) + 1
        /\ Len(wtasks) \in Nat
        /\ \A i \in 1 .. Len(wtasks) : wtasks'[i] = wtasks[i]
        /\ wtasks'[Len(wtasks) + 1] = "send"
    BY <1>2, AppendProperties DEF SendFromThread
  <2>2. Activating' <=> Activating
    <3>1. wtasks = << >> => Len(wtasks) = 0
      OBVIOUS
    <3>2. wtasks # << >> => 1 \in 1 .. Len(wtasks)
      BY <2>1, EmptySeq
    <3>3. wtasks' # << >>
      BY <1>2, AppendProperties DEF SendFromThread
    <3> QED
      BY <2>1, <3>1, <3>2, <3>3
  <2>3. \A i \in 2 .. Len(wtasks') : wtasks'[i] = "send"
    BY <2>1, SMTT(30)
  <2>4. calls'.send = calls.send + 1 /\ UNCHANGED unsent
    BY <1>2 DEF SendFromThread
  <2> HIDE DEF Activating
  <2> QED
    BY <2>1, <2>2, <2>3, <2>4
<1>3. CASE RunSend
  <2>1. /\ wtasks' \in Seq({"activate", "send"}) /\ Len(wtasks') = Len(wtasks) - 1
        /\ Len(wtasks) \in Nat \ {0} /\ Head(wtasks) = wtasks[1]
        /\ \A i \in 1 .. Len(wtasks') : wtasks'[i] = wtasks[i + 1]
    BY <1>3, HeadTailProperties DEF RunSend
  <2>2. \A i \in 1 .. Len(wtasks') : wtasks'[i] = "send"
    BY <2>1
  <2>3. ~Activating' /\ wtasks # << >>
    BY <2>1, <2>2
  <2>4. unsent' + Len(wtasks') <= calls.send
    BY <1>3, <2>1 DEF RunSend, SendInLoop
  <2> QED
    BY <1>3, <2>1, <2>2, <2>3, <2>4 DEF RunSend
<1>4. CASE RunActivate
  <2>1. /\ wtasks' \in Seq({"activate", "send"}) /\ Len(wtasks') = Len(wtasks) - 1
        /\ Len(wtasks) \in Nat \ {0} /\ Head(wtasks) = wtasks[1]
        /\ \A i \in 1 .. Len(wtasks') : wtasks'[i] = wtasks[i + 1]
    BY <1>4, HeadTailProperties DEF RunActivate
  <2>2. \A i \in 1 .. Len(wtasks') : wtasks'[i] = "send"
    BY <2>1
  <2>3. ~Activating' /\ wtasks # << >>
    BY <2>1, <2>2
  <2>4. unsent' + Len(wtasks') <= calls.send
    BY <1>4, <2>1 DEF RunActivate
  <2> QED
    BY <1>4, <2>1, <2>2, <2>3, <2>4 DEF RunActivate
<1>5. CASE Report
  BY <1>5 DEF Report
<1>6. CASE HandleEvents
  BY <1>6 DEF HandleEvents
<1>7. CASE EventsDone
  BY <1>7 DEF EventsDone
<1>8. CASE HandleClose
  BY <1>8 DEF HandleClose, NextCall
<1>9. CASE HandleError
  BY <1>9 DEF HandleError, NextCall
<1>10. CASE HandleRead
  BY <1>10 DEF HandleRead, NextCall, ResetTimeout
<1>11. CASE HandleWriteAll
  BY <1>11, WritingEffect DEF HandleWriteAll, NextCall
<1>12. CASE HandleWriteSome
  BY <1>12 DEF HandleWriteSome, NextCall
<1>13. CASE HandleWriteFails
  BY <1>13 DEF HandleWriteFails, NextCall
<1>14. CASE OnError
  BY <1>14 DEF OnError
<1>15. CASE AppSend
  BY <1>15, WritingEffect DEF AppSend, SendInLoop, ResetTimeout
<1>16. CASE AppClose
  BY <1>16 DEF AppClose
<1>17. CASE AppPauses
  BY <1>17, ReadingEffect DEF AppPauses
<1>18. CASE ReturnFromMade
  BY <1>18, ReadingEffect DEF ReturnFromMade
<1>19. CASE ReturnFromEvent
  BY <1>19 DEF ReturnFromEvent
<1>20. CASE CloseTests
  BY <1>20 DEF CloseTests, Resume
<1>21. CASE CloseHalf
  BY <1>21, SignalEffect DEF CloseHalf, Resume
<1>22. CASE \E x \in {"worker", "server"} : ForceTests(x)
  BY <1>22 DEF ForceTests, Resume
<1>23. CASE \E x \in {"worker", "server"} : ForceSets(x)
  BY <1>23 DEF ForceSets
<1>24. CASE \E x \in {"worker", "server"} : ForceDestroys(x)
  BY <1>24, DestroyEffect, SignalEffect DEF ForceDestroys
<1>25. CASE \E x \in {"worker", "server"} : ForceLoses(x)
  BY <1>25 DEF ForceLoses, Resume
<1>26. CASE ResetTask
  BY <1>26 DEF ResetTask
<1>27. CASE ComeDue
  BY <1>27 DEF ComeDue
<1>28. CASE Expire
  BY <1>28 DEF Expire
<1>29. CASE Elapse
  BY <1>29 DEF Elapse
<1>30. CASE Erase
  BY <1>30 DEF Erase
<1>31. CASE PeerSends
  BY <1>31, SignalEffect DEF PeerSends, Happens
<1>32. CASE PeerShutsDown
  BY <1>32, SignalEffect DEF PeerShutsDown, Happens
<1>33. CASE PeerReads
  BY <1>33, SignalEffect DEF PeerReads, Happens
<1>34. CASE PeerResets
  BY <1>34, SignalEffect DEF PeerResets, Happens
<1> QED
  BY <1>2, <1>3, <1>4, <1>5, <1>6, <1>7, <1>8, <1>9, <1>10, <1>11, <1>12, <1>13,
     <1>14, <1>15, <1>16, <1>17, <1>18, <1>19, <1>20, <1>21, <1>22, <1>23, <1>24,
     <1>25, <1>26, <1>27, <1>28, <1>29, <1>30, <1>31, <1>32, <1>33, <1>34 DEF Next,
     Worker, Handler, Return, ForceClose, Application, Server, Peer

\* The interest in writing is turned on with the first message and off with the last,
\* and each time epoll polls the socket anew.
LEMMA WatchedKept ==
  ASSUME Basic, Next
  PROVE  Watched'
<1>1. /\ Watched /\ Matches(channel) /\ unsent \in Nat /\ sock \in Sock
  BY DEF Basic, Typed
<1> USE <1>1 DEF Watched, UnsentIsWatched, Matches, At, Go, object, server, past, rest
<1>2. CASE SendFromThread
  BY <1>2 DEF SendFromThread
<1>3. CASE RunSend
  BY <1>3, WritingEffect DEF RunSend, SendInLoop, ResetTimeout
<1>4. CASE RunActivate
  BY <1>4 DEF RunActivate
<1>5. CASE Report
  <2>1. /\ channel'.due = FALSE
        /\ channel'.events = channel.events /\ channel'.interest = channel.interest
        /\ channel'.state = channel.state
    BY <1>5 DEF Report, Chan
  <2>2. UNCHANGED <<unsent, sock>>
    BY <1>5 DEF Report
  <2>3. ASSUME "WRITE" \in channel.interest, sock.room PROVE "write" \in todo'
    <3>1. "WRITE" \in Poll
      BY <2>3 DEF Poll
    <3>2. channel.due
      BY <1>5 DEF Report, Reported
    <3>3. "WRITE" \in Reported(channel, Poll)
      BY <2>3, <3>1, <3>2 DEF Reported
    <3>4. Calls("write", Reported(channel, Poll)) /\ "write" \in Handlers
      BY <3>3 DEF Calls, Handlers
    <3> QED
      BY <1>5, <3>4 DEF Report
  <2> QED
    BY <2>1, <2>2, <2>3
<1>6. CASE HandleEvents
  BY <1>6 DEF HandleEvents
<1>7. CASE EventsDone
  BY <1>7 DEF EventsDone
<1>8. CASE HandleClose
  BY <1>8 DEF HandleClose, NextCall
<1>9. CASE HandleError
  BY <1>9 DEF HandleError, NextCall
<1>10. CASE HandleRead
  BY <1>10 DEF HandleRead, NextCall, ResetTimeout
<1>11. CASE HandleWriteAll
  BY <1>11, WritingEffect DEF HandleWriteAll, NextCall
<1>12. CASE HandleWriteSome
  BY <1>12 DEF HandleWriteSome, NextCall
<1>13. CASE HandleWriteFails
  <2>1. /\ UNCHANGED <<channel, unsent>> /\ todo' = todo \ {"write"}
        /\ sock' = [sock EXCEPT !.err = FALSE]
        /\ ~sock.room \/ sock.rst \/ sock.down
    BY <1>13 DEF HandleWriteFails, NextCall
  <2>2. /\ sock'.room = sock.room /\ sock'.rst = sock.rst /\ sock'.down = sock.down
    BY <2>1 DEF Sock
  <2> QED
    BY <2>1, <2>2
<1>14. CASE OnError
  BY <1>14 DEF OnError
<1>15. CASE AppSend
  BY <1>15, WritingEffect DEF AppSend, SendInLoop, ResetTimeout
<1>16. CASE AppClose
  BY <1>16 DEF AppClose
<1>17. CASE AppPauses
  BY <1>17, ReadingEffect DEF AppPauses
<1>18. CASE ReturnFromMade
  BY <1>18, ReadingEffect DEF ReturnFromMade
<1>19. CASE ReturnFromEvent
  BY <1>19 DEF ReturnFromEvent
<1>20. CASE CloseTests
  BY <1>20 DEF CloseTests, Resume
<1>21. CASE CloseHalf
  BY <1>21, SignalEffect DEF CloseHalf, Resume
<1>22. CASE \E x \in {"worker", "server"} : ForceTests(x)
  BY <1>22 DEF ForceTests, Resume
<1>23. CASE \E x \in {"worker", "server"} : ForceSets(x)
  BY <1>23 DEF ForceSets
<1>24. CASE \E x \in {"worker", "server"} : ForceDestroys(x)
  BY <1>24, DestroyEffect, SignalEffect DEF ForceDestroys
<1>25. CASE \E x \in {"worker", "server"} : ForceLoses(x)
  BY <1>25 DEF ForceLoses, Resume
<1>26. CASE ResetTask
  BY <1>26 DEF ResetTask
<1>27. CASE ComeDue
  BY <1>27 DEF ComeDue
<1>28. CASE Expire
  BY <1>28 DEF Expire
<1>29. CASE Elapse
  BY <1>29 DEF Elapse
<1>30. CASE Erase
  BY <1>30 DEF Erase
<1>31. CASE PeerSends
  BY <1>31, SignalEffect DEF PeerSends, Happens
<1>32. CASE PeerShutsDown
  BY <1>32, SignalEffect DEF PeerShutsDown, Happens
<1>33. CASE PeerReads
  <2>1. /\ channel' = Signal(channel) /\ UNCHANGED unsent
        /\ sock'.down = sock.down /\ sock'.rst = sock.rst
    BY <1>33 DEF PeerReads, Happens, Sock
  <2>2. unsent > 0 /\ channel.state # "DESTROYED" =>
          channel.registered /\ "WRITE" \in channel.interest
    BY DEF Chan
  <2> QED
    BY <2>1, <2>2, SignalEffect
<1>34. CASE PeerResets
  BY <1>34, SignalEffect DEF PeerResets, Happens
<1> QED
  BY <1>2, <1>3, <1>4, <1>5, <1>6, <1>7, <1>8, <1>9, <1>10, <1>11, <1>12, <1>13,
     <1>14, <1>15, <1>16, <1>17, <1>18, <1>19, <1>20, <1>21, <1>22, <1>23, <1>24,
     <1>25, <1>26, <1>27, <1>28, <1>29, <1>30, <1>31, <1>32, <1>33, <1>34 DEF Next,
     Worker, Handler, Return, ForceClose, Application, Server, Peer
-----------------------------------------------------------------------------
\* No task that follows the first is the activation.
LEMMA ActivationEnds ==
  ASSUME Basic, RunActivate \/ RunSend
  PROVE  ~Activating'
<1>1. /\ Len(wtasks') = Len(wtasks) - 1 /\ Len(wtasks') \in Nat
      /\ Len(wtasks) \in Nat \ {0} /\ wtasks' \in Seq({"activate", "send"})
      /\ \A i \in 1 .. Len(wtasks') : wtasks'[i] = wtasks[i + 1]
  BY HeadTailProperties DEF RunActivate, RunSend, Basic, Counted
<1>2. wtasks' # << >> => 1 \in 1 .. Len(wtasks')
  BY <1>1, EmptySeq
<1> QED
  BY <1>1, <1>2 DEF Activating, Basic, Counted

\* The activation is run once, and over when connection_made_cb returns.
LEMMA MadeStays ==
  ASSUME Basic, Next
  PROVE  /\ Activating' => Activating
         /\ Made => Made'
         /\ (after = "made" => pc["worker"] = "callback") =>
              (Made' => Made \/ (after = "made" /\ after' = "none"))
<1>1. Counted
  BY DEF Basic
<1> USE <1>1 DEF Counted, Made, Activating, At, Go, object, server, past, rest
<1>2. CASE SendFromThread
  <2>1. /\ Len(wtasks) \in Nat
        /\ \A i \in 1 .. Len(wtasks) : wtasks'[i] = wtasks[i]
        /\ wtasks'[Len(wtasks) + 1] = "send"
    BY <1>2, AppendProperties DEF SendFromThread
  <2>2. Activating' <=> Activating
    <3>1. wtasks = << >> => Len(wtasks) = 0
      OBVIOUS
    <3>2. wtasks # << >> => 1 \in 1 .. Len(wtasks)
      BY <2>1, EmptySeq
    <3>3. wtasks' # << >>
      BY <1>2, AppendProperties DEF SendFromThread
    <3> QED
      BY <2>1, <3>1, <3>2, <3>3
  <2>3. UNCHANGED after
    BY <1>2 DEF SendFromThread
  <2> HIDE DEF Activating
  <2> QED
    BY <2>2, <2>3
<1>3. CASE RunSend
  BY <1>3, ActivationEnds DEF RunSend
<1>4. CASE RunActivate
  <2>1. Activating
    BY <1>4, HeadTailProperties DEF RunActivate
  <2> QED
    BY <1>4, <2>1, ActivationEnds DEF RunActivate
<1>5. CASE Report
  BY <1>5 DEF Report
<1>6. CASE HandleEvents
  BY <1>6 DEF HandleEvents
<1>7. CASE EventsDone
  BY <1>7 DEF EventsDone
<1>8. CASE HandleClose
  BY <1>8 DEF HandleClose, NextCall
<1>9. CASE HandleError
  BY <1>9 DEF HandleError, NextCall
<1>10. CASE HandleRead
  BY <1>10 DEF HandleRead, NextCall, ResetTimeout
<1>11. CASE HandleWriteAll
  BY <1>11, WritingEffect DEF HandleWriteAll, NextCall
<1>12. CASE HandleWriteSome
  BY <1>12 DEF HandleWriteSome, NextCall
<1>13. CASE HandleWriteFails
  BY <1>13 DEF HandleWriteFails, NextCall
<1>14. CASE OnError
  BY <1>14 DEF OnError
<1>15. CASE AppSend
  BY <1>15, WritingEffect DEF AppSend, SendInLoop, ResetTimeout
<1>16. CASE AppClose
  BY <1>16 DEF AppClose
<1>17. CASE AppPauses
  BY <1>17, ReadingEffect DEF AppPauses
<1>18. CASE ReturnFromMade
  BY <1>18, ReadingEffect DEF ReturnFromMade
<1>19. CASE ReturnFromEvent
  BY <1>19 DEF ReturnFromEvent
<1>20. CASE CloseTests
  BY <1>20 DEF CloseTests, Resume
<1>21. CASE CloseHalf
  BY <1>21, SignalEffect DEF CloseHalf, Resume
<1>22. CASE \E x \in {"worker", "server"} : ForceTests(x)
  BY <1>22 DEF ForceTests, Resume
<1>23. CASE \E x \in {"worker", "server"} : ForceSets(x)
  BY <1>23 DEF ForceSets
<1>24. CASE \E x \in {"worker", "server"} : ForceDestroys(x)
  BY <1>24, DestroyEffect, SignalEffect DEF ForceDestroys
<1>25. CASE \E x \in {"worker", "server"} : ForceLoses(x)
  BY <1>25 DEF ForceLoses, Resume
<1>26. CASE ResetTask
  BY <1>26 DEF ResetTask
<1>27. CASE ComeDue
  BY <1>27 DEF ComeDue
<1>28. CASE Expire
  BY <1>28 DEF Expire
<1>29. CASE Elapse
  BY <1>29 DEF Elapse
<1>30. CASE Erase
  BY <1>30 DEF Erase
<1>31. CASE PeerSends
  BY <1>31, SignalEffect DEF PeerSends, Happens
<1>32. CASE PeerShutsDown
  BY <1>32, SignalEffect DEF PeerShutsDown, Happens
<1>33. CASE PeerReads
  BY <1>33, SignalEffect DEF PeerReads, Happens
<1>34. CASE PeerResets
  BY <1>34, SignalEffect DEF PeerResets, Happens
<1> QED
  BY <1>2, <1>3, <1>4, <1>5, <1>6, <1>7, <1>8, <1>9, <1>10, <1>11, <1>12, <1>13,
     <1>14, <1>15, <1>16, <1>17, <1>18, <1>19, <1>20, <1>21, <1>22, <1>23, <1>24,
     <1>25, <1>26, <1>27, <1>28, <1>29, <1>30, <1>31, <1>32, <1>33, <1>34 DEF Next,
     Worker, Handler, Return, ForceClose, Application, Server, Peer

\* Handlers, timers and timeouts follow the activation.
LEMMA OpenedKept ==
  ASSUME ~ClosesAtOnce, Basic, Opened, Next
  PROVE  Opened'
<1>1. /\ Matches(channel) /\ pc \in [{"worker", "server"} -> Places]
      /\ unsent \in Nat /\ owed \in Nat /\ owed <= unsent /\ Watched
  BY DEF Basic, Typed
<1>made. /\ (Activating' => Activating) /\ (Made => Made')
         /\ Made' => Made \/ (after = "made" /\ after' = "none")
  BY MadeStays DEF Opened
<1> USE <1>1, <1>made DEF Matches, Opened, At, Go, object, server, past, rest
<1>2. CASE SendFromThread
  BY <1>2 DEF SendFromThread
<1>3. CASE RunSend
  <2>1. ~Activating'
    BY <1>3, ActivationEnds
  <2> QED
    BY <1>3, <2>1 DEF RunSend
<1>4. CASE RunActivate
  <2>1. ~Activating' /\ Activating
    BY <1>4, ActivationEnds, HeadTailProperties DEF RunActivate, Activating, Basic, Counted
  <2> QED
    BY <1>4, <2>1 DEF RunActivate, Made
<1>5. CASE Report
  BY <1>5 DEF Report, Reported
<1>6. CASE HandleEvents
  BY <1>6 DEF HandleEvents
<1>7. CASE EventsDone
  BY <1>7 DEF EventsDone
<1>8. CASE HandleClose
  BY <1>8 DEF HandleClose, NextCall
<1>9. CASE HandleError
  BY <1>9 DEF HandleError, NextCall
<1>10. CASE HandleRead
  BY <1>10 DEF HandleRead, NextCall, ResetTimeout
<1>11. CASE HandleWriteAll
  BY <1>11, WritingEffect DEF HandleWriteAll, NextCall
<1>12. CASE HandleWriteSome
  BY <1>12 DEF HandleWriteSome, NextCall
<1>13. CASE HandleWriteFails
  BY <1>13 DEF HandleWriteFails, NextCall
<1>14. CASE OnError
  BY <1>14 DEF OnError
<1>15. CASE AppSend
  BY <1>15, WritingEffect DEF AppSend, SendInLoop, ResetTimeout
<1>16. CASE AppClose
  BY <1>16 DEF AppClose
<1>17. CASE AppPauses
  BY <1>17, ReadingEffect DEF AppPauses
<1>18. CASE ReturnFromMade
  BY <1>18, ReadingEffect DEF ReturnFromMade
<1>19. CASE ReturnFromEvent
  BY <1>19 DEF ReturnFromEvent
<1>20. CASE CloseTests
  BY <1>20 DEF CloseTests, Resume
<1>21. CASE CloseHalf
  BY <1>21, SignalEffect DEF CloseHalf, Resume
<1>22. CASE \E x \in {"worker", "server"} : ForceTests(x)
  BY <1>22 DEF ForceTests, Resume
<1>23. CASE \E x \in {"worker", "server"} : ForceSets(x)
  BY <1>23 DEF ForceSets
<1>24. CASE \E x \in {"worker", "server"} : ForceDestroys(x)
  <2>1. PICK x \in {"worker", "server"} : ForceDestroys(x)
    BY <1>24
  <2>2. ~Activating
    BY <2>1 DEF ForceDestroys, Made
  <2> QED
    BY <2>1, <2>2 DEF ForceDestroys
<1>25. CASE \E x \in {"worker", "server"} : ForceLoses(x)
  BY <1>25 DEF ForceLoses, Resume
<1>26. CASE ResetTask
  BY <1>26 DEF ResetTask
<1>27. CASE ComeDue
  BY <1>27 DEF ComeDue, Made, Activating
<1>28. CASE Expire
  BY <1>28 DEF Expire, Alive
<1>29. CASE Elapse
  BY <1>29 DEF Elapse
<1>30. CASE Erase
  BY <1>30 DEF Erase
<1>31. CASE PeerSends
  BY <1>31, SignalEffect DEF PeerSends, Happens
<1>32. CASE PeerShutsDown
  BY <1>32, SignalEffect DEF PeerShutsDown, Happens
<1>33. CASE PeerReads
  BY <1>33, SignalEffect DEF PeerReads, Happens
<1>34. CASE PeerResets
  BY <1>34, SignalEffect DEF PeerResets, Happens
<1> QED
  BY <1>2, <1>3, <1>4, <1>5, <1>6, <1>7, <1>8, <1>9, <1>10, <1>11, <1>12, <1>13,
     <1>14, <1>15, <1>16, <1>17, <1>18, <1>19, <1>20, <1>21, <1>22, <1>23, <1>24,
     <1>25, <1>26, <1>27, <1>28, <1>29, <1>30, <1>31, <1>32, <1>33, <1>34 DEF Next,
     Worker, Handler, Return, ForceClose, Application, Server, Peer

\* A close waits for handle_onwrite unless it finds nothing to write.
LEMMA FlushedKept ==
  ASSUME ~ClosesAtOnce, Basic, Opened, Flushed, Next
  PROVE  Flushed'
<1>1. /\ Matches(channel) /\ pc \in [{"worker", "server"} -> Places]
      /\ unsent \in Nat /\ owed \in Nat /\ owed <= unsent /\ Watched
  BY DEF Basic, Typed
<1>made. /\ (Activating' => Activating) /\ (Made => Made')
         /\ Made' => Made \/ (after = "made" /\ after' = "none")
  BY MadeStays DEF Opened
<1> USE <1>1, <1>made DEF Matches, Opened, Flushed, At, Go, object, server, past, rest
<1>2. CASE SendFromThread
  BY <1>2 DEF SendFromThread
<1>3. CASE RunSend
  BY <1>3, WritingEffect DEF RunSend, SendInLoop, ResetTimeout
<1>4. CASE RunActivate
  BY <1>4 DEF RunActivate, Activating
<1>5. CASE Report
  BY <1>5 DEF Report
<1>6. CASE HandleEvents
  BY <1>6 DEF HandleEvents
<1>7. CASE EventsDone
  BY <1>7 DEF EventsDone
<1>8. CASE HandleClose
  BY <1>8 DEF HandleClose, NextCall
<1>9. CASE HandleError
  BY <1>9 DEF HandleError, NextCall
<1>10. CASE HandleRead
  BY <1>10 DEF HandleRead, NextCall, ResetTimeout
<1>11. CASE HandleWriteAll
  BY <1>11, WritingEffect DEF HandleWriteAll, NextCall
<1>12. CASE HandleWriteSome
  BY <1>12 DEF HandleWriteSome, NextCall
<1>13. CASE HandleWriteFails
  BY <1>13 DEF HandleWriteFails, NextCall
<1>14. CASE OnError
  BY <1>14 DEF OnError
<1>15. CASE AppSend
  BY <1>15, WritingEffect DEF AppSend, SendInLoop, ResetTimeout
<1>16. CASE AppClose
  BY <1>16 DEF AppClose
<1>17. CASE AppPauses
  BY <1>17, ReadingEffect DEF AppPauses
<1>18. CASE ReturnFromMade
  BY <1>18, ReadingEffect DEF ReturnFromMade
<1>19. CASE ReturnFromEvent
  BY <1>19 DEF ReturnFromEvent
<1>20. CASE CloseTests
  <2>1. ~forced /\ pc'["worker"] = "test" => owed = 0
    <3>1. SUFFICES ASSUME ~forced, pc'["worker"] = "test"
                   PROVE  owed = 0
      OBVIOUS
    <3>2. state \in {"INITIAL", "ACTIVATED"} /\ ~is_writing(channel)
      BY <1>20, <3>1 DEF CloseTests, Resume, Basic, Typed, States
    <3> QED
      BY <3>1, <3>2 DEF Watched, is_writing
  <2> QED
    BY <1>20, <2>1 DEF CloseTests, Resume, Basic, Typed, States
<1>21. CASE CloseHalf
  BY <1>21, SignalEffect DEF CloseHalf, Resume
<1>22. CASE \E x \in {"worker", "server"} : ForceTests(x)
  BY <1>22 DEF ForceTests, Resume
<1>23. CASE \E x \in {"worker", "server"} : ForceSets(x)
  BY <1>23 DEF ForceSets
<1>24. CASE \E x \in {"worker", "server"} : ForceDestroys(x)
  BY <1>24, DestroyEffect, SignalEffect DEF ForceDestroys
<1>25. CASE \E x \in {"worker", "server"} : ForceLoses(x)
  BY <1>25 DEF ForceLoses, Resume
<1>26. CASE ResetTask
  BY <1>26 DEF ResetTask
<1>27. CASE ComeDue
  BY <1>27 DEF ComeDue
<1>28. CASE Expire
  BY <1>28 DEF Expire
<1>29. CASE Elapse
  BY <1>29 DEF Elapse
<1>30. CASE Erase
  BY <1>30 DEF Erase
<1>31. CASE PeerSends
  BY <1>31, SignalEffect DEF PeerSends, Happens
<1>32. CASE PeerShutsDown
  BY <1>32, SignalEffect DEF PeerShutsDown, Happens
<1>33. CASE PeerReads
  BY <1>33, SignalEffect DEF PeerReads, Happens
<1>34. CASE PeerResets
  BY <1>34, SignalEffect DEF PeerResets, Happens
<1> QED
  BY <1>2, <1>3, <1>4, <1>5, <1>6, <1>7, <1>8, <1>9, <1>10, <1>11, <1>12, <1>13,
     <1>14, <1>15, <1>16, <1>17, <1>18, <1>19, <1>20, <1>21, <1>22, <1>23, <1>24,
     <1>25, <1>26, <1>27, <1>28, <1>29, <1>30, <1>31, <1>32, <1>33, <1>34 DEF Next,
     Worker, Handler, Return, ForceClose, Application, Server, Peer

\* A connection that is ADDED is out of reach of the worker once it is destroyed and
\* what was at hand is finished.
LEMMA UnreachableKept ==
  ASSUME ~ClosesAtOnce, ~PausesReading, ~SendsWhenLost, Basic, Opened, Unreachable, Next
  PROVE  Unreachable'
<1>1. /\ Matches(channel) /\ pc \in [{"worker", "server"} -> Places]
      /\ lost \in Nat /\ erasers \in Nat /\ ripe \in Nat /\ ripe <= erasers
  BY DEF Basic, Typed
<1>made. /\ (Activating' => Activating) /\ (Made => Made')
         /\ Made' => Made \/ (after = "made" /\ after' = "none")
  BY MadeStays DEF Opened
<1> USE <1>1, <1>made DEF Matches, Opened, Unreachable, At, Go, object, server, past, rest
<1>2. CASE SendFromThread
  BY <1>2 DEF SendFromThread
<1>3. CASE RunSend
  BY <1>3, WritingEffect DEF RunSend, SendInLoop, ResetTimeout
<1>4. CASE RunActivate
  BY <1>4 DEF RunActivate
<1>5. CASE Report
  BY <1>5 DEF Report, Reported
<1>6. CASE HandleEvents
  BY <1>6 DEF HandleEvents
<1>7. CASE EventsDone
  BY <1>7 DEF EventsDone
<1>8. CASE HandleClose
  BY <1>8 DEF HandleClose, NextCall
<1>9. CASE HandleError
  BY <1>9 DEF HandleError, NextCall
<1>10. CASE HandleRead
  BY <1>10 DEF HandleRead, NextCall, ResetTimeout
<1>11. CASE HandleWriteAll
  BY <1>11, WritingEffect DEF HandleWriteAll, NextCall
<1>12. CASE HandleWriteSome
  BY <1>12 DEF HandleWriteSome, NextCall
<1>13. CASE HandleWriteFails
  BY <1>13 DEF HandleWriteFails, NextCall
<1>14. CASE OnError
  BY <1>14 DEF OnError
<1>15. CASE AppSend
  BY <1>15, WritingEffect DEF AppSend, SendInLoop, ResetTimeout
<1>16. CASE AppClose
  BY <1>16 DEF AppClose
<1>17. CASE AppPauses
  BY <1>17, ReadingEffect DEF AppPauses
<1>18. CASE ReturnFromMade
  BY <1>18, ReadingEffect DEF ReturnFromMade
<1>19. CASE ReturnFromEvent
  BY <1>19 DEF ReturnFromEvent
<1>20. CASE CloseTests
  BY <1>20 DEF CloseTests, Resume, Basic, Typed, States
<1>21. CASE CloseHalf
  BY <1>21, SignalEffect DEF CloseHalf, Resume
<1>22. CASE \E x \in {"worker", "server"} : ForceTests(x)
  BY <1>22 DEF ForceTests, Resume
<1>23. CASE \E x \in {"worker", "server"} : ForceSets(x)
  BY <1>23 DEF ForceSets
<1>24. CASE \E x \in {"worker", "server"} : ForceDestroys(x)
  <2>1. PICK x \in {"worker", "server"} : ForceDestroys(x)
    BY <1>24
  <2>2. Made
    BY <2>1 DEF ForceDestroys, Made
  <2>3. channel'.state = "DESTROYED" /\ ~channel'.registered
    BY <2>1, <2>2, DestroyEffect, SignalEffect DEF ForceDestroys
  <2> QED
    BY <2>1, <2>2, <2>3 DEF ForceDestroys
<1>25. CASE \E x \in {"worker", "server"} : ForceLoses(x)
  BY <1>25 DEF ForceLoses, Resume
<1>26. CASE ResetTask
  BY <1>26 DEF ResetTask
<1>27. CASE ComeDue
  BY <1>27 DEF ComeDue
<1>28. CASE Expire
  BY <1>28 DEF Expire
<1>29. CASE Elapse
  BY <1>29 DEF Elapse
<1>30. CASE Erase
  BY <1>30 DEF Erase
<1>31. CASE PeerSends
  BY <1>31, SignalEffect DEF PeerSends, Happens
<1>32. CASE PeerShutsDown
  BY <1>32, SignalEffect DEF PeerShutsDown, Happens
<1>33. CASE PeerReads
  BY <1>33, SignalEffect DEF PeerReads, Happens
<1>34. CASE PeerResets
  BY <1>34, SignalEffect DEF PeerResets, Happens
<1> QED
  BY <1>2, <1>3, <1>4, <1>5, <1>6, <1>7, <1>8, <1>9, <1>10, <1>11, <1>12, <1>13,
     <1>14, <1>15, <1>16, <1>17, <1>18, <1>19, <1>20, <1>21, <1>22, <1>23, <1>24,
     <1>25, <1>26, <1>27, <1>28, <1>29, <1>30, <1>31, <1>32, <1>33, <1>34 DEF Next,
     Worker, Handler, Return, ForceClose, Application, Server, Peer

\* One thread closes, and only once.
LEMMA OnceKept ==
  ASSUME ~Timeouts, ~ClosesAtOnce, Basic, Opened, Once, Next
  PROVE  Once'
<1>1. /\ pc \in [{"worker", "server"} -> Places] /\ state \in States
      /\ resets \in Nat /\ (resets > 0 => Timeouts) /\ lost \in Nat
      /\ erasers \in Nat /\ ripe \in Nat /\ ripe <= erasers
  BY DEF Basic, Typed
<1>made. /\ (Activating' => Activating) /\ (Made => Made')
         /\ Made' => Made \/ (after = "made" /\ after' = "none")
  BY MadeStays DEF Opened
<1> USE <1>1, <1>made DEF States, Opened, Once, At, Go, object, server, past, rest
<1>2. CASE SendFromThread
  BY <1>2 DEF SendFromThread
<1>3. CASE RunSend
  BY <1>3, WritingEffect DEF RunSend, SendInLoop, ResetTimeout
<1>4. CASE RunActivate
  BY <1>4 DEF RunActivate
<1>5. CASE Report
  BY <1>5 DEF Report
<1>6. CASE HandleEvents
  BY <1>6 DEF HandleEvents
<1>7. CASE EventsDone
  BY <1>7 DEF EventsDone
<1>8. CASE HandleClose
  BY <1>8 DEF HandleClose, NextCall
<1>9. CASE HandleError
  BY <1>9 DEF HandleError, NextCall
<1>10. CASE HandleRead
  BY <1>10 DEF HandleRead, NextCall, ResetTimeout
<1>11. CASE HandleWriteAll
  BY <1>11, WritingEffect DEF HandleWriteAll, NextCall
<1>12. CASE HandleWriteSome
  BY <1>12 DEF HandleWriteSome, NextCall
<1>13. CASE HandleWriteFails
  BY <1>13 DEF HandleWriteFails, NextCall
<1>14. CASE OnError
  BY <1>14 DEF OnError
<1>15. CASE AppSend
  BY <1>15, WritingEffect DEF AppSend, SendInLoop, ResetTimeout
<1>16. CASE AppClose
  BY <1>16 DEF AppClose
<1>17. CASE AppPauses
  BY <1>17, ReadingEffect DEF AppPauses
<1>18. CASE ReturnFromMade
  <2>1. ~Made /\ Made'
    BY <1>18 DEF ReturnFromMade, Made, Activating
  <2> QED
    BY <1>18, <2>1 DEF ReturnFromMade
<1>19. CASE ReturnFromEvent
  BY <1>19 DEF ReturnFromEvent
<1>20. CASE CloseTests
  <2>1. Made
    BY <1>20 DEF CloseTests, Made
  <2> QED
    BY <1>20, <2>1 DEF CloseTests, Resume
<1>21. CASE CloseHalf
  BY <1>21, SignalEffect DEF CloseHalf, Resume
<1>22. CASE \E x \in {"worker", "server"} : ForceTests(x)
  <2>1. PICK x \in {"worker", "server"} : ForceTests(x)
    BY <1>22
  <2>2. Made /\ x = "worker"
    BY <2>1 DEF ForceTests, Made
  <2> QED
    BY <2>1, <2>2 DEF ForceTests, Resume
<1>23. CASE \E x \in {"worker", "server"} : ForceSets(x)
  BY <1>23 DEF ForceSets
<1>24. CASE \E x \in {"worker", "server"} : ForceDestroys(x)
  BY <1>24, DestroyEffect, SignalEffect DEF ForceDestroys
<1>25. CASE \E x \in {"worker", "server"} : ForceLoses(x)
  BY <1>25 DEF ForceLoses, Resume
<1>26. CASE ResetTask
  BY <1>26 DEF ResetTask
<1>27. CASE ComeDue
  BY <1>27 DEF ComeDue
<1>28. CASE Expire
  BY <1>28 DEF Expire
<1>29. CASE Elapse
  BY <1>29 DEF Elapse
<1>30. CASE Erase
  BY <1>30 DEF Erase
<1>31. CASE PeerSends
  BY <1>31, SignalEffect DEF PeerSends, Happens
<1>32. CASE PeerShutsDown
  BY <1>32, SignalEffect DEF PeerShutsDown, Happens
<1>33. CASE PeerReads
  BY <1>33, SignalEffect DEF PeerReads, Happens
<1>34. CASE PeerResets
  BY <1>34, SignalEffect DEF PeerResets, Happens
<1> QED
  BY <1>2, <1>3, <1>4, <1>5, <1>6, <1>7, <1>8, <1>9, <1>10, <1>11, <1>12, <1>13,
     <1>14, <1>15, <1>16, <1>17, <1>18, <1>19, <1>20, <1>21, <1>22, <1>23, <1>24,
     <1>25, <1>26, <1>27, <1>28, <1>29, <1>30, <1>31, <1>32, <1>33, <1>34 DEF Next,
     Worker, Handler, Return, ForceClose, Application, Server, Peer
-----------------------------------------------------------------------------
\* The inductive invariant: what holds anyway, and what the use of the connection and
\* of the server adds.
ConnectionInv ==
  /\ Basic
  /\ ~ClosesAtOnce => Opened /\ Flushed
  /\ ~ClosesAtOnce /\ ~PausesReading /\ ~SendsWhenLost => Unreachable
  /\ ~ClosesAtOnce /\ ~Timeouts => Once

\* What the accept loop makes.
LEMMA InitHasConnectionInv ==
  ASSUME Init
  PROVE  ConnectionInv
<1>1. /\ Activating /\ ~Made
      /\ wtasks \in Seq({"activate", "send"}) /\ Len(wtasks) = 1
  BY DEF Init, Activating, Made
<1>2. Matches(channel) /\ sock \in Sock
  BY DEF Init, Matches, Chan, NewChannel, Sock
<1>3. Basic
  <2>1. Typed
    <3>1. pc \in [{"worker", "server"} -> Places]
      BY DEF Init, Places
    <3>2. calls \in [send : 0 .. MaxSend, data : 0 .. MaxData]
      BY BoundsAssumption DEF Init
    <3>3. /\ state = "INITIAL" /\ after = "none" /\ entry = "none" /\ todo = {}
          /\ unsent = 0 /\ owed = 0 /\ resets = 0 /\ erasers = 0 /\ ripe = 0 /\ lost = 0
          /\ mapped = TRUE /\ forced = FALSE /\ pc["worker"] = "idle"
      BY DEF Init
    <3>4. mapped \in BOOLEAN /\ forced \in BOOLEAN /\ todo \subseteq Handlers
      BY <3>3
    <3>5. /\ state \in States /\ unsent \in Nat /\ owed \in Nat /\ owed <= unsent
          /\ resets \in Nat /\ (resets > 0 => Timeouts) /\ erasers \in Nat /\ ripe \in Nat
          /\ ripe <= erasers /\ lost \in Nat
      BY <3>3 DEF States
    <3>6. /\ after \in {"none", "made", "data", "eof", "wrote"}
          /\ entry \in {"none", "new", "due"}
          /\ (pc["worker"] = "callback" => after # "none")
      BY <3>3
    <3> QED
      BY <1>2, <3>1, <3>2, <3>4, <3>5, <3>6, Zenon DEF Typed
  <2>2. Counted
    BY <1>1 DEF Init, Counted
  <2>3. Watched
    BY <1>2 DEF Init, Watched, UnsentIsWatched, NewChannel
  <2> QED
    BY <2>1, <2>2, <2>3 DEF Basic
<1>4. Opened /\ Flushed /\ Unreachable /\ Once
  BY <1>1 DEF Init, Opened, Flushed, Unreachable, Once, NewChannel
<1> QED
  BY <1>3, <1>4 DEF ConnectionInv

\* Each step keeps each part, with the parts it needs.
LEMMA StepKeepsConnectionInv ==
  ASSUME ConnectionInv, [Next]_vars
  PROVE  ConnectionInv'
<1>1. CASE Next
  <2>1. Basic'
    BY <1>1, TypedKept, CountedKept, WatchedKept DEF ConnectionInv, Basic
  <2>2. ~ClosesAtOnce => Opened' /\ Flushed'
    BY <1>1, OpenedKept, FlushedKept DEF ConnectionInv
  <2>3. ~ClosesAtOnce /\ ~PausesReading /\ ~SendsWhenLost => Unreachable'
    BY <1>1, UnreachableKept DEF ConnectionInv
  <2>4. ~ClosesAtOnce /\ ~Timeouts => Once'
    BY <1>1, OnceKept DEF ConnectionInv
  <2> QED
    BY <2>1, <2>2, <2>3, <2>4 DEF ConnectionInv
<1>2. CASE UNCHANGED vars
  BY <1>2 DEF vars, object, server, past, ConnectionInv, Basic, Typed, Matches,
     Counted, Activating, Watched, UnsentIsWatched, Opened, Made, Flushed, Unreachable, Once
<1> QED
  BY <1>1, <1>2

\* The invariant holds in every state of a connection, under any use.
THEOREM ConnectionInvariant == Spec => []ConnectionInv
BY InitHasConnectionInv, StepKeepsConnectionInv, PTL DEF Spec

\* The state, the channel and the epoll instance agree, and buffers and counters stay
\* in their ranges, for any use of a connection: net/Transport.cpp, net/Server.h and
\* net/eventloop/Channel.h.
THEOREM ConnectionTypeCorrect == Spec => []TypeOK
<1>1. ConnectionInv => TypeOK
  <2> SUFFICES ASSUME ConnectionInv
               PROVE  TypeOK
    OBVIOUS
  <2>1. Typed /\ Counted
    BY DEF ConnectionInv, Basic
  <2>2. unsent \in 0 .. MaxSend
    <3>1. Len(wtasks) \in Nat /\ (Activating => Len(wtasks) # 0)
      BY <2>1, EmptySeq DEF Counted, Activating
    <3> QED
      BY <2>1, <3>1, BoundsAssumption DEF Typed, Counted
  <2> QED
    BY <2>1, <2>2 DEF Typed, TypeOK, Matches, Chan, States
<1> QED
  BY <1>1, ConnectionInvariant, PTL

\* Whenever data wait in wbuffer the channel is registered for writing, and the event
\* that the socket has room for is on its way: resume_writing in send and pause_writing in
\* handle_onwrite lose no edge (Transport.cpp:136-139, 234-239).
THEOREM UnsentDataAreWatched == Spec => []UnsentIsWatched
<1>1. ConnectionInv => UnsentIsWatched
  BY DEF ConnectionInv, Basic, Watched
<1> QED
  BY <1>1, ConnectionInvariant, PTL

\* connection_lost_cb may erase a connection two seconds later (Server.h:108-111): if the
\* application neither stops reading nor closes in connection_made_cb nor sends after the
\* loss, the worker has by then no event, handler or task that holds its raw pointer.
THEOREM ControllersOutliveEvents ==
  ASSUME ~ClosesAtOnce, ~PausesReading, ~SendsWhenLost
  PROVE  Spec => []ControllerOutlivesItsEvents
<1>1. ConnectionInv => ControllerOutlivesItsEvents
  BY DEF ConnectionInv, Unreachable, ControllerOutlivesItsEvents, Alive
<1> QED
  BY <1>1, ConnectionInvariant, PTL

\* Without timeouts a connection that is freed was closed before: its destructor's
\* force_close (Transport.cpp:206-208) has nothing to do.
THEOREM ConnectionsDieClosed ==
  ASSUME ~ClosesAtOnce, ~Timeouts
  PROVE  Spec => []DeathFindsItClosed
<1>1. ConnectionInv => DeathFindsItClosed
  BY DEF ConnectionInv, Once, DeathFindsItClosed, Alive
<1> QED
  BY <1>1, ConnectionInvariant, PTL

\* Four actions move _state or call connection_lost_cb.
LEMMA StateMoves ==
  ASSUME Next
  PROVE  \/ UNCHANGED <<state, lost>>
         \/ ReturnFromMade
         \/ CloseHalf
         \/ \E x \in {"worker", "server"} : ForceSets(x) \/ ForceLoses(x)
<1>1. CASE Handler \/ RunSend \/ RunActivate \/ Report
  BY <1>1 DEF Handler, HandleEvents, EventsDone, HandleClose, HandleError, HandleRead,
     HandleWriteAll, HandleWriteSome, HandleWriteFails, OnError,
     RunSend, RunActivate, Report,
     object, rest, past
<1>2. CASE Application \/ Peer \/ ReturnFromEvent
  BY <1>2 DEF Application, SendFromThread, AppSend, AppClose, AppPauses, Peer, Happens,
     PeerSends, PeerShutsDown, PeerReads, PeerResets, ReturnFromEvent, object, past
<1>3. CASE CloseTests \/ \E x \in {"worker", "server"} : ForceTests(x) \/ ForceDestroys(x)
  BY <1>3 DEF CloseTests, ForceTests, ForceDestroys, object, past
<1>4. CASE ResetTask \/ Erase \/ ComeDue \/ Expire \/ Elapse
  BY <1>4 DEF ResetTask, Erase, ComeDue, Expire, Elapse, object, past
<1> QED
  BY <1>1, <1>2, <1>3, <1>4 DEF Next, Worker, Return, Server, ForceClose

\* Unless an error or a timeout asks for it, the connection ends when handle_onwrite has
\* written the last of what was in wbuffer at close (Transport.cpp:142-144, 169-179).
\* This is no promise for a send of another thread whose task is still queued.
THEOREM CloseWritesTheBuffer ==
  ASSUME ~ClosesAtOnce
  PROVE  Spec => CloseFlushes
<1>1. ConnectionInv /\ [Next]_vars =>
        [state # "DISCONNECTED" /\ state' = "DISCONNECTED" /\ ~forced => owed = 0]_vars
  <2> SUFFICES ASSUME ConnectionInv, Next, ~forced,
                      state # "DISCONNECTED", state' = "DISCONNECTED"
               PROVE  owed = 0
    OBVIOUS
  <2>1. PICK x \in {"worker", "server"} : ForceSets(x)
    BY StateMoves DEF ReturnFromMade, CloseHalf, ForceLoses, object
  <2>2. x = "worker" /\ pc["worker"] = "set"
    BY <2>1 DEF ForceSets, At, ConnectionInv, Flushed
  <2> QED
    BY <2>2 DEF ConnectionInv, Flushed
<1> QED
  BY <1>1, ConnectionInvariant, PTL DEF Spec, CloseFlushes

\* Nothing happens to a connection that is freed.
LEMMA Living ==
  ASSUME Basic, Once, Next
  PROVE  Alive
<1>1. CASE Handler \/ RunSend \/ RunActivate \/ Report \/ Return
  BY <1>1 DEF Handler, HandleEvents, EventsDone, HandleClose, HandleError, HandleRead,
     NextCall, HandleWriteAll, HandleWriteSome, HandleWriteFails, OnError,
     RunSend, RunActivate, Report,
     Return, ReturnFromMade, ReturnFromEvent, At
<1>2. CASE Application \/ Peer
  BY <1>2 DEF Application, SendFromThread, AppSend, AppClose, AppPauses, Peer, Happens,
     PeerSends, PeerShutsDown, PeerReads, PeerResets, At
<1>3. CASE Worker \/ Server
  BY <1>1, <1>3 DEF Worker, Server, ResetTask, Erase, CloseTests, CloseHalf, ForceClose,
     ForceTests, ForceSets, ForceDestroys, ForceLoses, At
<1>4. CASE ComeDue \/ Expire
  BY <1>4 DEF ComeDue, Expire, Once
<1>5. CASE Elapse
  BY <1>5 DEF Elapse, Basic, Typed, Alive
<1> QED
  BY <1>1, <1>2, <1>3, <1>4, <1>5 DEF Next

\* Without timeouts the connection implements Session: it is opened, closed, lost and
\* freed in this order and each at most once, whichever of close, the peer's close, errors
\* and the end of writing come together (Transport.cpp:150-194).
THEOREM ConnectionIsASession ==
  ASSUME ~ClosesAtOnce, ~Timeouts
  PROVE  Spec => Life!SessionSpec
<1>1. Init => Life!SessionInit
  BY DEF Init, Life!SessionInit, Phase, Alive
<1>2. ConnectionInv /\ [Next]_vars => [Life!SessionNext]_Phase
  <2> USE DEF Life!SessionNext, Life!Open, Life!Close, Life!Lose, Life!Free, Phase
  <2>1. CASE UNCHANGED vars
    BY <2>1 DEF vars, object, server, past, Alive
  <2>2. ASSUME ConnectionInv, Next
        PROVE  [Life!SessionNext]_Phase
    <3>1. Basic /\ Opened /\ Once /\ Basic' /\ Once' /\ Alive
      BY <2>2, StepKeepsConnectionInv, Living DEF ConnectionInv
    <3>2. /\ lost \in Nat /\ lost' \in Nat /\ state \in States
          /\ lost \in {0, 1} /\ lost' \in {0, 1}
          /\ lost' = 0 => Alive'
      BY <3>1 DEF Basic, Typed, Once, Alive
    <3>3. CASE UNCHANGED <<state, lost>>
      <4>1. CASE lost = 0
        BY <3>1, <3>2, <3>3, <4>1
      <4>2. CASE lost = 1
        BY <3>1, <3>2, <3>3, <4>2
      <4> QED
        BY <3>2, <4>1, <4>2
    <3>4. CASE ReturnFromMade
      <4>1. state = "INITIAL" /\ UNCHANGED lost /\ state' = "ACTIVATED" /\ lost = 0
        BY <3>1, <3>2, <3>4 DEF ReturnFromMade, Once, Made, past
      <4> QED
        BY <3>1, <3>2, <4>1
    <3>5. CASE CloseHalf
      <4>1. state = "ACTIVATED" /\ UNCHANGED lost /\ state' = "DISCONNECTING" /\ lost = 0
        BY <3>1, <3>2, <3>5 DEF CloseHalf, Once, At, past
      <4> QED
        BY <3>1, <3>2, <4>1
    <3>6. CASE \E x \in {"worker", "server"} : ForceSets(x)
      <4>1. /\ state \in {"ACTIVATED", "DISCONNECTING"} /\ UNCHANGED lost
            /\ state' = "DISCONNECTED" /\ lost = 0
        BY <3>1, <3>6 DEF ForceSets, Once, At, past
      <4> QED
        BY <3>1, <3>2, <4>1
    <3>7. CASE \E x \in {"worker", "server"} : ForceLoses(x)
      <4>1. state = "DISCONNECTED" /\ lost = 0 /\ lost' = 1 /\ Alive'
        BY <3>1, <3>2, <3>7 DEF ForceLoses, Once, At, Alive, Basic, Typed
      <4> QED
        BY <3>1, <3>2, <4>1
    <3> QED
      BY <2>2, <3>3, <3>4, <3>5, <3>6, <3>7, StateMoves
  <2> QED
    BY <2>1, <2>2
<1> QED
  BY <1>1, <1>2, ConnectionInvariant, PTL DEF Spec, Life!SessionSpec
=============================================================================
