----------------------------- MODULE TimingWheel -----------------------------
(***************************************************************************)
(* The timing wheels of the server, net/TimingWheel.h, on the ring buffer  *)
(* FixedRingBuffer of net/Buffer.h: a ring of BucketSize sets per wheel,   *)
(* one of whose places is always free, as in every RingBuffer.             *)
(*                                                                         *)
(* An entry expires when the last reference to it is dropped.  A reference *)
(* is a record of the entry and of hops, the places it still has to visit  *)
(* in the lower wheels: hops is << >> for the entry itself, and a          *)
(* CallBackEntry, which moves a reference down when it is dropped, adds a  *)
(* hop.  A delay of n seconds is taken for n ticks of tick_interval, 1 s.  *)
(* All here is counted in ticks, however far apart they are: IdleTimeout   *)
(* says what they take.                                                    *)
(***************************************************************************)
EXTENDS RingBuffer

CONSTANTS
  Entry,       \* the entries, one for each connection
  BucketSize,  \* bucket_size: 100
  NWheel,      \* nwheel: 2 for the server's 10 minutes
  Delays,      \* the delays of insert
  MaxTick,     \* bound: ticks
  MaxInsert    \* bound: calls of insert

ASSUME WheelAssumption ==
  BucketSize \in Nat \ {0, 1} /\ NWheel \in {1, 2} /\ Delays \subseteq Nat \ {0}

ASSUME BoundsAssumption == MaxTick \in Nat /\ MaxInsert \in Nat

VARIABLES
  wheels,   \* the rings of sets of references
  curtick,  \* ticks so far
  turn,     \* the wheel that the tick has to turn next; NWheel between ticks
  due,      \* history: the tick at which the last reference is expected to go
  inserts   \* history: calls of insert so far

vars == <<wheels, curtick, turn, due, inserts>>
-----------------------------------------------------------------------------
Wheel == 0 .. NWheel - 1

References(ring) == UNION {ring.vec[i] : i \in 1 .. vsize(ring)}

Held(e) == \E i \in Wheel : \E r \in References(wheels[i]) : r.entry = e

\* wheels[i][index].insert(refs)
InsertAt(ring, index, refs) == [ring EXCEPT !.vec[Place(ring, index)] = @ \union refs]

\* FixedRingBuffer::push_back of an empty set: what goes, and the ring after it.
\* A ring that is not full drops only what was put into the free place.
Dropped(ring) ==
  (IF full(ring) THEN ring.vec[Place(ring, 0)] ELSE {}) \union ring.vec[ring.hi + 1]

\* Mutant of Pushed: the content of a place that goes out of the ring stays.
PushedOver(ring) ==
  [vec |-> ring.vec,
   lo  |-> IF full(ring) THEN MOD(ring, ring.lo + 1) ELSE ring.lo,
   hi  |-> MOD(ring, ring.hi + 1)]

Pushed(ring) ==
  [vec |-> [ring.vec EXCEPT ![Place(ring, 0)] = IF full(ring) THEN {} ELSE @,
                            ![ring.hi + 1] = {}],
   lo  |-> IF full(ring) THEN MOD(ring, ring.lo + 1) ELSE ring.lo,
   hi  |-> MOD(ring, ring.hi + 1)]

\* Where insert_in_loop puts a reference: the first wheel that the delay fits, and
\* the last place of the last wheel otherwise.  A hop takes the delay down to
\* 1 + a multiple of BucketSize, which never fits the second wheel.
Landing(delay) ==
  IF delay <= BucketSize THEN [wheel |-> 0, index |-> delay - 1]
  ELSE [wheel |-> NWheel - 1, index |-> BucketSize - 1]

\* The hop of a reference in the second wheel: its place in the first.
Hops(delay) == IF Landing(delay).wheel = 0 THEN << >> ELSE <<(delay - 1) % BucketSize>>
-----------------------------------------------------------------------------
\* When a reference put at index of a wheel that has turned t times goes, counted
\* in turns of the wheel.  A full ring drops index 0 at each turn, so that index
\* goes after index + 1 turns, and what is in the free place at once.  A ring that
\* is filling up drops nothing but what it finds in the place it is about to use.
GoesAt(t, index) ==
  IF t < BucketSize - 1
  THEN IF index >= t THEN index + 1 ELSE BucketSize + index
  ELSE IF index = BucketSize - 1 THEN t + 1 ELSE t + index + 1

\* The tick at which an entry inserted at tick t goes.
ExpiresAt(t, delay) ==
  IF delay <= BucketSize THEN GoesAt(t, delay - 1)
  ELSE IF NWheel = 1 THEN GoesAt(t, BucketSize - 1)
  ELSE LET down == BucketSize * GoesAt(t \div BucketSize, BucketSize - 1)
       IN  GoesAt(down, (delay - 1) % BucketSize)
-----------------------------------------------------------------------------
Init ==
  /\ wheels = [i \in Wheel |-> NewRing(BucketSize, {})]
  /\ curtick = 0
  /\ turn = NWheel
  /\ due = [e \in Entry |-> 0]
  /\ inserts = 0

\* insert, in the loop's thread: a new entry, or one more reference to it.
Insert(e, delay) ==
  LET to == Landing(delay)
      r  == [entry |-> e, hops |-> Hops(delay)]
  IN  /\ turn = NWheel
      /\ inserts < MaxInsert
      /\ wheels' = [wheels EXCEPT ![to.wheel] = InsertAt(@, to.index, {r})]
      /\ due' = [due EXCEPT ![e] = IF @ > ExpiresAt(curtick, delay) THEN @
                                   ELSE ExpiresAt(curtick, delay)]
      /\ inserts' = inserts + 1
      /\ UNCHANGED <<curtick, turn>>

\* The timer of call_every.
Tick ==
  /\ turn = NWheel
  /\ curtick < MaxTick
  /\ curtick' = curtick + 1
  /\ turn' = 0
  /\ UNCHANGED <<wheels, due, inserts>>

\* The callbacks of the references that wheel i drops put them into the wheel below.
Moved(i, refs) ==
  [w \in Wheel |->
     IF w # i - 1 THEN wheels[w]
     ELSE [wheels[w] EXCEPT !.vec =
             [p \in DOMAIN @ |->
                @[p] \union {[r EXCEPT !.hops = SubSeq(@, 1, i - 1)] :
                               r \in {q \in refs : Place(wheels[w], q.hops[i]) = p}}]]]

\* The ticks between two turns of wheel i: it starts at 1 and grows BucketSize times
\* from one wheel to the next, of which there are no more than two.
base(i) == IF i = 0 THEN 1 ELSE BucketSize

\* The tick turns wheel i when it is a multiple of base(i).
Turn(i) ==
  /\ turn = i
  /\ wheels' = IF curtick % base(i) = 0
               THEN [Moved(i, Dropped(wheels[i])) EXCEPT ![i] = Pushed(@)]
               ELSE wheels
  /\ turn' = i + 1
  /\ UNCHANGED <<curtick, due, inserts>>

Next ==
  \/ \E e \in Entry, delay \in Delays : Insert(e, delay)
  \/ Tick
  \/ \E i \in Wheel : Turn(i)

Spec == Init /\ [][Next]_vars
-----------------------------------------------------------------------------
TypeOK ==
  /\ DOMAIN wheels = Wheel
  /\ \A i \in Wheel :
       /\ vsize(wheels[i]) = BucketSize
       /\ {wheels[i].lo, wheels[i].hi} \subseteq 0 .. BucketSize - 1
       /\ \A r \in References(wheels[i]) : r.entry \in Entry /\ Len(r.hops) = i
  /\ curtick \in 0 .. MaxTick
  /\ turn \in 0 .. NWheel
  /\ due \in [Entry -> Nat]

\* An entry that was inserted any number of times, whatever the ticks between,
\* is held until the tick that its last insertion calls for and no longer: no
\* reference is stranded in a place that is out of the ring, dropped when the ring
\* is reused, or lost on its way down the wheels (TimingWheel.h:63-100).  GoesAt
\* says when that is: after delay ticks, if the delay is less than BucketSize and
\* the ring is full; too early or too late otherwise.
EntryGoesWhenDue ==
  turn = NWheel => \A e \in Entry : Held(e) <=> curtick < due[e]
=============================================================================
