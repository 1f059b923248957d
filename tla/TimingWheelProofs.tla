------------------------- MODULE TimingWheelProofs -------------------------
(***************************************************************************)
(* Proofs about TimingWheel and about IdleTimeout, which closes idle       *)
(* connections with it, for every number of entries, every size of a       *)
(* wheel, every set of delays and any number of ticks and insertions.      *)
(*                                                                         *)
(* A reference is followed from where it is put to where it is dropped by  *)
(* the tick at which it goes, its expiry: no turn of a wheel changes the   *)
(* expiry of what stays in it, and a reference that moves down the wheels  *)
(* takes its expiry along.                                                 *)
(***************************************************************************)
EXTENDS IdleTimeout, SequenceTheorems, TLAPS

Ref == [entry : Entry, hops : Seq(0 .. BucketSize - 1)]

RingType ==
  [vec : Seq(SUBSET Ref), lo : 0 .. BucketSize - 1, hi : 0 .. BucketSize - 1]

\* A ring that has turned t times: it fills up from its start, and then one place
\* is free, the one before lo.
HasTurned(lo, hi, t) ==
  IF t < BucketSize - 1 THEN lo = 0 /\ hi = t
  ELSE hi = IF lo = 0 THEN BucketSize - 1 ELSE lo - 1

Rings(ring, t) ==
  ring \in RingType /\ vsize(ring) = BucketSize /\ HasTurned(ring.lo, ring.hi, t)

\* How often the wheel has turned.
Turned(i) == (IF turn <= i THEN curtick - 1 ELSE curtick) \div base(i)

\* The index of vec[p] in a ring that begins at lo, the inverse of Place.
IndexFrom(lo, p) == IF p > lo THEN p - 1 - lo ELSE p - 1 - lo + BucketSize

Index(ring, p) == IndexFrom(ring.lo, p)

\* The turn of the ring, which has turned t times, at which vec[p] is dropped.
LastTurn(ring, t, p) == GoesAt(t, Index(ring, p))

\* The tick at which a reference that is in vec[p] of wheel i goes.
Expiry(i, ring, t, p, r) ==
  IF i = 0 THEN LastTurn(ring, t, p)
  ELSE GoesAt(BucketSize * LastTurn(ring, t, p), r.hops[1])

\* No reference outlives the tick that its entry is due ...
NoneIsLate ==
  \A i \in Wheel, p \in 1 .. BucketSize : \A r \in wheels[i].vec[p] :
    Len(r.hops) = i /\ Expiry(i, wheels[i], Turned(i), p, r) <= due[r.entry]

\* ... and until then there is one that goes at that tick.
OneIsOnTime ==
  \A e \in Entry : due[e] > Turned(0) =>
    \E i \in Wheel, p \in 1 .. BucketSize : \E r \in wheels[i].vec[p] :
      r.entry = e /\ Expiry(i, wheels[i], Turned(i), p, r) = due[e]

WheelTypeOK ==
  /\ wheels \in [Wheel -> RingType]
  /\ curtick \in 0 .. MaxTick
  /\ turn \in 0 .. NWheel
  /\ turn < NWheel => curtick > 0
  /\ due \in [Entry -> Nat]

\* The inductive invariant.
WheelInv ==
  /\ WheelTypeOK
  /\ \A i \in Wheel : Rings(wheels[i], Turned(i))
  /\ NoneIsLate
  /\ OneIsOnTime
-----------------------------------------------------------------------------
LEMMA SizeIsNat == BucketSize \in Nat /\ BucketSize > 1 /\ NWheel \in {1, 2}
BY WheelAssumption

LEMMA WheelIs == Wheel \in {{0}, {0, 1}} /\ (1 \in Wheel => NWheel = 2)
BY SizeIsNat DEF Wheel

LEMMA DivisionByOne ==
  ASSUME NEW c \in Int
  PROVE  c % 1 = 0 /\ c \div 1 = c
OBVIOUS

LEMMA Division ==
  ASSUME NEW n \in Nat, n > 0, NEW c \in Int
  PROVE  /\ c \div n \in Int /\ c % n \in 0 .. n - 1
         /\ c = n * (c \div n) + (c % n)
OBVIOUS

LEMMA DivisionOfNext ==
  ASSUME NEW n \in Nat, n > 0, NEW c \in Int
  PROVE  c \div n = IF c % n = 0 THEN (c - 1) \div n + 1 ELSE (c - 1) \div n
<1>1. CASE c % n = 0
  <2>1. c \div n = (c - 1) \div n + 1
    BY <1>1
  <2> QED
    BY <1>1, <2>1
<1>2. CASE c % n # 0
  <2>1. c \div n = (c - 1) \div n
    BY <1>2
  <2> QED
    BY <1>2, <2>1
<1> QED
  BY <1>1, <1>2

LEMMA ProductGrows ==
  ASSUME NEW n \in Nat, NEW x \in Int, NEW y \in Int, x <= y
  PROVE  n * x \in Int /\ n * y \in Int /\ n * x <= n * y
OBVIOUS

LEMMA NatDivision ==
  ASSUME NEW n \in Nat, n > 0, NEW c \in Nat
  PROVE  c \div n \in Nat
OBVIOUS

-----------------------------------------------------------------------------
\* Whatever is put into a ring goes at a turn that is still to come.
LEMMA GoesLater ==
  ASSUME NEW t \in Nat, NEW index \in 0 .. BucketSize - 1
  PROVE  GoesAt(t, index) \in Nat /\ GoesAt(t, index) > t
BY SizeIsNat DEF GoesAt

\* One turn of a ring, in numbers: where lo and hi go, and when vec[p] goes.
After(lo) == IF lo + 1 >= BucketSize THEN lo + 1 - BucketSize ELSE lo + 1

LoAfter(lo, t) == IF t < BucketSize - 1 THEN lo ELSE After(lo)

LEMMA OneTurn ==
  ASSUME NEW t \in Nat, NEW lo \in 0 .. BucketSize - 1, NEW hi \in 0 .. BucketSize - 1,
         HasTurned(lo, hi, t)
  PROVE  /\ LoAfter(lo, t) \in 0 .. BucketSize - 1
         /\ After(hi) \in 0 .. BucketSize - 1
         /\ HasTurned(LoAfter(lo, t), After(hi), t + 1)
BY SizeIsNat DEF HasTurned, After, LoAfter

KeepsItsTurn(lo, hi, t, p) ==
  IF p = hi + 1 \/ (~(t < BucketSize - 1) /\ p = lo + 1)
  THEN GoesAt(t, IndexFrom(lo, p)) = t + 1
  ELSE /\ GoesAt(t, IndexFrom(lo, p)) # t + 1
       /\ GoesAt(t + 1, IndexFrom(LoAfter(lo, t), p)) = GoesAt(t, IndexFrom(lo, p))

LEMMA OneTurnOfPlace ==
  ASSUME NEW t \in Nat, NEW lo \in 0 .. BucketSize - 1, NEW hi \in 0 .. BucketSize - 1,
         HasTurned(lo, hi, t), NEW p \in 1 .. BucketSize
  PROVE  KeepsItsTurn(lo, hi, t, p)
BY SizeIsNat DEF KeepsItsTurn, GoesAt, HasTurned, After, LoAfter, IndexFrom

\* Places and indices of a ring are inverse to each other.
LEMMA PlacesOfRing ==
  ASSUME NEW ring \in RingType, vsize(ring) = BucketSize
  PROVE  /\ \A k \in 0 .. BucketSize - 1 :
              Place(ring, k) \in 1 .. BucketSize /\ Index(ring, Place(ring, k)) = k
         /\ \A p \in 1 .. BucketSize : Index(ring, p) \in 0 .. BucketSize - 1
         /\ Place(ring, 0) = ring.lo + 1
         /\ DOMAIN ring.vec = 1 .. BucketSize
         /\ \A p \in 1 .. BucketSize : ring.vec[p] \subseteq Ref
<1>1. /\ ring.vec \in Seq(SUBSET Ref) /\ Len(ring.vec) = BucketSize
      /\ ring.lo \in 0 .. BucketSize - 1
  BY DEF RingType, vsize
<1>2. \A k \in 0 .. BucketSize - 1 :
        Place(ring, k) = (IF ring.lo + k >= BucketSize THEN ring.lo + k - BucketSize
                          ELSE ring.lo + k) + 1
  BY <1>1, SizeIsNat DEF Place, MOD, vsize
<1>3. \A p : Index(ring, p) = IF p > ring.lo THEN p - 1 - ring.lo
                              ELSE p - 1 - ring.lo + BucketSize
  BY DEF Index, IndexFrom
<1>4. Place(ring, 0) = ring.lo + 1
  BY <1>1, <1>2, SizeIsNat
<1>5. DOMAIN ring.vec = 1 .. BucketSize
      /\ \A p \in 1 .. BucketSize : ring.vec[p] \subseteq Ref
  BY <1>1, LenProperties, ElementOfSeq
<1>6. \A p \in 1 .. BucketSize : Index(ring, p) \in 0 .. BucketSize - 1
  BY <1>1, <1>3, SizeIsNat
<1>7. ASSUME NEW k \in 0 .. BucketSize - 1
      PROVE  Place(ring, k) \in 1 .. BucketSize /\ Index(ring, Place(ring, k)) = k
  <2> DEFINE p == Place(ring, k)
  <2>1. p = (IF ring.lo + k >= BucketSize THEN ring.lo + k - BucketSize
             ELSE ring.lo + k) + 1
    BY <1>2
  <2>2. Index(ring, p) = IF p > ring.lo THEN p - 1 - ring.lo
                         ELSE p - 1 - ring.lo + BucketSize
    BY <1>3
  <2> HIDE DEF p
  <2>3. CASE ring.lo + k >= BucketSize
    BY <1>1, <2>1, <2>2, <2>3, SizeIsNat DEF p
  <2>4. CASE ~(ring.lo + k >= BucketSize)
    BY <1>1, <2>1, <2>2, <2>4, SizeIsNat DEF p
  <2> QED
    BY <2>3, <2>4
<1> QED
  BY <1>4, <1>5, <1>6, <1>7

LEMMA LastTurnIsLater ==
  ASSUME NEW t \in Nat, NEW ring, Rings(ring, t), NEW p \in 1 .. BucketSize
  PROVE  LastTurn(ring, t, p) \in Nat /\ LastTurn(ring, t, p) > t
BY PlacesOfRing, GoesLater DEF Rings, LastTurn

LEMMA FullRing ==
  ASSUME NEW t \in Nat, NEW ring, Rings(ring, t)
  PROVE  full(ring) <=> ~(t < BucketSize - 1)
<1>1. ring.lo \in 0 .. BucketSize - 1 /\ ring.hi \in 0 .. BucketSize - 1
  BY DEF Rings, RingType
<1>2. full(ring) <=> (IF ring.lo <= ring.hi THEN ring.hi - ring.lo
                      ELSE BucketSize - (ring.lo - ring.hi)) = BucketSize - 1
  BY DEF full, size, capacity, Rings
<1>3. IF t < BucketSize - 1 THEN ring.lo = 0 /\ ring.hi = t
      ELSE ring.hi = IF ring.lo = 0 THEN BucketSize - 1 ELSE ring.lo - 1
  BY DEF Rings, HasTurned
<1> QED
  BY <1>1, <1>2, <1>3, SizeIsNat

\* A turn drops what goes at that turn, and the rest is in its place, to go when
\* it would have gone.
LEMMA TurnOfRing ==
  ASSUME NEW t \in Nat, NEW ring, Rings(ring, t)
  PROVE  /\ Rings(Pushed(ring), t + 1)
         /\ \A p \in 1 .. BucketSize :
              IF LastTurn(ring, t, p) = t + 1
              THEN Pushed(ring).vec[p] = {} /\ ring.vec[p] \subseteq Dropped(ring)
              ELSE /\ Pushed(ring).vec[p] = ring.vec[p]
                   /\ LastTurn(Pushed(ring), t + 1, p) = LastTurn(ring, t, p)
         /\ \A r \in Dropped(ring) : \E p \in 1 .. BucketSize :
              r \in ring.vec[p] /\ LastTurn(ring, t, p) = t + 1
<1> DEFINE new == Pushed(ring)
           w == [ring.vec EXCEPT ![Place(ring, 0)] = IF full(ring) THEN {} ELSE @,
                                 ![ring.hi + 1] = {}]
           lo2 == IF full(ring) THEN MOD(ring, ring.lo + 1) ELSE ring.lo
           hi2 == MOD(ring, ring.hi + 1)
           gone(p) == p = ring.hi + 1 \/ (full(ring) /\ p = ring.lo + 1)
<1>1. /\ ring \in RingType /\ vsize(ring) = BucketSize
      /\ ring.lo \in 0 .. BucketSize - 1 /\ ring.hi \in 0 .. BucketSize - 1
      /\ ring.vec \in Seq(SUBSET Ref) /\ Len(ring.vec) = BucketSize
  BY DEF Rings, RingType, vsize
<1>2. HasTurned(ring.lo, ring.hi, t)
  BY DEF Rings
<1>3. full(ring) <=> ~(t < BucketSize - 1)
  BY FullRing
<1>4. /\ Place(ring, 0) = ring.lo + 1 /\ DOMAIN ring.vec = 1 .. BucketSize
      /\ \A p \in 1 .. BucketSize : Index(ring, p) \in 0 .. BucketSize - 1
      /\ \A p \in 1 .. BucketSize : ring.vec[p] \subseteq Ref
  BY <1>1, PlacesOfRing
<1>5. \A i \in Nat : MOD(ring, i) = IF i >= BucketSize THEN i - BucketSize ELSE i
  BY <1>1 DEF MOD
<1>6. lo2 = LoAfter(ring.lo, t)
  BY <1>1, <1>3, <1>5 DEF LoAfter, After
<1>7. hi2 = After(ring.hi)
  BY <1>1, <1>5 DEF After
<1>8. new = [vec |-> w, lo |-> lo2, hi |-> hi2]
  BY DEF Pushed
<1>9. \A p \in 1 .. BucketSize : w[p] = IF gone(p) THEN {} ELSE ring.vec[p]
  BY <1>4
<1>10. w \in Seq(SUBSET Ref) /\ Len(w) = BucketSize
  <2>1. DOMAIN w = 1 .. BucketSize
    BY <1>4
  <2>2. w = [p \in 1 .. BucketSize |-> w[p]]
    BY <2>1
  <2>3. \A p \in 1 .. BucketSize : w[p] \in SUBSET Ref
    BY <1>4, <1>9
  <2> HIDE DEF w
  <2>4. w \in [1 .. BucketSize -> SUBSET Ref]
    BY <2>2, <2>3
  <2> QED
    BY <2>4, SizeIsNat, SeqDef
<1>11. /\ lo2 \in 0 .. BucketSize - 1 /\ hi2 \in 0 .. BucketSize - 1
       /\ HasTurned(lo2, hi2, t + 1)
  BY <1>1, <1>2, <1>6, <1>7, OneTurn
<1> HIDE DEF w, lo2, hi2
<1>12. new \in RingType /\ new.vec = w /\ new.lo = lo2 /\ new.hi = hi2
  BY <1>8, <1>10, <1>11 DEF RingType
<1> HIDE DEF new
<1>13. Rings(new, t + 1)
  BY <1>10, <1>11, <1>12 DEF Rings, vsize
<1>14. \A p \in 1 .. BucketSize :
         IF gone(p) THEN LastTurn(ring, t, p) = t + 1
         ELSE /\ LastTurn(ring, t, p) # t + 1
              /\ LastTurn(new, t + 1, p) = LastTurn(ring, t, p)
  <2> TAKE p \in 1 .. BucketSize
  <2>1. KeepsItsTurn(ring.lo, ring.hi, t, p)
    BY <1>1, <1>2, OneTurnOfPlace
  <2> QED
    BY <1>3, <1>6, <1>12, <2>1 DEF KeepsItsTurn, LastTurn, Index
<1>15. ring.hi + 1 \in 1 .. BucketSize /\ ring.lo + 1 \in 1 .. BucketSize
  BY <1>1, SizeIsNat
<1>16. Dropped(ring) = (IF full(ring) THEN ring.vec[ring.lo + 1] ELSE {})
                       \union ring.vec[ring.hi + 1]
  BY <1>4 DEF Dropped
<1>17. \A p \in 1 .. BucketSize : gone(p) => ring.vec[p] \subseteq Dropped(ring)
  BY <1>16
<1>18. \A r \in Dropped(ring) : \E p \in 1 .. BucketSize : r \in ring.vec[p] /\ gone(p)
  BY <1>15, <1>16
<1> QED
  BY <1>9, <1>12, <1>13, <1>14, <1>17, <1>18 DEF new

\* References that are added to places of a ring.
WithAdded(ring, added) ==
  [ring EXCEPT !.vec = [p \in 1 .. BucketSize |-> ring.vec[p] \union added[p]]]

LEMMA AddedTo ==
  ASSUME NEW t \in Nat, NEW ring, Rings(ring, t),
         NEW added, \A p \in 1 .. BucketSize : added[p] \subseteq Ref
  PROVE  /\ Rings(WithAdded(ring, added), t)
         /\ \A p \in 1 .. BucketSize :
              /\ WithAdded(ring, added).vec[p] = ring.vec[p] \union added[p]
              /\ LastTurn(WithAdded(ring, added), t, p) = LastTurn(ring, t, p)
<1> DEFINE new == WithAdded(ring, added)
           w == [p \in 1 .. BucketSize |-> ring.vec[p] \union added[p]]
<1>1. /\ ring \in RingType /\ vsize(ring) = BucketSize
      /\ HasTurned(ring.lo, ring.hi, t)
  BY DEF Rings
<1>2. \A p \in 1 .. BucketSize : ring.vec[p] \subseteq Ref
  BY <1>1, PlacesOfRing
<1>3. w \in [1 .. BucketSize -> SUBSET Ref]
  BY <1>2
<1>4. w \in Seq(SUBSET Ref) /\ Len(w) = BucketSize
  BY <1>3, SizeIsNat, SeqDef
<1>5. \A p \in 1 .. BucketSize : w[p] = ring.vec[p] \union added[p]
  OBVIOUS
<1>6. new = [ring EXCEPT !.vec = w]
  BY DEF WithAdded
<1> HIDE DEF w, new
<1>7. new \in RingType /\ new.vec = w /\ new.lo = ring.lo /\ new.hi = ring.hi
  BY <1>1, <1>4, <1>6 DEF RingType
<1>8. Rings(new, t)
  BY <1>1, <1>4, <1>7 DEF Rings, vsize
<1>9. \A p : LastTurn(new, t, p) = LastTurn(ring, t, p)
  BY <1>7 DEF LastTurn, Index
<1> QED
  BY <1>5, <1>7, <1>8, <1>9 DEF new

-----------------------------------------------------------------------------
\* When the wheels have turned.
LEMMA TurnedIs ==
  ASSUME WheelTypeOK
  PROVE  /\ 0 \in Wheel /\ Wheel \subseteq {0, 1} /\ NWheel \in {1, 2}
         /\ 1 \in Wheel => NWheel = 2
         /\ curtick \in Nat
         /\ \A i \in Wheel : Turned(i) \in Nat
         /\ Turned(0) = IF turn = 0 THEN curtick - 1 ELSE curtick
         /\ 1 \in Wheel =>
              Turned(1) = (IF turn <= 1 THEN curtick - 1 ELSE curtick) \div BucketSize
<1>1. 0 \in Wheel /\ Wheel \subseteq {0, 1} /\ NWheel \in {1, 2} /\ (1 \in Wheel => NWheel = 2)
  BY WheelIs, SizeIsNat
<1>2. curtick \in Nat /\ turn \in Nat /\ turn <= NWheel /\ (turn < NWheel => curtick > 0)
  BY <1>1, BoundsAssumption DEF WheelTypeOK
<1>3. ASSUME NEW i \in Wheel
      PROVE  (IF turn <= i THEN curtick - 1 ELSE curtick) \in Nat
  <2>1. i \in Int /\ i < NWheel /\ NWheel \in Int
    BY <1>1
  <2>2. CASE turn <= i
    <3>1. turn < NWheel
      BY <1>2, <2>1, <2>2
    <3> QED
      BY <1>2, <2>2, <3>1
  <2>3. CASE ~(turn <= i)
    BY <1>2, <2>3
  <2> QED
    BY <2>2, <2>3
<1>4. Turned(0) = IF turn = 0 THEN curtick - 1 ELSE curtick
  <2>1. Turned(0) = (IF turn <= 0 THEN curtick - 1 ELSE curtick) \div 1
    BY DEF Turned, base
  <2>2. (turn <= 0) <=> (turn = 0)
    BY <1>2
  <2>3. (IF turn = 0 THEN curtick - 1 ELSE curtick) \in Int
    BY <1>2
  <2> QED
    BY <2>1, <2>2, <2>3, DivisionByOne
<1>5. Turned(1) = (IF turn <= 1 THEN curtick - 1 ELSE curtick) \div BucketSize
  BY DEF Turned, base
<1>6. ASSUME NEW i \in Wheel PROVE Turned(i) \in Nat
  <2>1. CASE i = 0
    BY <1>3, <1>4, <2>1, <1>2
  <2>2. CASE i = 1
    BY <1>3, <1>5, <2>2, NatDivision, SizeIsNat
  <2> QED
    BY <1>1, <2>1, <2>2
<1> QED
  BY <1>1, <1>2, <1>4, <1>5, <1>6

\* A reference of wheel 0 goes after the turns that wheel has made, and one of
\* wheel 1 after the tick at which it moves down.
LEMMA ExpiryIsLater ==
  ASSUME NEW t \in Nat, NEW ring, Rings(ring, t), NEW p \in 1 .. BucketSize,
         NEW i \in {0, 1}, NEW r \in Ref, Len(r.hops) = i
  PROVE  /\ Expiry(i, ring, t, p, r) \in Nat
         /\ i = 0 => Expiry(i, ring, t, p, r) > t
         /\ i = 1 => /\ r.hops[1] \in 0 .. BucketSize - 1
                     /\ Expiry(i, ring, t, p, r) > BucketSize * LastTurn(ring, t, p)
                     /\ BucketSize * LastTurn(ring, t, p) >= BucketSize * (t + 1)
<1> DEFINE g == LastTurn(ring, t, p)
<1>1. g \in Nat /\ g > t
  BY LastTurnIsLater
<1>2. r.hops \in Seq(0 .. BucketSize - 1)
  BY DEF Ref
<1> HIDE DEF g
<1>3. CASE i = 0
  BY <1>1, <1>3 DEF Expiry, g
<1>4. CASE i = 1
  <2>1. r.hops[1] \in 0 .. BucketSize - 1
    <3>1. 1 \in 1 .. Len(r.hops)
      BY <1>4
    <3> QED
      BY <1>2, <3>1, ElementOfSeq
  <2>2. BucketSize * g \in Nat
    BY <1>1, SizeIsNat
  <2>3. Expiry(i, ring, t, p, r) = GoesAt(BucketSize * g, r.hops[1])
    BY <1>4 DEF Expiry, g
  <2>4. BucketSize * g >= BucketSize * (t + 1)
    <3>1. t + 1 <= g /\ t + 1 \in Int /\ g \in Int
      BY <1>1
    <3>2. BucketSize * (t + 1) <= BucketSize * g
      BY <3>1, SizeIsNat, ProductGrows
    <3>3. BucketSize * (t + 1) \in Int /\ BucketSize * g \in Int
      BY <3>1, SizeIsNat
    <3> QED
      BY <3>2, <3>3
  <2>5. Expiry(i, ring, t, p, r) \in Nat /\ Expiry(i, ring, t, p, r) > BucketSize * g
    BY <2>1, <2>2, <2>3, GoesLater
  <2> QED
    BY <1>4, <2>1, <2>4, <2>5 DEF g
<1> QED
  BY <1>3, <1>4

\* Whatever is in a place of a wheel is a reference.
LEMMA HeldRefs ==
  ASSUME \A i \in Wheel : Rings(wheels[i], Turned(i)),
         NEW i \in Wheel, NEW p \in 1 .. BucketSize, NEW r \in wheels[i].vec[p]
  PROVE  r \in Ref
BY PlacesOfRing DEF Rings

-----------------------------------------------------------------------------
LEMMA InitWheelInv == Init => WheelInv
<1> SUFFICES ASSUME Init PROVE WheelInv
  OBVIOUS
<1> DEFINE w == [p \in 1 .. BucketSize |-> {}]
           ring == [vec |-> w, lo |-> 0, hi |-> 0]
<1>1. \A i \in Wheel : wheels[i] = ring
  BY DEF Init, NewRing
<1>2. w \in [1 .. BucketSize -> SUBSET Ref]
  OBVIOUS
<1>3. w \in Seq(SUBSET Ref) /\ Len(w) = BucketSize
  BY <1>2, SizeIsNat, SeqDef
<1>4. \A p \in 1 .. BucketSize : w[p] = {}
  OBVIOUS
<1> HIDE DEF w
<1>5. ring \in RingType /\ vsize(ring) = BucketSize /\ ring.vec = w
  BY <1>3, SizeIsNat DEF RingType, vsize
<1>6. Rings(ring, 0)
  BY <1>5, SizeIsNat DEF Rings, HasTurned
<1> HIDE DEF ring
<1>7. WheelTypeOK
  <2>1. wheels \in [Wheel -> RingType]
    BY <1>5 DEF Init, NewRing, ring, w
  <2> QED
    BY <2>1, SizeIsNat, BoundsAssumption DEF Init, WheelTypeOK
<1>8. ASSUME NEW i \in Wheel PROVE Turned(i) = 0
  <2>1. i \in {0, 1} /\ i < NWheel /\ turn = NWheel /\ curtick = 0
    BY <1>7, TurnedIs DEF Init
  <2>2. Turned(i) = 0 \div base(i)
    BY <2>1, SizeIsNat DEF Turned
  <2>3. base(i) \in Nat /\ base(i) > 0
    BY <2>1, SizeIsNat DEF base
  <2> QED
    BY <2>2, <2>3
<1>9. NoneIsLate
  BY <1>1, <1>4, <1>5 DEF NoneIsLate
<1>10. OneIsOnTime
  BY <1>7, <1>8, TurnedIs DEF OneIsOnTime, Init
<1> QED
  BY <1>1, <1>6, <1>7, <1>8, <1>9, <1>10 DEF WheelInv

\* The clock goes on, and no wheel has turned yet.
LEMMA TickKeepsInv ==
  ASSUME WheelInv, Tick
  PROVE  WheelInv'
<1>1. /\ turn = NWheel /\ turn' = 0 /\ curtick' = curtick + 1 /\ curtick < MaxTick
      /\ UNCHANGED <<wheels, due, inserts>>
  BY DEF Tick
<1>2. WheelTypeOK /\ curtick \in Nat /\ Wheel \subseteq {0, 1} /\ NWheel \in {1, 2}
      /\ (1 \in Wheel => NWheel = 2)
  BY TurnedIs DEF WheelInv
<1>3. WheelTypeOK'
  BY <1>1, <1>2, BoundsAssumption DEF WheelTypeOK
<1>4. ASSUME NEW i \in Wheel PROVE Turned(i)' = Turned(i)
  <2>1. i \in Nat /\ ~(NWheel <= i)
    BY <1>2
  <2>2. Turned(i) = curtick \div base(i)
    BY <1>1, <2>1 DEF Turned
  <2>3. Turned(i)' = (curtick' - 1) \div base(i)
    <3>1. 0 <= i
      BY <2>1
    <3>2. turn' <= i
      BY <1>1, <3>1
    <3> QED
      BY <3>2 DEF Turned, base
  <2>4. curtick' - 1 = curtick
    BY <1>1, <1>2
  <2> QED
    BY <2>2, <2>3, <2>4
<1>5. (\A i \in Wheel : Rings(wheels[i], Turned(i)))'
  BY <1>1, <1>4 DEF WheelInv
<1>6. NoneIsLate'
  BY <1>1, <1>4 DEF WheelInv, NoneIsLate
<1>7. OneIsOnTime'
  <2>1. Turned(0)' = Turned(0)
    BY <1>2, <1>4, TurnedIs
  <2> QED
    BY <1>1, <1>4, <2>1 DEF WheelInv, OneIsOnTime
<1> QED
  BY <1>3, <1>5, <1>6, <1>7 DEF WheelInv

\* Wheel 0 turns at every tick.
LEMMA FirstTurnKeepsInv ==
  ASSUME WheelInv, Turn(0)
  PROVE  WheelInv'
<1> DEFINE ring == wheels[0]
           new  == Pushed(ring)
           t    == Turned(0)
<1>1. /\ WheelTypeOK /\ 0 \in Wheel /\ Wheel \subseteq {0, 1} /\ NWheel \in {1, 2}
      /\ 1 \in Wheel => NWheel = 2
      /\ curtick \in Nat /\ t \in Nat
  BY TurnedIs DEF WheelInv
<1>2. turn = 0 /\ turn' = 1 /\ curtick' = curtick /\ due' = due
  BY DEF Turn
<1>3. t = curtick - 1
  BY <1>1, <1>2, TurnedIs
<1>4. wheels' = [wheels EXCEPT ![0] = new]
  <2>1. curtick % base(0) = 0
    BY <1>1, DivisionByOne DEF base
  <2>2. wheels' = [Moved(0, Dropped(wheels[0])) EXCEPT ![0] = Pushed(@)]
    BY <2>1 DEF Turn
  <2>3. Moved(0, Dropped(wheels[0])) = wheels
    <3>1. \A w \in Wheel : w # 0 - 1
      BY <1>1
    <3>2. Moved(0, Dropped(wheels[0])) = [w \in Wheel |-> wheels[w]]
      BY <3>1 DEF Moved
    <3> QED
      BY <1>1, <3>2 DEF WheelTypeOK
  <2> QED
    BY <2>2, <2>3
<1>5. Rings(ring, t)
  BY <1>1 DEF WheelInv
<1> HIDE DEF t
<1>6. /\ Rings(new, t + 1)
      /\ \A p \in 1 .. BucketSize :
           IF LastTurn(ring, t, p) = t + 1
           THEN new.vec[p] = {} /\ ring.vec[p] \subseteq Dropped(ring)
           ELSE new.vec[p] = ring.vec[p] /\ LastTurn(new, t + 1, p) = LastTurn(ring, t, p)
  BY <1>1, <1>5, TurnOfRing
<1> HIDE DEF new
<1>7. wheels'[0] = new /\ \A i \in Wheel : i # 0 => wheels'[i] = wheels[i]
  BY <1>1, <1>4 DEF WheelTypeOK
<1>8. WheelTypeOK'
  <2>1. wheels' \in [Wheel -> RingType]
    BY <1>1, <1>4, <1>6 DEF WheelTypeOK, Rings
  <2>2. curtick > 0
    BY <1>1, <1>2 DEF WheelTypeOK
  <2> QED
    BY <1>1, <1>2, <2>1, <2>2 DEF WheelTypeOK
<1>9. Turned(0)' = t + 1
  <2>1. Turned(0)' = curtick \div 1
    BY <1>2 DEF Turned, base
  <2> QED
    BY <1>1, <1>3, <2>1, DivisionByOne
<1>10. 1 \in Wheel => Turned(1)' = Turned(1)
  <2>1. Turned(1)' = (curtick - 1) \div BucketSize /\ Turned(1) = (curtick - 1) \div BucketSize
    BY <1>1, <1>2 DEF Turned, base
  <2> QED
    BY <2>1
<1>11. (\A i \in Wheel : Rings(wheels[i], Turned(i)))'
  BY <1>1, <1>6, <1>7, <1>9, <1>10 DEF WheelInv
<1>12. ASSUME NEW i \in Wheel, NEW p \in 1 .. BucketSize, NEW r \in wheels'[i].vec[p]
       PROVE  /\ r \in wheels[i].vec[p]
              /\ Expiry(i, wheels'[i], Turned(i)', p, r) =
                   Expiry(i, wheels[i], Turned(i), p, r)
  <2>1. CASE i = 0
    BY <1>6, <1>7, <1>9, <1>12, <2>1 DEF Expiry, t
  <2>2. CASE i = 1
    BY <1>7, <1>10, <1>12, <2>2
  <2> QED
    BY <1>1, <2>1, <2>2
<1>13. NoneIsLate'
  BY <1>2, <1>12 DEF WheelInv, NoneIsLate
<1>14. OneIsOnTime'
  <2> SUFFICES ASSUME NEW e \in Entry, due[e] > t + 1
               PROVE  \E i \in Wheel, p \in 1 .. BucketSize : \E r \in wheels'[i].vec[p] :
                        r.entry = e /\ Expiry(i, wheels'[i], Turned(i)', p, r) = due[e]
    BY <1>2, <1>9 DEF OneIsOnTime
  <2>1. due[e] \in Nat /\ due[e] > t
    BY <1>1 DEF WheelTypeOK
  <2>2. PICK i \in Wheel, p \in 1 .. BucketSize : \E r \in wheels[i].vec[p] :
          r.entry = e /\ Expiry(i, wheels[i], Turned(i), p, r) = due[e]
    BY <2>1 DEF WheelInv, OneIsOnTime, t
  <2>3. PICK r \in wheels[i].vec[p] :
          r.entry = e /\ Expiry(i, wheels[i], Turned(i), p, r) = due[e]
    BY <2>2
  <2>4. r \in wheels'[i].vec[p]
    <3>1. CASE i = 0
      <4>1. LastTurn(ring, t, p) = due[e]
        BY <2>3, <3>1 DEF Expiry, t
      <4>2. LastTurn(ring, t, p) # t + 1
        BY <1>1, <2>1, <4>1
      <4> QED
        BY <1>6, <1>7, <2>3, <3>1, <4>2
    <3>2. CASE i = 1
      BY <1>7, <2>3, <3>2
    <3> QED
      BY <1>1, <3>1, <3>2
  <2> QED
    BY <1>12, <2>3, <2>4
<1> QED
  BY <1>8, <1>11, <1>13, <1>14 DEF WheelInv

\* A tick that is no multiple of BucketSize does not turn wheel 1.
LEMMA NoSecondTurnKeepsInv ==
  ASSUME WheelInv, Turn(1), 1 \in Wheel, curtick % BucketSize # 0
  PROVE  WheelInv'
<1>1. /\ WheelTypeOK /\ 0 \in Wheel /\ Wheel \subseteq {0, 1} /\ NWheel = 2
      /\ curtick \in Nat
  BY TurnedIs DEF WheelInv
<1>2. turn = 1 /\ turn' = 2 /\ curtick' = curtick /\ due' = due /\ wheels' = wheels
  BY DEF Turn, base
<1>3. WheelTypeOK'
  BY <1>1, <1>2 DEF WheelTypeOK
<1>4. Turned(0)' = Turned(0)
  <2>1. Turned(0)' = curtick \div 1 /\ Turned(0) = curtick \div 1
    BY <1>2 DEF Turned, base
  <2> QED
    BY <2>1
<1>5. Turned(1)' = Turned(1)
  <2>1. Turned(1)' = curtick \div BucketSize /\ Turned(1) = (curtick - 1) \div BucketSize
    BY <1>1, <1>2 DEF Turned, base
  <2>2. curtick \div BucketSize = (curtick - 1) \div BucketSize
    BY <1>1, DivisionOfNext, SizeIsNat
  <2> QED
    BY <2>1, <2>2
<1>6. \A i \in Wheel : Turned(i)' = Turned(i)
  BY <1>1, <1>4, <1>5
<1>7. (\A i \in Wheel : Rings(wheels[i], Turned(i)))'
  BY <1>2, <1>6 DEF WheelInv
<1>8. NoneIsLate'
  BY <1>2, <1>6 DEF WheelInv, NoneIsLate
<1>9. OneIsOnTime'
  BY <1>2, <1>4, <1>6 DEF WheelInv, OneIsOnTime
<1> QED
  BY <1>3, <1>7, <1>8, <1>9 DEF WheelInv

\* At a multiple of BucketSize wheel 1 turns: the references that it drops go down
\* to wheel 0, where they go at the tick they were to go.
LEMMA SecondTurnKeepsInv ==
  ASSUME WheelInv, Turn(1), 1 \in Wheel, curtick % BucketSize = 0
  PROVE  WheelInv'
<1> DEFINE low   == wheels[0]
           high  == wheels[1]
           t     == Turned(1)
           moved == Dropped(high)
           down(r) == [r EXCEPT !.hops = SubSeq(@, 1, 0)]
           added == [p \in 1 .. BucketSize |->
                       {down(r) : r \in {q \in moved : Place(low, q.hops[1]) = p}}]
           new   == WithAdded(low, added)
<1>1. /\ WheelTypeOK /\ 0 \in Wheel /\ Wheel \subseteq {0, 1} /\ NWheel = 2
      /\ curtick \in Nat /\ t \in Nat
  BY TurnedIs DEF WheelInv
<1>2. turn = 1 /\ turn' = 2 /\ curtick' = curtick /\ due' = due
  BY DEF Turn
<1>3. Turned(0) = curtick /\ Turned(0)' = curtick
  <2>1. Turned(0)' = curtick \div 1 /\ Turned(0) = curtick \div 1
    BY <1>2 DEF Turned, base
  <2> QED
    BY <1>1, <2>1, DivisionByOne
<1>4. Turned(1)' = t + 1 /\ BucketSize * (t + 1) = curtick
  <2>1. Turned(1)' = curtick \div BucketSize /\ t = (curtick - 1) \div BucketSize
    BY <1>1, <1>2 DEF Turned, base
  <2>2. curtick \div BucketSize = (curtick - 1) \div BucketSize + 1
    BY <1>1, DivisionOfNext, SizeIsNat
  <2>3. curtick = BucketSize * (curtick \div BucketSize) + (curtick % BucketSize)
        /\ curtick \div BucketSize \in Int
    BY <1>1, Division, SizeIsNat
  <2>4. BucketSize * (curtick \div BucketSize) = curtick
    BY <1>1, <2>3, SizeIsNat
  <2> QED
    BY <2>1, <2>2, <2>4
<1>5. Rings(low, curtick) /\ Rings(high, t)
  BY <1>1, <1>3 DEF WheelInv
<1> HIDE DEF t
<1>6. \A r \in moved : \E p \in 1 .. BucketSize :
        r \in high.vec[p] /\ LastTurn(high, t, p) = t + 1
  BY <1>1, <1>5, TurnOfRing
<1>7. \A r \in moved : /\ r \in Ref /\ Len(r.hops) = 1
                       /\ r.hops[1] \in 0 .. BucketSize - 1
                       /\ down(r) \in Ref /\ Len(down(r).hops) = 0
                       /\ down(r).entry = r.entry
  <2> TAKE r \in moved
  <2>1. PICK p \in 1 .. BucketSize : r \in high.vec[p]
    BY <1>6
  <2>2. r \in Ref
    BY <2>1, HeldRefs DEF WheelInv
  <2>3. Len(r.hops) = 1
    BY <2>1 DEF WheelInv, NoneIsLate
  <2>4. r.hops[1] \in 0 .. BucketSize - 1
    <3>1. 1 \in 1 .. Len(r.hops) /\ r.hops \in Seq(0 .. BucketSize - 1)
      BY <2>2, <2>3 DEF Ref
    <3> QED
      BY <3>1, ElementOfSeq
  <2>5. SubSeq(r.hops, 1, 0) \in Seq(0 .. BucketSize - 1) /\ Len(SubSeq(r.hops, 1, 0)) = 0
    <3>1. SubSeq(r.hops, 1, 0) = << >>
      BY SubSeqEmpty
    <3> QED
      BY <3>1, EmptySeq
  <2> QED
    BY <2>2, <2>3, <2>4, <2>5 DEF Ref
<1>8. \A p \in 1 .. BucketSize : \A r \in added[p] : \E q \in moved :
        Place(low, q.hops[1]) = p /\ r = down(q)
  <2> HIDE DEF down, moved
  <2> QED
    OBVIOUS
<1>9. \A p \in 1 .. BucketSize : added[p] \subseteq Ref
  <2> HIDE DEF added, moved, down
  <2> QED
    BY <1>7, <1>8
<1>10. \A q \in moved : /\ Place(low, q.hops[1]) \in 1 .. BucketSize
                        /\ Index(low, Place(low, q.hops[1])) = q.hops[1]
                        /\ down(q) \in added[Place(low, q.hops[1])]
  BY <1>5, <1>7, PlacesOfRing DEF Rings
<1>11. wheels' = [[wheels EXCEPT ![0] = new] EXCEPT ![1] = Pushed(high)]
  <2>1. curtick % base(1) = 0
    BY DEF base
  <2>2. wheels' = [Moved(1, moved) EXCEPT ![1] = Pushed(@)]
    BY <2>1 DEF Turn
  <2>3. \A w \in Wheel : (w # 1 - 1) <=> (w # 0)
    OBVIOUS
  <2>4. DOMAIN low.vec = 1 .. BucketSize
    BY <1>5, PlacesOfRing DEF Rings
  <2> DEFINE sunk(w) == [wheels[w] EXCEPT !.vec =
               [p \in DOMAIN @ |->
                  @[p] \union {[r EXCEPT !.hops = SubSeq(@, 1, 1 - 1)] :
                                 r \in {q \in moved : Place(wheels[w], q.hops[1]) = p}}]]
  <2>5. Moved(1, moved) = [w \in Wheel |-> IF w # 1 - 1 THEN wheels[w] ELSE sunk(w)]
    BY DEF Moved
  <2>6. sunk(0) = new
    <3>1. 1 - 1 = 0
      OBVIOUS
    <3>2. sunk(0) = [low EXCEPT !.vec = [p \in 1 .. BucketSize |->
                       low.vec[p] \union {down(r) : r \in {q \in moved :
                                                        Place(low, q.hops[1]) = p}}]]
      BY <2>4, <3>1 DEF down
    <3>3. \A p \in 1 .. BucketSize :
            added[p] = {down(r) : r \in {q \in moved : Place(low, q.hops[1]) = p}}
      OBVIOUS
    <3> HIDE DEF sunk, added, moved
    <3> QED
      BY <3>2, <3>3 DEF WithAdded
  <2> HIDE DEF new, moved, sunk
  <2>7. Moved(1, moved) = [wheels EXCEPT ![0] = new]
    BY <1>1, <2>3, <2>5, <2>6 DEF WheelTypeOK
  <2>8. Moved(1, moved)[1] = high
    BY <1>1, <2>7 DEF WheelTypeOK
  <2> HIDE DEF high
  <2> QED
    BY <2>2, <2>7, <2>8
<1>12. /\ Rings(new, curtick)
       /\ \A p \in 1 .. BucketSize :
            /\ new.vec[p] = low.vec[p] \union added[p]
            /\ LastTurn(new, curtick, p) = LastTurn(low, curtick, p)
  <2> HIDE DEF added
  <2> QED
    BY <1>1, <1>5, <1>9, AddedTo
<1> HIDE DEF added, moved
<1>13. /\ Rings(Pushed(high), t + 1)
       /\ \A p \in 1 .. BucketSize :
            IF LastTurn(high, t, p) = t + 1
            THEN Pushed(high).vec[p] = {} /\ high.vec[p] \subseteq moved
            ELSE /\ Pushed(high).vec[p] = high.vec[p]
                 /\ LastTurn(Pushed(high), t + 1, p) = LastTurn(high, t, p)
  BY <1>1, <1>5, TurnOfRing DEF moved
<1> HIDE DEF new
<1>14. wheels'[0] = new /\ wheels'[1] = Pushed(high)
  BY <1>1, <1>11 DEF WheelTypeOK
<1>15. WheelTypeOK'
  <2>1. wheels' \in [Wheel -> RingType]
    BY <1>1, <1>11, <1>12, <1>13 DEF WheelTypeOK, Rings
  <2> QED
    BY <1>1, <1>2, <2>1 DEF WheelTypeOK
<1>16. (\A i \in Wheel : Rings(wheels[i], Turned(i)))'
  BY <1>1, <1>3, <1>4, <1>12, <1>13, <1>14
<1>17. ASSUME NEW q \in moved, NEW p \in 1 .. BucketSize, q \in high.vec[p],
              LastTurn(high, t, p) = t + 1
       PROVE  /\ Expiry(1, high, t, p, q) = GoesAt(curtick, q.hops[1])
              /\ Expiry(0, new, curtick, Place(low, q.hops[1]), down(q)) =
                   GoesAt(curtick, q.hops[1])
  <2>1. Expiry(1, high, t, p, q) = GoesAt(BucketSize * (t + 1), q.hops[1])
    BY <1>17 DEF Expiry
  <2>2. LastTurn(low, curtick, Place(low, q.hops[1])) = GoesAt(curtick, q.hops[1])
    BY <1>10 DEF LastTurn
  <2> QED
    BY <1>4, <1>10, <1>12, <2>1, <2>2 DEF Expiry
<1>18. NoneIsLate'
  <2> SUFFICES ASSUME NEW i \in Wheel, NEW p \in 1 .. BucketSize,
                      NEW r \in wheels'[i].vec[p]
               PROVE  /\ Len(r.hops) = i
                      /\ Expiry(i, wheels'[i], Turned(i)', p, r) <= due[r.entry]
    BY <1>2 DEF NoneIsLate
  <2>1. CASE i = 0 /\ r \in low.vec[p]
    <3>1. Len(r.hops) = 0 /\ Expiry(0, low, curtick, p, r) <= due[r.entry]
      BY <1>1, <1>3, <2>1 DEF WheelInv, NoneIsLate
    <3>2. Expiry(0, new, curtick, p, r) = Expiry(0, low, curtick, p, r)
      BY <1>12 DEF Expiry
    <3> QED
      BY <1>3, <1>14, <2>1, <3>1, <3>2
  <2>2. CASE i = 0 /\ r \in added[p]
    <3>1. PICK q \in moved : Place(low, q.hops[1]) = p /\ r = down(q)
      BY <1>8, <2>2
    <3>2. PICK k \in 1 .. BucketSize : q \in high.vec[k] /\ LastTurn(high, t, k) = t + 1
      BY <1>6
    <3>3. Expiry(1, high, t, k, q) <= due[q.entry]
      BY <3>2 DEF WheelInv, NoneIsLate, t
    <3>4. Expiry(0, new, curtick, p, r) <= due[r.entry]
      BY <1>7, <1>17, <3>1, <3>2, <3>3
    <3>5. Len(r.hops) = 0
      BY <1>7, <3>1
    <3> QED
      BY <1>3, <1>14, <2>2, <3>4, <3>5
  <2>3. CASE i = 1
    <3>1. r \in Pushed(high).vec[p]
      BY <1>14, <2>3
    <3>2. r \in high.vec[p] /\ LastTurn(Pushed(high), t + 1, p) = LastTurn(high, t, p)
      BY <1>13, <3>1
    <3>3. Len(r.hops) = 1 /\ Expiry(1, high, t, p, r) <= due[r.entry]
      BY <3>2 DEF WheelInv, NoneIsLate, t
    <3>4. Expiry(1, Pushed(high), t + 1, p, r) = Expiry(1, high, t, p, r)
      BY <3>2 DEF Expiry
    <3> QED
      BY <1>4, <1>14, <2>3, <3>3, <3>4
  <2> QED
    BY <1>1, <1>12, <1>14, <2>1, <2>2, <2>3
<1>19. OneIsOnTime'
  <2> SUFFICES ASSUME NEW e \in Entry, due[e] > curtick
               PROVE  \E i \in Wheel, p \in 1 .. BucketSize : \E r \in wheels'[i].vec[p] :
                        r.entry = e /\ Expiry(i, wheels'[i], Turned(i)', p, r) = due[e]
    BY <1>2, <1>3 DEF OneIsOnTime
  <2>1. PICK i \in Wheel, p \in 1 .. BucketSize : \E r \in wheels[i].vec[p] :
          r.entry = e /\ Expiry(i, wheels[i], Turned(i), p, r) = due[e]
    BY <1>3 DEF WheelInv, OneIsOnTime
  <2>2. PICK r \in wheels[i].vec[p] :
          r.entry = e /\ Expiry(i, wheels[i], Turned(i), p, r) = due[e]
    BY <2>1
  <2>3. CASE i = 0
    <3>1. r \in wheels'[0].vec[p]
      BY <1>12, <1>14, <2>2, <2>3
    <3>2. Expiry(0, wheels'[0], Turned(0)', p, r) = due[e]
      BY <1>3, <1>12, <1>14, <2>2, <2>3 DEF Expiry
    <3> QED
      BY <1>1, <2>2, <3>1, <3>2
  <2>4. CASE i = 1 /\ LastTurn(high, t, p) # t + 1
    <3>1. r \in wheels'[1].vec[p]
      BY <1>13, <1>14, <2>2, <2>4
    <3>2. Expiry(1, wheels'[1], Turned(1)', p, r) = due[e]
      BY <1>4, <1>13, <1>14, <2>2, <2>4 DEF Expiry, t
    <3> QED
      BY <2>2, <3>1, <3>2
  <2>5. CASE i = 1 /\ LastTurn(high, t, p) = t + 1
    <3>1. r \in moved /\ r \in high.vec[p]
      BY <1>13, <2>2, <2>5
    <3> DEFINE k == Place(low, r.hops[1])
    <3>2. k \in 1 .. BucketSize /\ down(r) \in wheels'[0].vec[k]
      BY <1>10, <1>12, <1>14, <3>1
    <3>3. Expiry(1, high, t, p, r) = due[e]
      BY <2>2, <2>5 DEF t
    <3>4. Expiry(0, wheels'[0], Turned(0)', k, down(r)) = due[e]
      BY <1>3, <1>14, <1>17, <2>5, <3>1, <3>3
    <3>5. down(r).entry = e
      BY <1>7, <2>2, <3>1
    <3> QED
      BY <1>1, <3>2, <3>4, <3>5
  <2> QED
    BY <1>1, <2>3, <2>4, <2>5
<1> QED
  BY <1>15, <1>16, <1>18, <1>19 DEF WheelInv

\* An insertion puts a reference where it goes when ExpiresAt says, and moves none.
LEMMA InsertKeepsInv ==
  ASSUME WheelInv, NEW e \in Entry, NEW delay \in Delays, Insert(e, delay)
  PROVE  WheelInv'
<1> DEFINE i     == Landing(delay).wheel
           index == Landing(delay).index
           ring  == wheels[i]
           t     == Turned(i)
           k     == Place(ring, index)
           r     == [entry |-> e, hops |-> Hops(delay)]
           added == [p \in 1 .. BucketSize |-> IF p = k THEN {r} ELSE {}]
           new   == WithAdded(ring, added)
           x     == ExpiresAt(curtick, delay)
<1>1. /\ WheelTypeOK /\ 0 \in Wheel /\ Wheel \subseteq {0, 1} /\ NWheel \in {1, 2}
      /\ 1 \in Wheel => NWheel = 2
      /\ curtick \in Nat
  BY TurnedIs DEF WheelInv
<1>2. /\ turn = NWheel /\ turn' = turn /\ curtick' = curtick
      /\ wheels' = [wheels EXCEPT ![i] = InsertAt(@, index, {r})]
      /\ due' = [due EXCEPT ![e] = IF @ > x THEN @ ELSE x]
  BY DEF Insert
<1>3. delay \in Nat /\ delay > 0
  BY WheelAssumption
<1>4. /\ i \in Wheel /\ index \in 0 .. BucketSize - 1
      /\ i = IF delay <= BucketSize THEN 0 ELSE NWheel - 1
      /\ index = IF delay <= BucketSize THEN delay - 1 ELSE BucketSize - 1
  <2>1. CASE delay <= BucketSize
    <3>1. i = 0 /\ index = delay - 1
      BY <2>1 DEF Landing
    <3> QED
      BY <1>1, <1>3, <2>1, <3>1, SizeIsNat
  <2>2. CASE ~(delay <= BucketSize)
    <3>1. i = NWheel - 1 /\ index = BucketSize - 1
      BY <2>2 DEF Landing
    <3>2. NWheel - 1 \in Wheel
      BY <1>1 DEF Wheel
    <3> QED
      BY <2>2, <3>1, <3>2, SizeIsNat
  <2> QED
    BY <2>1, <2>2
<1>5. r \in Ref /\ Len(r.hops) = i /\ r.entry = e
      /\ (i = 1 => r.hops[1] = (delay - 1) % BucketSize /\ ~(delay <= BucketSize))
  <2>1. CASE i = 0
    <3>1. Hops(delay) = << >>
      BY <2>1 DEF Hops
    <3>2. Hops(delay) \in Seq(0 .. BucketSize - 1) /\ Len(Hops(delay)) = 0
      BY <3>1, EmptySeq
    <3> QED
      BY <2>1, <3>2 DEF Ref
  <2>2. CASE i = 1
    <3>1. Hops(delay) = <<(delay - 1) % BucketSize>>
      BY <2>2 DEF Hops
    <3>2. (delay - 1) % BucketSize \in 0 .. BucketSize - 1
      BY <1>3, Division, SizeIsNat
    <3>3. /\ Hops(delay) \in Seq(0 .. BucketSize - 1) /\ Len(Hops(delay)) = 1
          /\ Hops(delay)[1] = (delay - 1) % BucketSize
      BY <3>1, <3>2
    <3>4. ~(delay <= BucketSize)
      BY <1>4, <2>2
    <3> QED
      BY <2>2, <3>3, <3>4 DEF Ref
  <2> QED
    BY <1>1, <1>4, <2>1, <2>2
<1>6. \A j \in Wheel : Turned(j) \in Nat /\ Turned(j)' = Turned(j)
  BY <1>1, <1>2, TurnedIs DEF Turned, base
<1>7. Rings(ring, t) /\ t \in Nat /\ ring \in RingType /\ vsize(ring) = BucketSize
  BY <1>4, <1>6 DEF WheelInv, Rings
<1>8. k \in 1 .. BucketSize /\ Index(ring, k) = index /\ DOMAIN ring.vec = 1 .. BucketSize
  BY <1>4, <1>7, PlacesOfRing
<1>9. Expiry(i, ring, t, k, r) = x
  <2>1. LastTurn(ring, t, k) = GoesAt(t, index)
    BY <1>8 DEF LastTurn
  <2>2. CASE i = 0
    <3>1. t = curtick
      BY <1>1, <1>2, <2>2, TurnedIs
    <3>2. ~(delay <= BucketSize) => NWheel = 1
      BY <1>1, <1>4, <2>2
    <3> HIDE DEF i, index, t
    <3> QED
      BY <1>1, <1>4, <2>1, <2>2, <3>1, <3>2 DEF Expiry, ExpiresAt
  <2>3. CASE i = 1
    <3>1. t = curtick \div BucketSize
      BY <1>1, <1>2, <1>4, <2>3, TurnedIs
    <3>2. ~(delay <= BucketSize) /\ NWheel # 1
      BY <1>1, <1>4, <1>5, <2>3
    <3>3. r.hops[1] = (delay - 1) % BucketSize
      BY <1>5, <2>3
    <3> HIDE DEF i, index, t, r
    <3> QED
      BY <1>4, <2>1, <2>3, <3>1, <3>2, <3>3 DEF Expiry, ExpiresAt
  <2> QED
    BY <1>1, <1>4, <2>2, <2>3
<1>10. x \in Nat
  <2> HIDE DEF r, x, i, k, t, ring
  <2>1. i \in {0, 1}
    BY <1>1, <1>4
  <2> QED
    BY <1>5, <1>7, <1>8, <1>9, <2>1, ExpiryIsLater
<1>11. InsertAt(ring, index, {r}) = new
  <2>1. InsertAt(ring, index, {r}) =
          [ring EXCEPT !.vec = [ring.vec EXCEPT ![k] = @ \union {r}]]
    BY <1>7 DEF InsertAt, RingType
  <2>2. [ring.vec EXCEPT ![k] = @ \union {r}] =
          [p \in 1 .. BucketSize |-> ring.vec[p] \union added[p]]
    <3>1. ring.vec = [p \in 1 .. BucketSize |-> ring.vec[p]]
      BY <1>7, <1>8, LenProperties DEF RingType
    <3> HIDE DEF ring, k, r
    <3> QED
      BY <1>8, <3>1
  <2> QED
    BY <2>1, <2>2 DEF WithAdded
<1>12. \A p \in 1 .. BucketSize : added[p] = IF p = k THEN {r} ELSE {}
  OBVIOUS
<1> HIDE DEF added, r, x, k, index, t
<1>13. /\ Rings(new, t)
       /\ \A p \in 1 .. BucketSize :
            /\ new.vec[p] = ring.vec[p] \union added[p]
            /\ LastTurn(new, t, p) = LastTurn(ring, t, p)
  <2>1. \A p \in 1 .. BucketSize : added[p] \subseteq Ref
    BY <1>5, <1>12
  <2> QED
    BY <1>7, <2>1, AddedTo
<1> HIDE DEF new, i
<1>14. wheels' = [wheels EXCEPT ![i] = new]
  BY <1>2, <1>11
<1>15. wheels'[i] = new /\ \A j \in Wheel : j # i => wheels'[j] = wheels[j]
  BY <1>1, <1>4, <1>14 DEF WheelTypeOK
<1>16. due \in [Entry -> Nat] /\ due' \in [Entry -> Nat]
       /\ due'[e] \in {due[e], x} /\ due'[e] >= x
       /\ \A c \in Entry : due'[c] >= due[c] /\ (c # e => due'[c] = due[c])
  BY <1>1, <1>2, <1>10 DEF WheelTypeOK
<1>17. WheelTypeOK'
  <2>1. wheels' \in [Wheel -> RingType]
    BY <1>1, <1>13, <1>14 DEF WheelTypeOK, Rings
  <2> QED
    BY <1>1, <1>2, <1>16, <2>1 DEF WheelTypeOK
<1>18. (\A j \in Wheel : Rings(wheels[j], Turned(j)))'
  BY <1>4, <1>6, <1>13, <1>15 DEF WheelInv, t
<1>19. ASSUME NEW j \in Wheel, NEW p \in 1 .. BucketSize, NEW q
       PROVE  Expiry(j, wheels'[j], Turned(j)', p, q) = Expiry(j, wheels[j], Turned(j), p, q)
  <2>1. CASE j = i
    BY <1>6, <1>13, <1>15, <2>1 DEF Expiry, t
  <2>2. CASE j # i
    BY <1>6, <1>15, <2>2
  <2> QED
    BY <2>1, <2>2
<1>20. ASSUME NEW j \in Wheel, NEW p \in 1 .. BucketSize
       PROVE  wheels'[j].vec[p] =
                wheels[j].vec[p] \union (IF j = i /\ p = k THEN {r} ELSE {})
  BY <1>12, <1>13, <1>15
<1>21. Expiry(i, wheels'[i], Turned(i)', k, r) = x
  BY <1>4, <1>8, <1>9, <1>19 DEF t
<1>22. NoneIsLate'
  <2> SUFFICES ASSUME NEW j \in Wheel, NEW p \in 1 .. BucketSize,
                      NEW q \in wheels'[j].vec[p]
               PROVE  /\ Len(q.hops) = j
                      /\ Expiry(j, wheels'[j], Turned(j)', p, q) <= due'[q.entry]
    BY DEF NoneIsLate
  <2>1. CASE q \in wheels[j].vec[p]
    <3>1. Len(q.hops) = j /\ Expiry(j, wheels[j], Turned(j), p, q) <= due[q.entry]
      BY <2>1 DEF WheelInv, NoneIsLate
    <3>2. q \in Ref
      BY <2>1, HeldRefs DEF WheelInv
    <3>3. Expiry(j, wheels[j], Turned(j), p, q) \in Nat
      BY <1>1, <1>6, <3>1, <3>2, ExpiryIsLater DEF WheelInv
    <3>4. due[q.entry] \in Nat /\ due'[q.entry] \in Nat /\ due'[q.entry] >= due[q.entry]
      BY <1>16, <3>2 DEF Ref
    <3>5. Expiry(j, wheels[j], Turned(j), p, q) <= due'[q.entry]
      BY <3>1, <3>3, <3>4
    <3> QED
      BY <1>19, <3>1, <3>5
  <2>2. CASE j = i /\ p = k /\ q = r
    BY <1>5, <1>16, <1>21, <1>10, <2>2
  <2> QED
    BY <1>20, <2>1, <2>2
<1>23. OneIsOnTime'
  <2> SUFFICES ASSUME NEW c \in Entry, due'[c] > Turned(0)
               PROVE  \E j \in Wheel, p \in 1 .. BucketSize : \E q \in wheels'[j].vec[p] :
                        q.entry = c /\ Expiry(j, wheels'[j], Turned(j)', p, q) = due'[c]
    BY <1>1, <1>6 DEF OneIsOnTime
  <2>1. CASE due'[c] = due[c]
    <3>1. PICK j \in Wheel, p \in 1 .. BucketSize : \E q \in wheels[j].vec[p] :
            q.entry = c /\ Expiry(j, wheels[j], Turned(j), p, q) = due[c]
      BY <2>1 DEF WheelInv, OneIsOnTime
    <3> QED
      BY <1>19, <1>20, <2>1, <3>1
  <2>2. CASE c = e /\ due'[c] = x
    <3>1. r \in wheels'[i].vec[k]
      BY <1>4, <1>8, <1>20
    <3> QED
      BY <1>4, <1>5, <1>8, <1>21, <2>2, <3>1
  <2> QED
    BY <1>16, <2>1, <2>2
<1> QED
  BY <1>17, <1>18, <1>22, <1>23 DEF WheelInv

-----------------------------------------------------------------------------
LEMMA NextKeepsWheelInv == WheelInv /\ [Next]_vars => WheelInv'
<1> SUFFICES ASSUME WheelInv, [Next]_vars PROVE WheelInv'
  OBVIOUS
<1>1. ASSUME NEW e \in Entry, NEW delay \in Delays, Insert(e, delay) PROVE WheelInv'
  BY <1>1, InsertKeepsInv
<1>2. CASE Tick
  BY <1>2, TickKeepsInv
<1>3. ASSUME NEW i \in Wheel, Turn(i) PROVE WheelInv'
  <2>1. CASE i = 0
    BY <1>3, <2>1, FirstTurnKeepsInv
  <2>2. CASE i = 1
    BY <1>3, <2>2, NoSecondTurnKeepsInv, SecondTurnKeepsInv
  <2> QED
    BY <1>3, <2>1, <2>2, WheelIs
<1>4. CASE UNCHANGED vars
  <2>1. wheels' = wheels /\ curtick' = curtick /\ turn' = turn /\ due' = due
    BY <1>4 DEF vars
  <2>2. WheelTypeOK'
    BY <2>1 DEF WheelInv, WheelTypeOK
  <2>3. \A i \in Int : Turned(i)' = Turned(i)
    BY <2>1 DEF Turned
  <2>4. \A i \in Wheel : Rings(wheels'[i], Turned(i)')
    BY <2>1, <2>3 DEF WheelInv, Wheel
  <2>5. NoneIsLate'
    BY <2>1, <2>3 DEF WheelInv, NoneIsLate, Wheel
  <2>6. OneIsOnTime'
    BY <2>1, <2>3 DEF WheelInv, OneIsOnTime, Wheel
  <2> QED
    BY <2>2, <2>4, <2>5, <2>6 DEF WheelInv
<1> QED
  BY <1>1, <1>2, <1>3, <1>4 DEF Next

LEMMA WheelInvHolds == Spec => []WheelInv
BY InitWheelInv, NextKeepsWheelInv, PTL DEF Spec

\* Between ticks an entry is held as long as it is not due.
LEMMA HeldUntilDue ==
  ASSUME WheelInv, turn = NWheel, NEW e \in Entry
  PROVE  Held(e) <=> curtick < due[e]
<1>1. /\ WheelTypeOK /\ 0 \in Wheel /\ Wheel \subseteq {0, 1} /\ NWheel \in {1, 2}
      /\ 1 \in Wheel => NWheel = 2
      /\ curtick \in Nat /\ Turned(0) = curtick
      /\ \A i \in Wheel : Turned(i) \in Nat
      /\ due[e] \in Nat
  BY TurnedIs DEF WheelInv, WheelTypeOK
<1>2. Held(e) <=> \E i \in Wheel, p \in 1 .. BucketSize : \E r \in wheels[i].vec[p] :
                    r.entry = e
  BY DEF WheelInv, Rings, Held, References
<1>3. ASSUME NEW i \in Wheel, NEW p \in 1 .. BucketSize, NEW r \in wheels[i].vec[p],
             r.entry = e
      PROVE  curtick < due[e]
  <2> DEFINE x == Expiry(i, wheels[i], Turned(i), p, r)
             g == BucketSize * LastTurn(wheels[i], Turned(i), p)
  <2>1. x <= due[e] /\ Len(r.hops) = i
    BY <1>3 DEF WheelInv, NoneIsLate
  <2>2. r \in Ref /\ Rings(wheels[i], Turned(i)) /\ i \in {0, 1}
    BY <1>1, <1>3, HeldRefs DEF WheelInv
  <2>3. /\ x \in Nat
        /\ i = 0 => x > Turned(i)
        /\ i = 1 => x > g /\ g >= BucketSize * (Turned(i) + 1)
    BY <1>1, <2>1, <2>2, ExpiryIsLater
  <2> HIDE DEF x
  <2>4. CASE i = 0
    BY <1>1, <2>1, <2>3, <2>4
  <2>5. CASE i = 1
    <3>1. Turned(1) = curtick \div BucketSize
      BY <1>1, <2>5, TurnedIs
    <3>2. /\ curtick = BucketSize * (curtick \div BucketSize) + (curtick % BucketSize)
          /\ curtick % BucketSize \in 0 .. BucketSize - 1
          /\ curtick \div BucketSize \in Int
      BY <1>1, SizeIsNat, Division
    <3>3. BucketSize * (curtick \div BucketSize + 1) > curtick
      BY <1>1, <3>2, SizeIsNat
    <3>4. g \in Int
      BY <1>1, <2>2, LastTurnIsLater, SizeIsNat
    <3>5. BucketSize * (curtick \div BucketSize + 1) \in Int
      BY <3>2, SizeIsNat
    <3> HIDE DEF g
    <3> QED
      BY <1>1, <2>1, <2>3, <2>5, <3>1, <3>3, <3>4, <3>5
  <2> QED
    BY <2>2, <2>4, <2>5
<1>4. ASSUME curtick < due[e] PROVE Held(e)
  BY <1>1, <1>2, <1>4 DEF WheelInv, OneIsOnTime
<1> QED
  BY <1>2, <1>3, <1>4

-----------------------------------------------------------------------------
\* Rings keep their size, lo and hi stay places of them, and a reference in wheel i
\* has i hops left (TimingWheel.h:46-100), for any size and number of ticks.
THEOREM WheelTypeCorrect == Spec => []TypeOK
<1>1. WheelInv => TypeOK
  <2> SUFFICES ASSUME WheelInv PROVE TypeOK
    OBVIOUS
  <2>1. WheelTypeOK /\ \A i \in Wheel : Rings(wheels[i], Turned(i))
    BY DEF WheelInv
  <2>2. ASSUME NEW i \in Wheel, NEW r \in References(wheels[i])
        PROVE  r.entry \in Entry /\ Len(r.hops) = i
    <3>1. PICK p \in 1 .. BucketSize : r \in wheels[i].vec[p]
      BY <2>1, <2>2 DEF References, Rings
    <3>2. r \in Ref
      BY <2>1, <3>1, HeldRefs
    <3> QED
      BY <3>1, <3>2 DEF WheelInv, NoneIsLate, Ref
  <2> QED
    BY <2>1, <2>2 DEF TypeOK, WheelTypeOK, Rings, RingType
<1> QED
  BY <1>1, WheelInvHolds, PTL

\* An entry is held until its last insertion is over and no longer, for any number
\* of entries, insertions and ticks, any delays and any size of the wheels: a turn
\* drops nothing before its time, no reference is left behind in a place that is out
\* of the ring, and none is lost on its way down (TimingWheel.h:63-100).
THEOREM EntriesGoWhenDue == Spec => []EntryGoesWhenDue
<1>1. WheelInv => EntryGoesWhenDue
  BY HeldUntilDue DEF EntryGoesWhenDue
<1> QED
  BY <1>1, WheelInvHolds, PTL

-----------------------------------------------------------------------------
(***************************************************************************)
(* IdleTimeout.  Its wheel is the one above, so that an entry goes at the  *)
(* tick that its last reset calls for.  What remains is how the time of    *)
(* that reset and the last use of the connection differ.                   *)
(***************************************************************************)
idleVars == <<vars, connVars>>

\* The tick of the last reset of an ordinary connection.
ResetAt(c) == due[c] - timeout[c]

\* The ticks since then.
Ticks(c) == curtick - ResetAt(c)

\* The time that n ticks have taken at least, and at most with the one before them, if
\* the last of them was a ago.
Least(n, a) == IF n = 0 THEN 0 ELSE (n - 1) * TickMin + a

Most(n, a) == (n + 1) * TickMax + a

\* A reset waits for less than a tick but for the one that is late, and no tick
\* passes before that one has run.
ResetsArePrompt ==
  \A c \in asked : idle[c] <= TickMax + age /\ (c \notin late => idle[c] <= age)

\* A connection that was reset is open until its entry goes.
StaysOpen(c) == c \in open /\ due[c] > 0 => Held(c)

\* The connection has been idle for no longer than since its reset, and the tick for
\* which the reset was on its way.
NotTooLate(c) ==
  /\ ResetAt(c) <= curtick
  /\ idle[c] <= (timeout[c] + 1) * TickMax
  /\ idle[c] <= Most(Ticks(c), age)

\* It has been idle since the reset but for ResetGap, unless another one is on its
\* way; a use that asks for none comes while the last one is ResetGap ago.
NotTooEarly(c) ==
  c \in open /\ c \notin asked /\ due[c] > 0 =>
    /\ idle[c] + ResetGap >= Least(Ticks(c), age)
    /\ since[c] > ResetGap \/ since[c] >= Least(Ticks(c), age)

IdleTypeOK ==
  /\ timeout \in [Entry -> Delays]
  /\ open \subseteq Entry
  /\ asked \subseteq Entry
  /\ age \in 0 .. TickMax
  /\ since \in [Entry -> 0 .. ResetGap + 1]
  /\ idle \in [Entry -> Nat]

\* The inductive invariant.
IdleInv ==
  /\ WheelInv
  /\ IdleTypeOK
  /\ ResetsArePrompt
  /\ \A c \in Entry : Ordinary(c) => StaysOpen(c) /\ NotTooLate(c) /\ NotTooEarly(c)
-----------------------------------------------------------------------------
\* The steps are steps of the wheel, or leave it alone.
LEMMA StepOfIdleTimeout ==
  ASSUME timeout \in [Entry -> Delays], [NextIdle]_idleVars
  PROVE  [Next]_vars
<1>1. ASSUME NEW c \in Entry, Use(c) \/ ResetTask(c)
      PROVE  Next \/ UNCHANGED vars
  BY <1>1 DEF Use, ResetTask, Next
<1>2. CASE TickIdle \/ Pass
  BY <1>2 DEF TickIdle, Pass, Next
<1>3. ASSUME NEW i \in Wheel, TurnIdle(i) PROVE Next
  BY <1>3 DEF TurnIdle, Next
<1>4. CASE UNCHANGED idleVars
  BY <1>4 DEF idleVars
<1> QED
  BY <1>1, <1>2, <1>3, <1>4 DEF NextIdle

LEMMA DelaysAreNat == Delays \subseteq Nat \ {0}
BY WheelAssumption

\* An insertion into a full ring goes after its delay, if that is less than its size.
LEMMA OrdinaryExpiry ==
  ASSUME NEW t \in Nat, ~(t < BucketSize - 1), NEW delay \in Nat \ {0}, delay < BucketSize
  PROVE  ExpiresAt(t, delay) = t + delay
BY SizeIsNat DEF ExpiresAt, GoesAt

\* An entry is in the wheels as long as it is not due, during a tick as well.
LEMMA HeldAfter ==
  ASSUME WheelInv', NEW e \in Entry, curtick' < due'[e]
  PROVE  Held(e)'
<1>1. curtick' \in Nat /\ due'[e] \in Nat
  BY DEF WheelInv, WheelTypeOK
<1>2. Turned(0)' = IF turn' <= 0 THEN curtick' - 1 ELSE curtick'
  BY <1>1, DivisionByOne DEF Turned, base
<1>3. due'[e] > Turned(0)'
  BY <1>1, <1>2
<1>4. PICK i \in Wheel, p \in 1 .. BucketSize : \E r \in wheels'[i].vec[p] : r.entry = e
  BY <1>3 DEF WheelInv, OneIsOnTime
<1>5. vsize(wheels'[i]) = BucketSize
  BY DEF WheelInv, Rings, vsize
<1> QED
  BY <1>4, <1>5 DEF Held, References, vsize

\* The entries in the wheels have been inserted.
LEMMA HeldIsDue ==
  ASSUME WheelInv, NEW e \in Entry, Held(e)
  PROVE  due[e] > 0
<1>1. PICK i \in Wheel, p \in 1 .. BucketSize : \E r \in wheels[i].vec[p] : r.entry = e
  BY DEF WheelInv, Rings, Held, References
<1>2. PICK r \in wheels[i].vec[p] : r.entry = e
  BY <1>1
<1>3. /\ i \in {0, 1} /\ Turned(i) \in Nat /\ due[e] \in Nat
      /\ Rings(wheels[i], Turned(i)) /\ r \in Ref /\ Len(r.hops) = i
      /\ Expiry(i, wheels[i], Turned(i), p, r) <= due[e]
  BY <1>2, TurnedIs, HeldRefs DEF WheelInv, WheelTypeOK, NoneIsLate
<1> DEFINE x == Expiry(i, wheels[i], Turned(i), p, r)
           g == LastTurn(wheels[i], Turned(i), p)
<1>4. x \in Nat /\ (i = 0 => x > Turned(i)) /\ (i = 1 => x > BucketSize * g)
  BY <1>1, <1>3, ExpiryIsLater
<1>5. g \in Nat
  BY <1>1, <1>3, LastTurnIsLater
<1>6. BucketSize * g >= 0
  BY <1>5, SizeIsNat
<1> HIDE DEF x, g
<1>7. BucketSize * g \in Nat
  BY <1>5, <1>6, SizeIsNat
<1>8. x > 0
  BY <1>3, <1>4, <1>7
<1> QED
  BY <1>3, <1>4, <1>8 DEF x

-----------------------------------------------------------------------------
LEMMA ClockFacts ==
  /\ ResetGap \in Nat /\ TickMin \in Nat \ {0} /\ TickMax \in Nat /\ TickMin <= TickMax
BY ClockAssumption

\* One more tick, and one more beat, in what ticks take.
LEMMA TickTakes ==
  ASSUME NEW n \in Nat, NEW a \in 0 .. TickMax
  PROVE  /\ Least(n, a) \in Nat /\ Most(n, a) \in Nat
         /\ Least(0, a) = 0 /\ Most(0, a) = TickMax + a
         /\ Least(n, a + 1) <= Least(n, a) + 1
         /\ Most(n, a + 1) = Most(n, a) + 1
         /\ a >= TickMin => Least(n + 1, 0) <= Least(n, a)
         /\ Most(n, a) <= Most(n + 1, 0)
<1>1. TickMin \in Nat /\ TickMax \in Nat /\ a \in Nat /\ a <= TickMax
  BY ClockFacts
<1>2. ASSUME NEW k \in Nat, NEW m \in Nat
      PROVE  /\ k * m \in Nat /\ (k + 1) * m = k * m + m /\ 0 * m = 0 /\ 1 * m = m
  BY ProductGrows
<1>3. /\ (n + 1) * TickMax \in Nat
      /\ (n + 1 + 1) * TickMax = (n + 1) * TickMax + TickMax
      /\ (0 + 1) * TickMax = TickMax
  BY <1>1, <1>2
<1>4. /\ Most(n, a) \in Nat /\ Most(0, a) = TickMax + a
      /\ Most(n, a + 1) = Most(n, a) + 1
      /\ Most(n, a) <= Most(n + 1, 0)
  BY <1>1, <1>3 DEF Most
<1>5. CASE n = 0
  <2>1. (1 - 1) * TickMin = 0
    BY <1>1, <1>2
  <2>2. Least(n, a) = 0 /\ Least(n, a + 1) = 0 /\ Least(0, a) = 0 /\ Least(n + 1, 0) = 0
    BY <1>5, <2>1 DEF Least
  <2> QED
    BY <1>4, <2>2
<1>6. CASE n > 0
  <2>1. (n - 1) * TickMin \in Nat /\ ((n - 1) + 1) * TickMin = (n - 1) * TickMin + TickMin
    BY <1>1, <1>2, <1>6
  <2>2. n # 0 /\ n + 1 # 0 /\ (n + 1) - 1 = (n - 1) + 1
    BY <1>6
  <2>3. /\ Least(n, a) = (n - 1) * TickMin + a /\ Least(0, a) = 0
        /\ Least(n, a + 1) = (n - 1) * TickMin + (a + 1)
        /\ Least(n + 1, 0) = ((n - 1) + 1) * TickMin + 0
    BY <2>2 DEF Least
  <2> QED
    BY <1>1, <1>4, <2>1, <2>3
<1> QED
  BY <1>5, <1>6

\* What m ticks take, compared with fewer and with more of them.
LEMMA MoreTicks ==
  ASSUME NEW n \in Nat, NEW m \in Nat \ {0}, NEW a \in 0 .. TickMax
  PROVE  /\ n < m => Most(n, a) <= m * TickMax + a
         /\ m <= n => Least(n, a) >= (m - 1) * TickMin
         /\ m * TickMax \in Nat /\ (m + 1) * TickMax = m * TickMax + TickMax
         /\ (m - 1) * TickMin \in Nat
<1>1. TickMin \in Nat /\ TickMax \in Nat /\ a \in Nat /\ a <= TickMax
  BY ClockFacts
<1>2. ASSUME NEW i \in Nat, NEW k \in Nat, NEW q \in Nat, i <= k
      PROVE  i * q <= k * q /\ i * q \in Nat /\ k * q \in Nat
  BY <1>2, ProductGrows
<1>3. n < m => Most(n, a) <= m * TickMax + a
  <2> SUFFICES ASSUME n < m PROVE (n + 1) * TickMax + a <= m * TickMax + a
    BY DEF Most
  <2>1. (n + 1) * TickMax <= m * TickMax
        /\ (n + 1) * TickMax \in Nat /\ m * TickMax \in Nat
    BY <1>1, <1>2
  <2> QED
    BY <1>1, <2>1
<1>4. m <= n => Least(n, a) >= (m - 1) * TickMin
  <2> SUFFICES ASSUME m <= n PROVE (n - 1) * TickMin + a >= (m - 1) * TickMin
    BY DEF Least
  <2>1. m - 1 \in Nat /\ n - 1 \in Nat /\ m - 1 <= n - 1
    OBVIOUS
  <2>2. (m - 1) * TickMin <= (n - 1) * TickMin
        /\ (m - 1) * TickMin \in Nat /\ (n - 1) * TickMin \in Nat
    BY <1>1, <1>2, <2>1
  <2> QED
    BY <1>1, <2>2
<1>5. m * TickMax \in Nat /\ (m + 1) * TickMax = m * TickMax + TickMax
      /\ (m - 1) * TickMin \in Nat
  <2>1. m \in Nat /\ m - 1 \in Nat
    OBVIOUS
  <2> QED
    BY <1>1, <2>1, ProductGrows
<1> QED
  BY <1>3, <1>4, <1>5

LEMMA InitIdleInv == InitIdle => IdleInv
<1> SUFFICES ASSUME InitIdle PROVE IdleInv
  OBVIOUS
<1>1. WheelInv
  BY InitWheelInv DEF InitIdle
<1>2. IdleTypeOK
  BY ClockFacts DEF InitIdle, IdleTypeOK
<1>3. ResetsArePrompt
  BY DEF InitIdle, ResetsArePrompt
<1>4. ASSUME NEW c \in Entry
      PROVE  StaysOpen(c) /\ NotTooLate(c) /\ NotTooEarly(c)
  <2>1. /\ due[c] = 0 /\ idle[c] = 0 /\ curtick = 0 /\ timeout[c] \in Nat \ {0}
        /\ age \in 0 .. TickMax
    BY <1>2, DelaysAreNat DEF InitIdle, Init, IdleTypeOK
  <2>2. ResetAt(c) <= curtick /\ Ticks(c) \in Nat
    BY <2>1 DEF ResetAt, Ticks
  <2>3. idle[c] <= (timeout[c] + 1) * TickMax
    BY <2>1, MoreTicks, ClockFacts
  <2>4. idle[c] <= Most(Ticks(c), age)
    BY <2>1, <2>2, TickTakes
  <2> QED
    BY <2>1, <2>2, <2>3, <2>4 DEF StaysOpen, NotTooLate, NotTooEarly
<1> QED
  BY <1>1, <1>2, <1>3, <1>4 DEF IdleInv

\* What is known of an entry, in numbers.
LEMMA NumbersOf ==
  ASSUME IdleInv, NEW c \in Entry
  PROVE  /\ timeout[c] \in Nat \ {0} /\ timeout[c] \in Delays
         /\ since[c] \in 0 .. ResetGap + 1 /\ idle[c] \in Nat
         /\ due[c] \in Nat /\ curtick \in Nat
         /\ ResetAt(c) \in Int /\ ResetGap \in Nat /\ age \in 0 .. TickMax
         /\ (timeout[c] + 1) * TickMax \in Nat
         /\ ResetAt(c) <= curtick => Ticks(c) \in Nat
<1>1. due \in [Entry -> Nat] /\ curtick \in Nat
  <2>1. WheelTypeOK
    BY DEF IdleInv, WheelInv
  <2>2. curtick \in 0 .. MaxTick
    BY <2>1 DEF WheelTypeOK
  <2> QED
    BY <2>1, <2>2, BoundsAssumption DEF WheelTypeOK
<1>2. /\ timeout[c] \in Delays /\ due[c] \in Nat
      /\ since[c] \in 0 .. ResetGap + 1 /\ idle[c] \in Nat /\ age \in 0 .. TickMax
  BY <1>1 DEF IdleInv, IdleTypeOK
<1>3. timeout[c] \in Nat \ {0} /\ ResetGap \in Nat
  BY <1>2, DelaysAreNat, ClockFacts
<1>4. ResetAt(c) \in Int
  BY <1>2, <1>3 DEF ResetAt
<1>5. (timeout[c] + 1) * TickMax \in Nat
  <2>1. timeout[c] * TickMax \in Nat
        /\ (timeout[c] + 1) * TickMax = timeout[c] * TickMax + TickMax
    BY <1>2, <1>3, MoreTicks
  <2> QED
    BY <2>1, ClockFacts
<1>6. ResetAt(c) <= curtick => Ticks(c) \in Nat
  BY <1>1, <1>4 DEF Ticks
<1> QED
  BY <1>1, <1>2, <1>3, <1>4, <1>5, <1>6

LEMMA UseKeepsIdleInv ==
  ASSUME IdleInv, WheelInv', NEW c \in Entry, Use(c)
  PROVE  IdleInv'
<1>1. /\ UNCHANGED <<vars, timeout, open, age, late, early>>
      /\ idle' = [idle EXCEPT ![c] = 0]
      /\ \/ asked' = asked \union {c} /\ since' = [since EXCEPT ![c] = 0]
         \/ since[c] <= ResetGap /\ UNCHANGED <<asked, since>>
  BY DEF Use
<1>2. IdleTypeOK'
  BY <1>1, ClockFacts DEF IdleInv, IdleTypeOK
<1>3. ResetsArePrompt'
  <2>1. age \in 0 .. TickMax
    BY DEF IdleInv, IdleTypeOK
  <2> QED
    BY <1>1, <2>1, ClockFacts DEF IdleInv, IdleTypeOK, ResetsArePrompt
<1>4. ASSUME NEW d \in Entry, Ordinary(d)'
      PROVE  StaysOpen(d)' /\ NotTooLate(d)' /\ NotTooEarly(d)'
  <2>1. StaysOpen(d) /\ NotTooLate(d) /\ NotTooEarly(d)
    BY <1>1, <1>4 DEF IdleInv, Ordinary
  <2>2. StaysOpen(d)'
    BY <1>1, <2>1 DEF StaysOpen, vars, Held, References, vsize
  <2>3. CASE d # c
    <3>1. UNCHANGED <<idle[d], since[d], due[d], timeout[d], curtick, age>>
          /\ (d \in open' /\ d \notin asked' => d \in open /\ d \notin asked)
      BY <1>1, <2>3 DEF IdleInv, IdleTypeOK, vars
    <3> QED
      BY <2>1, <2>2, <3>1 DEF NotTooLate, NotTooEarly, ResetAt, Ticks
  <2>4. CASE d = c
    <3>1. idle'[c] = 0 /\ UNCHANGED <<due[c], timeout[c], curtick, age>>
      BY <1>1 DEF IdleInv, IdleTypeOK, vars
    <3>2. NotTooLate(c)'
      <4>1. ResetAt(c)' = ResetAt(c) /\ Ticks(c)' = Ticks(c)
        BY <3>1 DEF ResetAt, Ticks
      <4>2. Most(Ticks(c), age) \in Nat
        BY <2>1, <2>4, NumbersOf, TickTakes DEF NotTooLate
      <4> QED
        BY <2>1, <2>4, <3>1, <4>1, <4>2, NumbersOf DEF NotTooLate
    <3>3. c \notin asked' =>
            since'[c] = since[c] /\ since[c] <= ResetGap /\ c \notin asked
      BY <1>1
    <3>4. NotTooEarly(c)'
      <4>1. Ticks(c)' = Ticks(c)
        BY <3>1 DEF ResetAt, Ticks
      <4>2. Least(Ticks(c), age) \in Nat
        BY <2>1, <2>4, NumbersOf, TickTakes DEF NotTooLate
      <4> QED
        BY <1>1, <2>1, <2>4, <3>1, <3>3, <4>1, <4>2, NumbersOf DEF NotTooEarly
    <3> QED
      BY <2>2, <2>4, <3>2, <3>4
  <2> QED
    BY <2>3, <2>4
<1> QED
  BY <1>2, <1>3, <1>4 DEF IdleInv

\* The reset of an ordinary connection takes place when the ring is full, so that its
\* entry goes when the timeout is over again.
LEMMA ResetKeepsIdleInv ==
  ASSUME IdleInv, WheelInv', NEW c \in Entry, ResetTask(c)
  PROVE  IdleInv'
<1>1. /\ UNCHANGED <<timeout, open, age, since, idle>>
      /\ asked' = asked \ {c} /\ late' = late \ {c} /\ c \in asked
      /\ early' = IF full(wheels[0]) THEN early ELSE early \union {c}
      /\ turn = NWheel
  BY DEF ResetTask, Insert
<1>2. \/ Insert(c, timeout[c])
      \/ c \notin open /\ UNCHANGED vars
  BY DEF ResetTask
<1>3. IdleTypeOK'
  BY <1>1 DEF IdleInv, IdleTypeOK
<1>4. ResetsArePrompt'
  BY <1>1 DEF IdleInv, ResetsArePrompt
<1>5. curtick' = curtick
  BY <1>2 DEF Insert, vars
<1>6. ASSUME NEW d \in Entry, Ordinary(d)'
      PROVE  StaysOpen(d)' /\ NotTooLate(d)' /\ NotTooEarly(d)'
  <2>1. StaysOpen(d) /\ NotTooLate(d) /\ NotTooEarly(d)
    BY <1>1, <1>6 DEF IdleInv, Ordinary
  <2>2. CASE due'[d] = due[d] /\ (d # c \/ c \notin open)
    <3>1. d \in open' /\ d \notin asked' => d \in open /\ d \notin asked
      BY <1>1, <2>2
    <3>2. UNCHANGED <<idle[d], since[d], due[d], timeout[d], curtick, age>>
      BY <1>1, <1>5, <2>2
    <3>3. NotTooLate(d)' /\ NotTooEarly(d)'
      BY <2>1, <3>1, <3>2 DEF NotTooLate, NotTooEarly, ResetAt, Ticks
    <3>4. StaysOpen(d)'
      BY <1>1, <1>5, <2>1, <2>2, HeldUntilDue, HeldAfter DEF StaysOpen, IdleInv
    <3> QED
      BY <3>3, <3>4
  <2>3. CASE d = c /\ Insert(c, timeout[c])
    <3> DEFINE x == ExpiresAt(curtick, timeout[c])
    <3>1. due' = [due EXCEPT ![c] = IF @ > x THEN @ ELSE x]
      BY <2>3 DEF Insert
    <3>2. full(wheels[0]) /\ timeout[c] < BucketSize
      BY <1>1, <1>6, <2>3 DEF Ordinary
    <3>3. ~(curtick < BucketSize - 1)
      <4>1. 0 \in Wheel /\ Turned(0) = curtick /\ curtick \in Nat
        BY <1>1, TurnedIs DEF IdleInv, WheelInv
      <4>2. Rings(wheels[0], curtick)
        BY <4>1 DEF IdleInv, WheelInv
      <4> QED
        BY <3>2, <4>1, <4>2, FullRing
    <3>4. x = curtick + timeout[c]
      BY <3>2, <3>3, NumbersOf, OrdinaryExpiry
    <3> HIDE DEF x
    <3>5. due'[c] = IF due[c] > x THEN due[c] ELSE x
      BY <3>1 DEF IdleInv, WheelInv, WheelTypeOK
    <3>6. due'[c] = curtick + timeout[c]
      BY <2>1, <2>3, <3>4, <3>5, NumbersOf DEF NotTooLate, ResetAt
    <3>7. UNCHANGED <<idle[c], since[c], timeout[c], curtick, age>>
      BY <1>1, <1>5
    <3>8. ResetAt(c)' = curtick /\ Ticks(c)' = 0
      BY <3>6, <3>7, NumbersOf DEF ResetAt, Ticks
    <3>9. idle[c] <= TickMax + age
      BY <1>1 DEF IdleInv, ResetsArePrompt
    <3>10. Least(0, age) = 0 /\ Most(0, age) = TickMax + age
      BY NumbersOf, TickTakes
    <3>11. NotTooLate(c)'
      BY <2>1, <2>3, <3>7, <3>8, <3>9, <3>10, NumbersOf DEF NotTooLate
    <3>12. NotTooEarly(c)'
      BY <3>7, <3>8, <3>10, NumbersOf DEF NotTooEarly
    <3>13. curtick' < due'[c]
      BY <3>6, <3>7, NumbersOf
    <3>14. StaysOpen(c)'
      BY <3>13, HeldAfter DEF StaysOpen
    <3> QED
      BY <2>3, <3>11, <3>12, <3>14
  <2>4. d # c => due'[d] = due[d]
    BY <1>2 DEF Insert, vars, IdleInv, WheelInv, WheelTypeOK
  <2>5. ~Insert(c, timeout[c]) => due' = due /\ c \notin open
    BY <1>2 DEF vars
  <2> QED
    BY <2>2, <2>3, <2>4, <2>5
<1> QED
  BY <1>3, <1>4, <1>6 DEF IdleInv

\* A tick takes TickMin or more, and TickMax or less.
LEMMA TickKeepsIdleInv ==
  ASSUME IdleInv, WheelInv', TickIdle
  PROVE  IdleInv'
<1>1. /\ UNCHANGED <<timeout, open, since, asked, idle, early, wheels, due>>
      /\ late = {} /\ late' = asked /\ age >= TickMin /\ age' = 0
      /\ curtick' = curtick + 1
  BY DEF TickIdle, Tick
<1>2. IdleTypeOK' /\ age \in 0 .. TickMax
  BY <1>1, ClockFacts DEF IdleInv, IdleTypeOK
<1>3. ResetsArePrompt'
  <2> SUFFICES ASSUME NEW c \in asked PROVE idle[c] <= TickMax + 0
    BY <1>1 DEF ResetsArePrompt
  <2>1. c \in Entry /\ idle[c] <= age
    BY <1>1 DEF IdleInv, IdleTypeOK, ResetsArePrompt
  <2> QED
    BY <1>2, <2>1, NumbersOf, ClockFacts
<1>4. ASSUME NEW c \in Entry, Ordinary(c)'
      PROVE  StaysOpen(c)' /\ NotTooLate(c)' /\ NotTooEarly(c)'
  <2>1. StaysOpen(c) /\ NotTooLate(c) /\ NotTooEarly(c)
    BY <1>1, <1>4 DEF IdleInv, Ordinary
  <2>2. StaysOpen(c)'
    BY <1>1, <2>1 DEF StaysOpen, Held, References, vsize
  <2>3. /\ ResetAt(c)' = ResetAt(c) /\ Ticks(c)' = Ticks(c) + 1 /\ Ticks(c) \in Nat
    BY <1>1, <2>1, NumbersOf DEF ResetAt, Ticks, NotTooLate
  <2>4. /\ Least(Ticks(c) + 1, 0) <= Least(Ticks(c), age)
        /\ Most(Ticks(c), age) <= Most(Ticks(c) + 1, 0)
        /\ Least(Ticks(c), age) \in Nat /\ Most(Ticks(c), age) \in Nat
    BY <1>1, <1>2, <2>3, TickTakes
  <2>5. Least(Ticks(c) + 1, 0) \in Nat /\ Most(Ticks(c) + 1, 0) \in Nat
    BY <2>3, TickTakes, ClockFacts
  <2>6. NotTooLate(c)'
    BY <1>1, <2>1, <2>3, <2>4, <2>5, NumbersOf DEF NotTooLate
  <2>7. NotTooEarly(c)'
    BY <1>1, <2>1, <2>3, <2>4, <2>5, NumbersOf DEF NotTooEarly
  <2> QED
    BY <2>2, <2>6, <2>7
<1> QED
  BY <1>2, <1>3, <1>4 DEF IdleInv

\* Between ticks the connections that are held get older.
LEMMA PassKeepsIdleInv ==
  ASSUME IdleInv, WheelInv', Pass
  PROVE  IdleInv'
<1>1. /\ UNCHANGED <<vars, timeout, open, asked, late, early>>
      /\ UNCHANGED <<wheels, due, curtick>> /\ turn = NWheel
      /\ age < TickMax /\ age' = age + 1
      /\ since' = [c \in Entry |-> IF since[c] > ResetGap THEN since[c] ELSE since[c] + 1]
      /\ idle' = [c \in Entry |-> IF Held(c) /\ c \in open THEN idle[c] + 1 ELSE idle[c]]
  BY DEF Pass, vars
<1>2. ASSUME NEW c \in Entry
      PROVE  /\ since'[c] = IF since[c] > ResetGap THEN since[c] ELSE since[c] + 1
             /\ idle'[c] = IF Held(c) /\ c \in open THEN idle[c] + 1 ELSE idle[c]
  BY <1>1
<1>3. age \in 0 .. TickMax /\ age' \in 0 .. TickMax
  BY <1>1, ClockFacts DEF IdleInv, IdleTypeOK
<1>4. IdleTypeOK'
  <2>1. \A c \in Entry : since[c] \in 0 .. ResetGap + 1 /\ idle[c] \in Nat
    BY DEF IdleInv, IdleTypeOK
  <2>2. since' \in [Entry -> 0 .. ResetGap + 1]
    BY <1>1, <2>1, ClockFacts
  <2>3. idle' \in [Entry -> Nat]
    BY <1>1, <2>1
  <2> QED
    BY <1>1, <1>3, <2>2, <2>3 DEF IdleInv, IdleTypeOK
<1>5. ResetsArePrompt'
  <2> SUFFICES ASSUME NEW c \in asked
               PROVE  idle'[c] <= TickMax + age' /\ (c \notin late => idle'[c] <= age')
    BY <1>1 DEF ResetsArePrompt
  <2>1. c \in Entry /\ idle[c] <= TickMax + age /\ (c \notin late => idle[c] <= age)
    BY DEF IdleInv, IdleTypeOK, ResetsArePrompt
  <2>2. idle[c] \in Nat /\ idle'[c] \in {idle[c], idle[c] + 1}
    BY <1>2, <2>1, NumbersOf
  <2> QED
    BY <1>1, <1>3, <2>1, <2>2, ClockFacts
<1>6. ASSUME NEW c \in Entry, Ordinary(c)'
      PROVE  StaysOpen(c)' /\ NotTooLate(c)' /\ NotTooEarly(c)'
  <2>1. StaysOpen(c) /\ NotTooLate(c) /\ NotTooEarly(c)
    BY <1>1, <1>6 DEF IdleInv, Ordinary
  <2>2. StaysOpen(c)'
    BY <1>1, <2>1 DEF StaysOpen, Held, References, vsize
  <2>3. ResetAt(c)' = ResetAt(c) /\ Ticks(c)' = Ticks(c) /\ Ticks(c) \in Nat
    BY <1>1, <2>1, NumbersOf DEF ResetAt, Ticks, NotTooLate
  <2>4. /\ Least(Ticks(c), age + 1) <= Least(Ticks(c), age) + 1
        /\ Most(Ticks(c), age + 1) = Most(Ticks(c), age) + 1
        /\ Least(Ticks(c), age) \in Nat /\ Most(Ticks(c), age) \in Nat
    BY <1>3, <2>3, TickTakes
  <2>5. Least(Ticks(c), age + 1) \in Nat
    BY <1>1, <1>3, <2>3, TickTakes
  <2>6. idle'[c] <= (timeout[c] + 1) * TickMax
    <3>1. CASE Held(c)
      <4>1. curtick < due[c]
        BY <1>1, <3>1, HeldUntilDue DEF IdleInv
      <4>2. Ticks(c) < timeout[c]
        BY <4>1, NumbersOf DEF ResetAt, Ticks
      <4>3. /\ Most(Ticks(c), age) <= timeout[c] * TickMax + age
            /\ timeout[c] * TickMax \in Nat
            /\ (timeout[c] + 1) * TickMax = timeout[c] * TickMax + TickMax
        BY <1>3, <2>3, <4>2, NumbersOf, MoreTicks
      <4>4. idle'[c] \in {idle[c], idle[c] + 1} /\ idle[c] <= Most(Ticks(c), age)
        BY <1>2, <2>1 DEF NotTooLate
      <4> QED
        BY <1>1, <1>3, <2>4, <4>3, <4>4, NumbersOf, ClockFacts
    <3>2. CASE ~Held(c)
      BY <1>2, <2>1, <3>2 DEF NotTooLate
    <3> QED
      BY <3>1, <3>2
  <2>7. NotTooLate(c)'
    <3>1. idle'[c] \in {idle[c], idle[c] + 1} /\ idle[c] <= Most(Ticks(c), age)
      BY <1>2, <2>1 DEF NotTooLate
    <3>2. idle'[c] <= Most(Ticks(c), age + 1)
      BY <2>4, <3>1, NumbersOf
    <3> QED
      BY <1>1, <2>1, <2>3, <2>6, <3>2 DEF NotTooLate
  <2>8. NotTooEarly(c)'
    <3> SUFFICES ASSUME c \in open, c \notin asked, due[c] > 0
                 PROVE  /\ idle'[c] + ResetGap >= Least(Ticks(c), age + 1)
                        /\ \/ since'[c] > ResetGap
                           \/ since'[c] >= Least(Ticks(c), age + 1)
      BY <1>1, <2>3 DEF NotTooEarly
    <3>1. idle'[c] = idle[c] + 1
      BY <1>2, <2>1 DEF StaysOpen
    <3>2. since'[c] = IF since[c] > ResetGap THEN since[c] ELSE since[c] + 1
      BY <1>2
    <3>3. /\ idle[c] + ResetGap >= Least(Ticks(c), age)
          /\ since[c] > ResetGap \/ since[c] >= Least(Ticks(c), age)
      BY <2>1 DEF NotTooEarly
    <3> QED
      BY <2>4, <2>5, <3>1, <3>2, <3>3, NumbersOf
  <2> QED
    BY <2>2, <2>7, <2>8
<1> QED
  BY <1>4, <1>5, <1>6 DEF IdleInv

LEMMA TurnKeepsIdleInv ==
  ASSUME IdleInv, WheelInv', NEW i \in Wheel, TurnIdle(i)
  PROVE  IdleInv'
<1>1. /\ UNCHANGED <<timeout, age, since, asked, late, idle, early, due, curtick>>
      /\ open' = {c \in open : Held(c) => Held(c)'}
  BY DEF TurnIdle, Turn
<1>2. IdleTypeOK' /\ ResetsArePrompt'
  BY <1>1 DEF IdleInv, IdleTypeOK, ResetsArePrompt
<1>3. ASSUME NEW c \in Entry, Ordinary(c)'
      PROVE  StaysOpen(c)' /\ NotTooLate(c)' /\ NotTooEarly(c)'
  <2>1. StaysOpen(c) /\ NotTooLate(c) /\ NotTooEarly(c)
    BY <1>1, <1>3 DEF IdleInv, Ordinary
  <2> QED
    BY <1>1, <2>1 DEF StaysOpen, NotTooLate, NotTooEarly, ResetAt, Ticks
<1> QED
  BY <1>2, <1>3 DEF IdleInv

LEMMA NextKeepsIdleInv == IdleInv /\ [NextIdle]_idleVars => IdleInv'
<1> SUFFICES ASSUME IdleInv, [NextIdle]_idleVars PROVE IdleInv'
  OBVIOUS
<1>1. WheelInv'
  BY StepOfIdleTimeout, NextKeepsWheelInv DEF IdleInv, IdleTypeOK
<1>2. ASSUME NEW c \in Entry, Use(c) \/ ResetTask(c) PROVE IdleInv'
  BY <1>1, <1>2, UseKeepsIdleInv, ResetKeepsIdleInv
<1>3. CASE TickIdle \/ Pass
  BY <1>1, <1>3, TickKeepsIdleInv, PassKeepsIdleInv
<1>4. ASSUME NEW i \in Wheel, TurnIdle(i) PROVE IdleInv'
  BY <1>1, <1>4, TurnKeepsIdleInv
<1>5. CASE UNCHANGED idleVars
  <2>1. UNCHANGED <<vars, timeout, open, age, since, asked, late, idle, early>>
    BY <1>5 DEF idleVars, connVars
  <2>2. UNCHANGED <<wheels, due, curtick>>
    BY <2>1 DEF vars
  <2>3. ASSUME NEW c \in Entry
        PROVE  /\ Ordinary(c)' = Ordinary(c)
               /\ StaysOpen(c)' = StaysOpen(c)
               /\ NotTooLate(c)' = NotTooLate(c)
               /\ NotTooEarly(c)' = NotTooEarly(c)
    <3>1. Held(c)' = Held(c)
      BY <2>2 DEF Held, References, vsize
    <3> QED
      BY <2>1, <2>2, <3>1
         DEF Ordinary, StaysOpen, NotTooLate, NotTooEarly, ResetAt, Ticks
  <2>4. IdleTypeOK' /\ ResetsArePrompt'
    BY <2>1 DEF IdleInv, IdleTypeOK, ResetsArePrompt
  <2> QED
    BY <1>1, <2>3, <2>4 DEF IdleInv
<1> QED
  BY <1>2, <1>3, <1>4, <1>5 DEF NextIdle

LEMMA IdleInvHolds == SpecIdle => []IdleInv
BY InitIdleInv, NextKeepsIdleInv, PTL DEF SpecIdle, idleVars

\* What is proved of the wheel holds of the one that closes idle connections: the uses
\* of a connection leave the wheel alone, and a reset is an insertion (Server.h:84-107).
THEOREM IdleTimeoutIsAWheel == SpecIdle => Spec
<1>1. InitIdle => Init
  BY DEF InitIdle
<1>2. IdleInv => timeout \in [Entry -> Delays]
  BY DEF IdleInv, IdleTypeOK
<1>3. timeout \in [Entry -> Delays] /\ [NextIdle]_idleVars => [Next]_vars
  BY StepOfIdleTimeout
<1> QED
  BY <1>1, <1>2, <1>3, IdleInvHolds, PTL DEF SpecIdle, Spec, idleVars

\* An entry is dropped when it is due.
LEMMA StepClosesTheIdle ==
  ASSUME IdleInv, IdleInv', [NextIdle]_idleVars, NEW c \in open, Ordinary(c)
  PROVE  /\ idle'[c] <= (timeout[c] + 1) * TickMax
         /\ c \notin open' =>
              idle[c] >= (timeout[c] - 1) * TickMin - ResetGap \/ c \in asked
<1>1. c \in Entry /\ StaysOpen(c) /\ NotTooLate(c) /\ NotTooEarly(c)
  BY DEF IdleInv, IdleTypeOK
<1>2. idle'[c] <= (timeout[c] + 1) * TickMax
  <2>1. CASE Ordinary(c)'
    <3>1. timeout'[c] = timeout[c]
      BY DEF NextIdle, Use, ResetTask, TickIdle, Pass, TurnIdle, idleVars, connVars
    <3> QED
      BY <1>1, <2>1, <3>1 DEF IdleInv, NotTooLate
  <2>2. CASE ~Ordinary(c)'
    <3>1. idle' = idle
      BY <2>2
         DEF Ordinary, NextIdle, Use, ResetTask, TickIdle, Pass, TurnIdle, idleVars, connVars
    <3> QED
      BY <1>1, <3>1 DEF NotTooLate
  <2> QED
    BY <2>1, <2>2
<1>3. ASSUME c \notin open', c \notin asked
      PROVE  idle[c] >= (timeout[c] - 1) * TickMin - ResetGap
  <2>1. PICK i \in Wheel : TurnIdle(i)
    BY <1>3 DEF NextIdle, Use, ResetTask, TickIdle, Pass, idleVars, connVars
  <2>2. Held(c) /\ ~Held(c)' /\ curtick' = curtick /\ due' = due
    BY <1>3, <2>1 DEF TurnIdle, Turn
  <2>3. ~(curtick < due[c])
    BY <1>1, <2>2, HeldAfter DEF IdleInv
  <2>4. due[c] > 0
    BY <1>1, <2>2, HeldIsDue DEF IdleInv
  <2>5. idle[c] + ResetGap >= Least(Ticks(c), age)
    BY <1>1, <1>3, <2>4 DEF NotTooEarly
  <2>6. Ticks(c) \in Nat /\ timeout[c] <= Ticks(c)
    BY <1>1, <2>3, NumbersOf DEF ResetAt, Ticks
  <2>7. /\ Least(Ticks(c), age) >= (timeout[c] - 1) * TickMin
        /\ (timeout[c] - 1) * TickMin \in Nat /\ Least(Ticks(c), age) \in Nat
    BY <1>1, <2>6, NumbersOf, MoreTicks, TickTakes
  <2> QED
    BY <1>1, <2>5, <2>7, NumbersOf
<1> QED
  BY <1>2, <1>3

\* A connection with an ordinary timeout of n seconds is closed when it has been idle
\* for n ticks of the wheel, for any number of connections, any timeouts and ticks of any
\* lengths from TickMin to TickMax: no earlier than the resets left out and no later than
\* the reset on its way account for (Transport.cpp:103-110, Server.h:84-107,
\* TimingWheel.h:68-92, TimerQueue.cpp:96-101).
THEOREM IdleAreClosed == SpecIdle => ClosesTheIdle
<1>1. IdleInv /\ IdleInv' /\ [NextIdle]_idleVars =>
        [\A c \in open :
           Ordinary(c) =>
             /\ idle'[c] <= (timeout[c] + 1) * TickMax
             /\ c \notin open' =>
                  idle[c] >= (timeout[c] - 1) * TickMin - ResetGap \/ c \in asked]_idleVars
  BY StepClosesTheIdle
<1> QED
  BY <1>1, IdleInvHolds, PTL DEF SpecIdle, ClosesTheIdle, idleVars

=============================================================================
