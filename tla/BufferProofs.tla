---------------------------- MODULE BufferProofs ----------------------------
(***************************************************************************)
(* Proofs about Buffer, for every size of vec and any number of bytes.     *)
(* The sequences of the model are compared place by place: Kept says what  *)
(* each delivered byte and each place between lo and hi holds.             *)
(***************************************************************************)
EXTENDS Buffer, SequenceTheorems, TLAPS

RingType == [vec : Seq(Nat), lo : Nat, hi : Nat]

\* A ring whose lo and hi are places of vec.
Valid(b) ==
  /\ b \in RingType
  /\ vsize(b) > 1
  /\ b.lo < vsize(b) /\ b.hi < vsize(b)

\* The bytes g and the content of b are the bytes 1 .. f of the stream.
Kept(g, b, f) ==
  /\ Len(g) + size(b) = f
  /\ \A i \in 1 .. Len(g) : g[i] = i
  /\ \A i \in 1 .. size(b) : b.vec[Place(b, i - 1)] = Len(g) + i

\* No place holds a byte that was not fed yet.
NoneAhead(b, f) == \A i \in 1 .. vsize(b) : b.vec[i] <= f

\* Until the content is spoiled, the ring is one.
Sound ==
  /\ Valid(buf)
  /\ Kept(given, buf, fed)
  /\ NoneAhead(buf, fed)
  /\ role = "rbuffer" => buf.lo <= buf.hi

\* The inductive invariant.
BufferInv ==
  /\ role \in {"rbuffer", "wbuffer"}
  /\ fed \in Nat
  /\ given \in Seq(Nat)
  /\ IF damage = "none" THEN Sound ELSE given \o Content(buf) # Bytes(1, fed)
-----------------------------------------------------------------------------
\* A function on 1 .. n is a sequence of length n.
LEMMA FunctionIsSeq ==
  ASSUME NEW S, NEW n \in Nat, NEW f \in [1 .. n -> S]
  PROVE  f \in Seq(S) /\ Len(f) = n /\ DOMAIN f = 1 .. n
BY SeqDef

LEMMA BytesAreNumbered ==
  ASSUME NEW m \in Nat, NEW k \in Nat, k <= m + 1
  PROVE  /\ Bytes(k, m) \in Seq(Int)
         /\ Len(Bytes(k, m)) = m - k + 1
         /\ \A i \in 1 .. m - k + 1 : Bytes(k, m)[i] = k + i - 1
<1> DEFINE n == m - k + 1
<1>1. n \in Nat /\ Bytes(k, m) \in [1 .. n -> Int]
  BY DEF Bytes
<1>2. Bytes(k, m) \in Seq(Int) /\ Len(Bytes(k, m)) = n
  BY <1>1, FunctionIsSeq
<1> QED
  BY <1>2 DEF Bytes

LEMMA StreamFromTheStart ==
  ASSUME NEW f \in Nat
  PROVE  /\ Bytes(1, f) \in Seq(Int)
         /\ Len(Bytes(1, f)) = f
         /\ \A i \in 1 .. f : Bytes(1, f)[i] = i
<1>1. 1 \in Nat /\ 1 <= f + 1 /\ f - 1 + 1 = f
  OBVIOUS
<1>2. \A i \in 1 .. f : 1 + i - 1 = i
  OBVIOUS
<1> QED
  BY <1>1, <1>2, BytesAreNumbered

LEMMA ModOfNat ==
  ASSUME NEW b, NEW i \in Nat
  PROVE  MOD(b, i) = IF i >= vsize(b) THEN i - vsize(b) ELSE i
BY DEF MOD

\* In a valid ring the index of each byte, and of the free place, is a place of vec.
LEMMA PlacesOfRing ==
  ASSUME NEW b, Valid(b)
  PROVE  /\ vsize(b) \in Nat
         /\ size(b) \in 0 .. vsize(b) - 1
         /\ \A i \in 0 .. vsize(b) - 1 : Place(b, i) \in 1 .. vsize(b)
         /\ \A i \in 0 .. vsize(b) - 1 :
              Place(b, i) = IF b.lo + i < vsize(b) THEN b.lo + i + 1
                            ELSE b.lo + i + 1 - vsize(b)
<1> DEFINE n == Len(b.vec)
<1>1. n \in Nat /\ b.lo \in Nat /\ b.hi \in Nat /\ n > 1 /\ b.lo < n /\ b.hi < n
  BY DEF Valid, RingType, vsize
<1>2. size(b) = IF b.lo <= b.hi THEN b.hi - b.lo ELSE n - (b.lo - b.hi)
  BY DEF size, vsize
<1>3. \A i : Place(b, i) = MOD(b, b.lo + i) + 1
  BY DEF Place
<1>4. \A i : MOD(b, i) = IF i < 0 THEN n - 1 ELSE IF i >= n THEN i - n ELSE i
  BY DEF MOD, vsize
<1> HIDE DEF n
<1>5. vsize(b) = n
  BY DEF n, vsize
<1> QED
  BY <1>1, <1>2, <1>3, <1>4, <1>5

\* The content of any ring is a sequence of as many bytes as its size.
LEMMA ContentIsSeq ==
  ASSUME NEW b, size(b) \in Nat
  PROVE  \E S : Content(b) \in Seq(S) /\ Len(Content(b)) = size(b)
<1> DEFINE S == {b.vec[Place(b, i - 1)] : i \in 1 .. size(b)}
<1>1. Content(b) \in [1 .. size(b) -> S]
  BY DEF Content
<1> QED
  BY <1>1, FunctionIsSeq

LEMMA ContentOfValid ==
  ASSUME NEW b, Valid(b)
  PROVE  /\ Content(b) \in Seq(Nat)
         /\ Len(Content(b)) = size(b)
         /\ \A i \in 1 .. size(b) : Content(b)[i] = b.vec[Place(b, i - 1)]
<1>1. size(b) \in Nat /\ b.vec \in Seq(Nat)
  BY PlacesOfRing DEF Valid, RingType
<1>2. \A i \in 1 .. size(b) : i - 1 \in 0 .. vsize(b) - 1
  BY PlacesOfRing
<1>3. \A i \in 1 .. size(b) : Place(b, i - 1) \in 1 .. Len(b.vec)
  BY <1>2, PlacesOfRing DEF vsize
<1>4. Content(b) \in [1 .. size(b) -> Nat]
  BY <1>1, <1>3 DEF Content
<1> QED
  BY <1>1, <1>4, FunctionIsSeq DEF Content

\* Kept is the equality of the sequences.
LEMMA KeptIsStream ==
  ASSUME NEW g \in Seq(Nat), NEW b, Valid(b), NEW f \in Nat
  PROVE  (g \o Content(b) = Bytes(1, f)) <=> Kept(g, b, f)
<1> DEFINE c == Content(b)
           n == Len(g)
<1>1. c \in Seq(Nat) /\ Len(c) = size(b) /\ size(b) \in Nat /\ n \in Nat
  BY ContentOfValid, PlacesOfRing
<1>2. \A i \in 1 .. size(b) : c[i] = b.vec[Place(b, i - 1)]
  BY ContentOfValid
<1>3. /\ g \o c \in Seq(Nat)
      /\ Len(g \o c) = n + size(b)
      /\ \A i \in 1 .. n + size(b) : (g \o c)[i] = IF i <= n THEN g[i] ELSE c[i - n]
  BY <1>1, ConcatProperties
<1>4. /\ Bytes(1, f) \in Seq(Int)
      /\ Len(Bytes(1, f)) = f
      /\ \A i \in 1 .. f : Bytes(1, f)[i] = i
  BY StreamFromTheStart
<1> HIDE DEF c, n
<1>5. ASSUME g \o c = Bytes(1, f) PROVE Kept(g, b, f)
  <2>1. n + size(b) = f
    BY <1>3, <1>4, <1>5
  <2>2. \A i \in 1 .. n : g[i] = i
    <3> TAKE i \in 1 .. n
    <3>1. i \in 1 .. n + size(b) /\ i <= n
      BY <1>1
    <3>2. (g \o c)[i] = g[i]
      BY <3>1, <1>3
    <3> QED
      BY <3>1, <3>2, <2>1, <1>4, <1>5
  <2>3. \A i \in 1 .. size(b) : b.vec[Place(b, i - 1)] = n + i
    <3> TAKE i \in 1 .. size(b)
    <3>1. n + i \in 1 .. n + size(b) /\ ~(n + i <= n) /\ (n + i) - n = i
      BY <1>1
    <3>2. (g \o c)[n + i] = c[(n + i) - n]
      BY <3>1, <1>3
    <3> QED
      BY <3>1, <3>2, <2>1, <1>2, <1>4, <1>5
  <2> QED
    BY <2>1, <2>2, <2>3 DEF Kept, n
<1>6. ASSUME Kept(g, b, f) PROVE g \o c = Bytes(1, f)
  <2>1. n + size(b) = f /\ \A i \in 1 .. n : g[i] = i
    BY <1>6 DEF Kept, n
  <2>2. \A i \in 1 .. size(b) : c[i] = n + i
    BY <1>6, <1>2 DEF Kept, n
  <2>3. \A i \in 1 .. f : (g \o c)[i] = i
    <3> TAKE i \in 1 .. f
    <3>1. CASE i <= n
      BY <3>1, <2>1, <1>1, <1>3
    <3>2. CASE ~(i <= n)
      <4>1. i - n \in 1 .. size(b) /\ n + (i - n) = i
        BY <3>2, <2>1, <1>1
      <4> QED
        BY <3>2, <4>1, <2>1, <2>2, <1>3
    <3> QED
      BY <3>1, <3>2
  <2>4. g \o c \in Seq(Int)
    BY <1>3
  <2> QED
    BY <2>1, <2>3, <2>4, <1>3, <1>4, SeqEqual
<1> QED
  BY <1>5, <1>6 DEF c

\* A delivered sequence and a content that are too long or too short are not the stream.
LEMMA OtherLengthIsDamage ==
  ASSUME NEW g \in Seq(Nat), NEW b, size(b) \in Nat, NEW f \in Nat,
         Len(g) + size(b) # f
  PROVE  g \o Content(b) # Bytes(1, f)
<1>1. PICK S : Content(b) \in Seq(S) /\ Len(Content(b)) = size(b)
  BY ContentIsSeq
<1>2. Content(b) \in Seq(Nat \union S) /\ g \in Seq(Nat \union S)
  BY <1>1, SeqMonotonic
<1>3. Len(g \o Content(b)) = Len(g) + size(b)
  BY <1>1, <1>2, ConcatProperties
<1> QED
  BY <1>3, StreamFromTheStart
-----------------------------------------------------------------------------
\* A step that moves bytes from the front of the content to the bytes delivered,
\* as the reader of rbuffer and drain_wbuffer do, keeps the stream.
LEMMA DeliveryKeepsStream ==
  ASSUME NEW g \in Seq(Nat), NEW b, Valid(b), NEW f \in Nat, Kept(g, b, f),
         NEW n \in 0 .. size(b)
  PROVE  /\ Valid(Advanced(b, n))
         /\ Advanced(b, n).vec = b.vec
         /\ b.lo <= b.hi => Advanced(b, n).lo <= Advanced(b, n).hi
         /\ g \o SubSeq(Content(b), 1, n) \in Seq(Nat)
         /\ Kept(g \o SubSeq(Content(b), 1, n), Advanced(b, n), f)
<1> DEFINE a == Advanced(b, n)
           c == Content(b)
           s == SubSeq(c, 1, n)
           m == Len(g)
           v == Len(b.vec)
<1>1. b \in RingType /\ v \in Nat /\ v > 1 /\ b.lo \in Nat /\ b.hi \in Nat
      /\ b.lo < v /\ b.hi < v /\ m \in Nat
  BY DEF Valid, RingType, vsize
<1>2. size(b) \in 0 .. v - 1 /\ n \in Nat
  BY PlacesOfRing DEF vsize
<1>3. size(b) = IF b.lo <= b.hi THEN b.hi - b.lo ELSE v - (b.lo - b.hi)
  BY DEF size, vsize
<1>4. a = [b EXCEPT !.lo = IF b.lo + n >= v THEN b.lo + n - v ELSE b.lo + n]
  <2>1. MOD(b, b.lo + n) = IF b.lo + n >= v THEN b.lo + n - v ELSE b.lo + n
    BY <1>1, <1>2, ModOfNat DEF vsize
  <2> QED
    BY <2>1 DEF Advanced
<1>5. /\ a \in RingType /\ a.vec = b.vec /\ a.hi = b.hi
      /\ a.lo = IF b.lo + n >= v THEN b.lo + n - v ELSE b.lo + n
  <2>1. (IF b.lo + n >= v THEN b.lo + n - v ELSE b.lo + n) \in Nat
    BY <1>1, <1>2
  <2> QED
    BY <1>1, <1>4, <2>1 DEF RingType, a
<1> HIDE DEF a, v
<1>6. vsize(a) = v /\ vsize(b) = v
  BY <1>5 DEF v, vsize
<1>7. a.lo < v /\ Valid(a)
  BY <1>1, <1>2, <1>3, <1>5, <1>6 DEF Valid
<1>8. size(a) = size(b) - n /\ (b.lo <= b.hi => a.lo <= a.hi)
  BY <1>1, <1>2, <1>3, <1>5, <1>6, SMTT(30) DEF size
<1>9. \A i \in 1 .. size(b) - n : Place(a, i - 1) = Place(b, (n + i) - 1)
  <2> TAKE i \in 1 .. size(b) - n
  <2>1. i \in Nat /\ i - 1 \in 0 .. v - 1 /\ (n + i) - 1 \in 0 .. v - 1
    BY <1>1, <1>2
  <2>2. Place(a, i - 1) = IF a.lo + (i - 1) < v THEN a.lo + (i - 1) + 1
                          ELSE a.lo + (i - 1) + 1 - v
    BY <2>1, <1>6, <1>7, PlacesOfRing
  <2>3. Place(b, (n + i) - 1) = IF b.lo + ((n + i) - 1) < v THEN b.lo + ((n + i) - 1) + 1
                                ELSE b.lo + ((n + i) - 1) + 1 - v
    BY <2>1, <1>6, PlacesOfRing
  <2>4. b.lo \in Nat /\ b.lo < v /\ v \in Nat /\ n \in Nat
        /\ i - 1 < v /\ (n + i) - 1 < v
    BY <1>1, <1>2, <2>1
  <2>5. CASE b.lo + n >= v
    <3>1. a.lo = b.lo + n - v
      BY <1>5, <2>5
    <3>2. /\ b.lo + ((n + i) - 1) >= v
          /\ a.lo + (i - 1) = b.lo + ((n + i) - 1) - v
          /\ a.lo + (i - 1) < v
      BY <2>1, <2>4, <2>5, <3>1
    <3> QED
      BY <2>1, <2>2, <2>3, <2>4, <3>2
  <2>6. CASE ~(b.lo + n >= v)
    <3>1. a.lo = b.lo + n
      BY <1>5, <2>6
    <3>2. a.lo + (i - 1) = b.lo + ((n + i) - 1)
      BY <2>1, <2>4, <3>1
    <3> QED
      BY <2>2, <2>3, <3>2
  <2> QED
    BY <2>5, <2>6
<1>10. c \in Seq(Nat) /\ Len(c) = size(b) /\ \A i \in 1 .. size(b) : c[i] = m + i
  BY ContentOfValid DEF Kept
<1>11. s \in Seq(Nat) /\ Len(s) = n /\ \A i \in 1 .. n : s[i] = c[i]
  <2>1. \A i \in 1 .. n : c[i] \in Nat
    BY <1>2, <1>10, ElementOfSeq
  <2>2. /\ s \in Seq(Nat)
        /\ Len(s) = IF 1 <= n THEN n - 1 + 1 ELSE 0
        /\ \A i \in 1 .. n - 1 + 1 : s[i] = c[1 + i - 1]
    BY <1>2, <2>1, SubSeqProperties
  <2>3. n - 1 + 1 = n /\ \A i \in 1 .. n : 1 + i - 1 = i
    BY <1>2
  <2> QED
    BY <2>2, <2>3, <1>2
<1> HIDE DEF c, s, m
<1>12. /\ g \o s \in Seq(Nat)
       /\ Len(g \o s) = m + n
       /\ \A i \in 1 .. m + n : (g \o s)[i] = IF i <= m THEN g[i] ELSE s[i - m]
  BY <1>11, ConcatProperties DEF m
<1>13. Kept(g \o s, a, f)
  <2>1. Len(g \o s) + size(a) = f
    BY <1>1, <1>2, <1>8, <1>12 DEF Kept, m
  <2>2. \A i \in 1 .. m + n : (g \o s)[i] = i
    <3> TAKE i \in 1 .. m + n
    <3>1. CASE i <= m
      BY <3>1, <1>1, <1>12 DEF Kept, m
    <3>2. CASE ~(i <= m)
      <4>1. i - m \in 1 .. n /\ i - m \in 1 .. size(b) /\ m + (i - m) = i
        BY <3>2, <1>1, <1>2
      <4> QED
        BY <3>2, <4>1, <1>10, <1>11, <1>12
    <3> QED
      BY <3>1, <3>2
  <2>3. \A i \in 1 .. size(a) : a.vec[Place(a, i - 1)] = Len(g \o s) + i
    <3> TAKE i \in 1 .. size(a)
    <3>1. i \in 1 .. size(b) - n /\ n + i \in 1 .. size(b)
      BY <1>2, <1>8
    <3>2. b.vec[Place(b, (n + i) - 1)] = m + (n + i)
      BY <3>1 DEF Kept, m
    <3>3. m + (n + i) = (m + n) + i
      BY <1>1, <1>2
    <3> QED
      BY <3>1, <3>2, <3>3, <1>5, <1>9, <1>12
  <2> QED
    BY <2>1, <2>2, <2>3, <1>12 DEF Kept
<1> QED
  BY <1>5, <1>7, <1>8, <1>12, <1>13 DEF a, c, s

-----------------------------------------------------------------------------
\* reserve keeps every place of vec when the content does not wrap around.
LEMMA ReserveKeepsPlaces ==
  ASSUME NEW b, Valid(b), NEW n \in Nat, b.lo <= b.hi
  PROVE  /\ Valid(reserve(b, n))
         /\ reserve(b, n).lo = b.lo /\ reserve(b, n).hi = b.hi
         /\ vsize(reserve(b, n)) = IF n + 1 <= vsize(b) THEN vsize(b) ELSE n + 1
         /\ \A i \in 1 .. vsize(reserve(b, n)) :
              reserve(b, n).vec[i] = IF i <= vsize(b) THEN b.vec[i] ELSE 0
<1>1. CASE n + 1 <= vsize(b)
  <2>1. reserve(b, n) = b /\ vsize(b) \in Nat
    BY <1>1, PlacesOfRing DEF reserve
  <2> QED
    BY <1>1, <2>1
<1>2. CASE ~(n + 1 <= vsize(b))
  <2> DEFINE v == Len(b.vec)
             w == [i \in 1 .. n + 1 |-> IF i <= v THEN b.vec[i] ELSE 0]
  <2>1. b \in RingType /\ v \in Nat /\ v > 1 /\ b.lo < v /\ b.hi < v
    BY DEF Valid, RingType, vsize
  <2>2. \A i \in 1 .. v : b.vec[i] \in Nat
    BY <2>1, ElementOfSeq DEF RingType
  <2>3. w \in [1 .. n + 1 -> Nat]
    BY <2>1, <2>2
  <2>4. w \in Seq(Nat) /\ Len(w) = n + 1
    BY <2>3, FunctionIsSeq
  <2>5. reserve(b, n) = [b EXCEPT !.vec = w]
    BY <1>2 DEF reserve, Resized, vsize
  <2> HIDE DEF w
  <2>6. /\ reserve(b, n) \in RingType /\ reserve(b, n).vec = w
        /\ reserve(b, n).lo = b.lo /\ reserve(b, n).hi = b.hi
    BY <2>1, <2>4, <2>5 DEF RingType
  <2>7. vsize(reserve(b, n)) = n + 1
    BY <2>4, <2>6 DEF vsize
  <2>8. Valid(reserve(b, n))
    <3>1. v < n + 1 /\ n + 1 \in Nat
      BY <1>2, <2>1 DEF vsize
    <3> QED
      BY <3>1, <2>1, <2>6, <2>7 DEF Valid, RingType
  <2>9. \A i \in 1 .. n + 1 : w[i] = IF i <= vsize(b) THEN b.vec[i] ELSE 0
    BY DEF w, vsize
  <2> QED
    BY <1>2, <2>6, <2>7, <2>8, <2>9
<1> QED
  BY <1>1, <1>2

\* So reserve keeps the stream, ...
LEMMA ReserveKeepsStream ==
  ASSUME NEW g \in Seq(Nat), NEW b, Valid(b), NEW f \in Nat, Kept(g, b, f),
         NoneAhead(b, f), NEW n \in Nat, b.lo <= b.hi \/ n + 1 <= vsize(b)
  PROVE  /\ Valid(reserve(b, n))
         /\ Kept(g, reserve(b, n), f) /\ NoneAhead(reserve(b, n), f)
         /\ reserve(b, n).lo = b.lo /\ reserve(b, n).hi = b.hi
         /\ size(reserve(b, n)) = size(b)
         /\ n <= capacity(reserve(b, n))
         /\ n + 1 > vsize(b) => vsize(reserve(b, n)) = n + 1
<1>1. vsize(b) \in Nat /\ size(b) \in 0 .. vsize(b) - 1
  BY PlacesOfRing
<1>2. CASE n + 1 <= vsize(b)
  <2>1. reserve(b, n) = b
    BY <1>2 DEF reserve
  <2> QED
    BY <1>1, <1>2, <2>1 DEF capacity
<1>3. CASE ~(n + 1 <= vsize(b))
  <2> DEFINE r == reserve(b, n)
             v == vsize(b)
  <2>1. b.lo <= b.hi /\ b.lo \in Nat /\ b.hi \in Nat /\ b.hi < v
    BY <1>3 DEF Valid, RingType
  <2>2. /\ Valid(r) /\ r.lo = b.lo /\ r.hi = b.hi /\ vsize(r) = n + 1
        /\ \A i \in 1 .. n + 1 : r.vec[i] = IF i <= v THEN b.vec[i] ELSE 0
    BY <1>3, <2>1, ReserveKeepsPlaces, Zenon
  <2> HIDE DEF r, v
  <2>3. size(r) = size(b) /\ size(b) = b.hi - b.lo
    BY <2>1, <2>2 DEF size
  <2>4. \A i \in 1 .. size(b) : Place(r, i - 1) = b.lo + i /\ Place(b, i - 1) = b.lo + i
    <3> TAKE i \in 1 .. size(b)
    <3>1. i - 1 \in 0 .. v - 1 /\ i - 1 \in 0 .. vsize(r) - 1
      BY <1>1, <1>3, <2>2 DEF v
    <3>2. /\ Place(b, i - 1) = IF b.lo + (i - 1) < v THEN b.lo + (i - 1) + 1
                               ELSE b.lo + (i - 1) + 1 - v
          /\ Place(r, i - 1) = IF r.lo + (i - 1) < n + 1 THEN r.lo + (i - 1) + 1
                               ELSE r.lo + (i - 1) + 1 - (n + 1)
      BY <3>1, <2>2, PlacesOfRing DEF v
    <3> QED
      BY <3>2, <1>1, <1>3, <2>1, <2>2, <2>3 DEF v
  <2>5. \A i \in 1 .. size(b) : b.lo + i \in 1 .. n + 1 /\ b.lo + i <= v
    BY <1>1, <1>3, <2>1, <2>3 DEF v
  <2>6. Kept(g, r, f)
    BY <2>2, <2>3, <2>4, <2>5, Zenon DEF Kept
  <2>7. NoneAhead(r, f)
    BY <1>1, <1>3, <2>2 DEF NoneAhead, v
  <2> QED
    BY <1>1, <2>2, <2>3, <2>6, <2>7 DEF capacity, r, v
<1> QED
  BY <1>2, <1>3

\* ... and of a content that wraps around it keeps no more bytes than lie before hi.
LEMMA ShiftLosesBytes ==
  ASSUME NEW b, Valid(b), NEW n \in Nat, b.lo > b.hi, n + 1 > vsize(b)
  PROVE  size(reserve(b, n)) \in Nat /\ size(reserve(b, n)) < size(b)
<1> DEFINE v == Len(b.vec)
<1>1. b \in RingType /\ v \in Nat /\ b.lo \in Nat /\ b.hi \in Nat /\ b.lo < v
  BY DEF Valid, RingType, vsize
<1>2. ~(n + 1 <= vsize(b)) /\ ~(b.lo <= b.hi)
  BY <1>1 DEF vsize
<1>3. reserve(b, n).lo = b.lo /\ reserve(b, n).hi = b.lo + b.hi
  BY <1>1, <1>2 DEF reserve, Resized, RingType
<1>4. size(reserve(b, n)) = b.hi
  BY <1>1, <1>3 DEF size
<1>5. size(b) = v - (b.lo - b.hi)
  BY <1>2 DEF size, vsize
<1> QED
  BY <1>1, <1>4, <1>5
-----------------------------------------------------------------------------
LEMMA CopiedPlaces ==
  ASSUME NEW vec \in Seq(Nat), NEW at \in Nat, NEW data \in Seq(Nat)
  PROVE  /\ Copied(vec, at, data) \in Seq(Nat)
         /\ Len(Copied(vec, at, data)) = Len(vec)
         /\ \A p \in 1 .. Len(vec) :
              Copied(vec, at, data)[p] =
                IF at < p /\ p <= at + Len(data) THEN data[p - at] ELSE vec[p]
<1> DEFINE n == Len(vec)
           k == Len(data)
           w == Copied(vec, at, data)
<1>1. n \in Nat /\ k \in Nat
  OBVIOUS
<1>2. \A p \in 1 .. n : p - at \in 1 .. k <=> (at < p /\ p <= at + k)
  BY <1>1
<1>3. \A p \in 1 .. n : vec[p] \in Nat /\ (p - at \in 1 .. k => data[p - at] \in Nat)
  BY ElementOfSeq
<1>4. w \in [1 .. n -> Nat]
  BY <1>3 DEF Copied
<1>5. \A p \in 1 .. n : w[p] = IF p - at \in 1 .. k THEN data[p - at] ELSE vec[p]
  BY DEF Copied
<1> HIDE DEF w, n, k
<1>6. w \in Seq(Nat) /\ Len(w) = n
  BY <1>1, <1>4, FunctionIsSeq
<1> QED
  BY <1>2, <1>5, <1>6 DEF w, n, k

\* The two copies by which n bytes after byte f are stored, the first of them from
\* hi on and the rest at the start of vec.
TwoCopies(b, f, n, first) ==
  Copied(Copied(b.vec, b.hi, SubSeq(Bytes(f + 1, f + n), 1, first)),
         0, SubSeq(Bytes(f + 1, f + n), first + 1, n))

LEMMA TwoCopiesPlaces ==
  ASSUME NEW b, Valid(b), NEW f \in Nat, NEW n \in Nat, NEW first \in 0 .. n
  PROVE  /\ TwoCopies(b, f, n, first) \in Seq(Nat)
         /\ Len(TwoCopies(b, f, n, first)) = vsize(b)
         /\ \A p \in 1 .. vsize(b) :
              TwoCopies(b, f, n, first)[p] =
                IF p <= n - first THEN f + first + p
                ELSE IF b.hi < p /\ p <= b.hi + first THEN f + p - b.hi
                ELSE b.vec[p]
<1> DEFINE d  == Bytes(f + 1, f + n)
           d1 == SubSeq(d, 1, first)
           d2 == SubSeq(d, first + 1, n)
           w1 == Copied(b.vec, b.hi, d1)
           w2 == Copied(w1, 0, d2)
           v  == Len(b.vec)
<1>1. b.vec \in Seq(Nat) /\ v \in Nat /\ b.hi \in Nat /\ first \in Nat /\ first <= n
  BY DEF Valid, RingType
<1>2. \A i \in 1 .. n : d[i] = f + i /\ d[i] \in Nat
  <2>1. f + n \in Nat /\ f + 1 \in Nat /\ f + 1 <= (f + n) + 1 /\ (f + n) - (f + 1) + 1 = n
    OBVIOUS
  <2>2. \A i \in 1 .. n : d[i] = (f + 1) + i - 1
    BY <2>1, BytesAreNumbered
  <2> QED
    BY <2>2
<1> HIDE DEF d
<1>3. d1 \in Seq(Nat) /\ Len(d1) = first /\ \A i \in 1 .. first : d1[i] = f + i
  <2>1. \A i \in 1 .. first : i \in 1 .. n
    BY <1>1
  <2>2. /\ d1 \in Seq(Nat)
        /\ Len(d1) = IF 1 <= first THEN first - 1 + 1 ELSE 0
        /\ \A i \in 1 .. first - 1 + 1 : d1[i] = d[1 + i - 1]
    BY <1>1, <1>2, <2>1, SubSeqProperties
  <2>3. first - 1 + 1 = first /\ \A i \in 1 .. first : 1 + i - 1 = i
    BY <1>1
  <2> QED
    BY <1>1, <1>2, <2>1, <2>2, <2>3
<1>4. d2 \in Seq(Nat) /\ Len(d2) = n - first
      /\ \A i \in 1 .. n - first : d2[i] = f + first + i
  <2>1. \A i \in first + 1 .. n : i \in 1 .. n
    BY <1>1
  <2>2. first + 1 \in Int /\ n \in Int
    BY <1>1
  <2>3. /\ d2 \in Seq(Nat)
        /\ Len(d2) = IF first + 1 <= n THEN n - (first + 1) + 1 ELSE 0
        /\ \A i \in 1 .. n - (first + 1) + 1 : d2[i] = d[(first + 1) + i - 1]
    BY <1>2, <2>1, <2>2, SubSeqProperties
  <2>4. n - (first + 1) + 1 = n - first
    BY <1>1
  <2>5. \A i \in 1 .. n - first :
          (first + 1) + i - 1 \in 1 .. n /\ f + ((first + 1) + i - 1) = f + first + i
    BY <1>1
  <2>6. Len(d2) = n - first
    BY <1>1, <2>3, <2>4
  <2> QED
    BY <1>2, <2>3, <2>4, <2>5, <2>6
<1> HIDE DEF d1, d2, v
<1>5. /\ w1 \in Seq(Nat) /\ Len(w1) = v
      /\ \A p \in 1 .. v : w1[p] = IF b.hi < p /\ p <= b.hi + first
                                   THEN d1[p - b.hi] ELSE b.vec[p]
  <2>1. /\ w1 \in Seq(Nat) /\ Len(w1) = Len(b.vec)
        /\ \A p \in 1 .. Len(b.vec) : w1[p] = IF b.hi < p /\ p <= b.hi + Len(d1)
                                             THEN d1[p - b.hi] ELSE b.vec[p]
    BY <1>1, <1>3, CopiedPlaces, Zenon
  <2> QED
    BY <2>1, <1>3 DEF v
<1> HIDE DEF w1
<1>6. /\ w2 \in Seq(Nat) /\ Len(w2) = v
      /\ \A p \in 1 .. v : w2[p] = IF 0 < p /\ p <= 0 + (n - first)
                                   THEN d2[p - 0] ELSE w1[p]
  <2>1. /\ w2 \in Seq(Nat) /\ Len(w2) = Len(w1)
        /\ \A p \in 1 .. Len(w1) : w2[p] = IF 0 < p /\ p <= 0 + Len(d2)
                                          THEN d2[p - 0] ELSE w1[p]
    BY <1>4, <1>5, CopiedPlaces, SMTT(30)
  <2> QED
    BY <2>1, <1>4, <1>5
<1>7. \A p \in 1 .. v : w1[p] = IF b.hi < p /\ p <= b.hi + first
                                THEN f + p - b.hi ELSE b.vec[p]
  <2> TAKE p \in 1 .. v
  <2>1. CASE b.hi < p /\ p <= b.hi + first
    <3>1. p - b.hi \in 1 .. first /\ f + (p - b.hi) = f + p - b.hi
      BY <1>1, <2>1
    <3> QED
      BY <2>1, <3>1, <1>3, <1>5
  <2>2. CASE ~(b.hi < p /\ p <= b.hi + first)
    BY <2>2, <1>5
  <2> QED
    BY <2>1, <2>2
<1>8. \A p \in 1 .. v : w2[p] = IF p <= n - first THEN f + first + p ELSE w1[p]
  <2> TAKE p \in 1 .. v
  <2>1. CASE p <= n - first
    <3>1. p \in 1 .. n - first /\ 0 < p /\ p <= 0 + (n - first) /\ p - 0 = p
      BY <1>1, <2>1
    <3> QED
      BY <2>1, <3>1, <1>4, <1>6
  <2>2. CASE ~(p <= n - first)
    <3>1. ~(p <= 0 + (n - first))
      BY <1>1, <2>2
    <3> QED
      BY <2>2, <3>1, <1>6
  <2> QED
    BY <2>1, <2>2
<1> HIDE DEF w2
<1>9. TwoCopies(b, f, n, first) = w2 /\ vsize(b) = v
  BY DEF TwoCopies, w2, w1, d1, d2, d, v, vsize
<1> QED
  BY <1>6, <1>7, <1>8, <1>9

\* The ring after n bytes were stored: hi goes on by n.
StoredAt(b, f, n, first) ==
  [b EXCEPT !.vec = TwoCopies(b, f, n, first), !.hi = MOD(b, b.hi + n)]

LEMMA StoredRing ==
  ASSUME NEW b, Valid(b), NEW f \in Nat, NEW n \in Nat, NEW first \in 0 .. n,
         n <= capacity(b) - size(b)
  PROVE  /\ Valid(StoredAt(b, f, n, first))
         /\ vsize(StoredAt(b, f, n, first)) = vsize(b)
         /\ StoredAt(b, f, n, first).vec = TwoCopies(b, f, n, first)
         /\ StoredAt(b, f, n, first).lo = b.lo
         /\ StoredAt(b, f, n, first).hi =
              IF b.hi + n < vsize(b) THEN b.hi + n ELSE b.hi + n - vsize(b)
         /\ size(StoredAt(b, f, n, first)) = size(b) + n
<1> DEFINE v == vsize(b)
           r == StoredAt(b, f, n, first)
           h == IF b.hi + n < v THEN b.hi + n ELSE b.hi + n - v
           w == TwoCopies(b, f, n, first)
<1>1. b \in RingType /\ v \in Nat /\ v > 1 /\ b.lo \in Nat /\ b.hi \in Nat
      /\ b.lo < v /\ b.hi < v
  BY DEF Valid, RingType, vsize
<1>2. size(b) = IF b.lo <= b.hi THEN b.hi - b.lo ELSE v - (b.lo - b.hi)
  BY DEF size
<1>3. n <= (v - 1) - size(b)
  BY DEF capacity
<1>4. MOD(b, b.hi + n) = h
  <2>1. MOD(b, b.hi + n) = IF b.hi + n >= v THEN b.hi + n - v ELSE b.hi + n
    BY <1>1, ModOfNat
  <2> HIDE DEF v
  <2> QED
    BY <1>1, <2>1
<1>5. w \in Seq(Nat) /\ Len(w) = v
  BY TwoCopiesPlaces
<1> HIDE DEF v, w
<1>6. h \in Nat /\ h < v
  BY <1>1, <1>2, <1>3
<1>7. r = [b EXCEPT !.vec = w, !.hi = h]
  BY <1>4 DEF StoredAt, w
<1> HIDE DEF h
<1>8. r \in RingType /\ r.vec = w /\ r.lo = b.lo /\ r.hi = h
  BY <1>1, <1>5, <1>6, <1>7 DEF RingType
<1> HIDE DEF r
<1>9. vsize(r) = v /\ Valid(r)
  BY <1>1, <1>5, <1>6, <1>8 DEF Valid, vsize
<1>10. size(r) = IF b.lo <= h THEN h - b.lo ELSE v - (b.lo - h)
  BY <1>8, <1>9 DEF size
<1>11. size(r) = size(b) + n
  BY <1>1, <1>2, <1>3, <1>10 DEF h
<1> QED
  BY <1>8, <1>9, <1>11 DEF h, r, w, v

\* n bytes fit into the free space from hi to the end of vec, and then from its start.
Fits(b, n, first) ==
  /\ n <= capacity(b) - size(b)
  /\ first <= vsize(b) - b.hi
  /\ n = first \/ first = vsize(b) - b.hi

\* The place of byte i of a content of k old bytes and n new ones, in a ring of v
\* places of which the k bytes take those from lo to hi: an old byte is not written
\* over, and a new one is where one of the two copies puts it.
StoredWhereDue(v, lo, hi, k, n, first, i, p) ==
  /\ i \in 1 .. v /\ p \in 1 .. v
  /\ i <= k => ~(p <= n - first) /\ ~(hi < p /\ p <= hi + first)
  /\ i > k /\ i - k <= first =>
       ~(p <= n - first) /\ hi < p /\ p <= hi + first /\ p - hi = i - k
  /\ i > k /\ ~(i - k <= first) => p <= n - first /\ first + p = i - k

LEMMA PlaceOfStoredByte ==
  ASSUME NEW v \in Nat, NEW lo \in Nat, NEW hi \in Nat, lo < v, hi < v,
         NEW k \in Int, k = IF lo <= hi THEN hi - lo ELSE v - (lo - hi),
         NEW n \in Nat, NEW first \in Nat, first <= n, n <= (v - 1) - k,
         first <= v - hi, n = first \/ first = v - hi,
         NEW i \in 1 .. k + n,
         NEW p \in Int, p = IF lo + i <= v THEN lo + i ELSE lo + i - v
  PROVE  StoredWhereDue(v, lo, hi, k, n, first, i, p)
BY DEF StoredWhereDue

\* n bytes that are stored from hi to the end of vec, and only then from its start,
\* in the free space of the ring, go on with the stream.
LEMMA StoringKeepsStream ==
  ASSUME NEW g \in Seq(Nat), NEW b, Valid(b), NEW f \in Nat, Kept(g, b, f),
         NoneAhead(b, f), NEW n \in Nat, NEW first \in 0 .. n,
         Fits(b, n, first)
  PROVE  /\ Kept(g, StoredAt(b, f, n, first), f + n)
         /\ NoneAhead(StoredAt(b, f, n, first), f + n)
<1> DEFINE r == StoredAt(b, f, n, first)
           w == TwoCopies(b, f, n, first)
           v == vsize(b)
           m == Len(g)
           s == size(b)
<1>1. v \in Nat /\ v > 1 /\ b.lo \in Nat /\ b.hi \in Nat /\ b.lo < v /\ b.hi < v
  BY DEF Valid, RingType, vsize
<1>2. s \in 0 .. v - 1 /\ s = IF b.lo <= b.hi THEN b.hi - b.lo ELSE v - (b.lo - b.hi)
  BY PlacesOfRing DEF size
<1>3. n <= (v - 1) - s
  BY DEF capacity, Fits
<1>4. Valid(r) /\ vsize(r) = v /\ r.vec = w /\ r.lo = b.lo /\ size(r) = s + n
  BY StoredRing DEF Fits
<1>5. \A p \in 1 .. v : w[p] = IF p <= n - first THEN f + first + p
                               ELSE IF b.hi < p /\ p <= b.hi + first THEN f + p - b.hi
                               ELSE b.vec[p]
  BY TwoCopiesPlaces
<1>6. first \in Nat /\ first <= n /\ first <= v - b.hi /\ (n = first \/ first = v - b.hi)
  BY DEF Fits
<1>7. \A i \in 1 .. v :
        /\ Place(b, i - 1) = IF b.lo + i <= v THEN b.lo + i ELSE b.lo + i - v
        /\ Place(r, i - 1) = Place(b, i - 1)
  <2> TAKE i \in 1 .. v
  <2>1. i - 1 \in 0 .. v - 1
    BY <1>1
  <2>2. /\ Place(b, i - 1) = IF b.lo + (i - 1) < v THEN b.lo + (i - 1) + 1
                             ELSE b.lo + (i - 1) + 1 - v
        /\ Place(r, i - 1) = IF r.lo + (i - 1) < v THEN r.lo + (i - 1) + 1
                             ELSE r.lo + (i - 1) + 1 - v
    BY <2>1, <1>4, PlacesOfRing
  <2> HIDE DEF r, v
  <2> QED
    BY <2>2, <1>1, <1>4
<1>8. \A i \in 1 .. s : b.vec[Place(b, i - 1)] = m + i
  BY DEF Kept
<1>9. \A p \in 1 .. v : b.vec[p] <= f /\ b.vec[p] \in Nat
  BY ElementOfSeq DEF NoneAhead, Valid, RingType, vsize
<1>10. m \in Nat /\ s \in Int /\ m + s = f
  BY <1>2 DEF Kept
<1> HIDE DEF r, w, v, m, s
<1>11. \A i \in 1 .. s + n : r.vec[Place(r, i - 1)] = m + i
  <2> TAKE i \in 1 .. s + n
  <2> DEFINE p == IF b.lo + i <= v THEN b.lo + i ELSE b.lo + i - v
  <2>1. i \in Int
    BY <1>10
  <2>2. p \in Int
    BY <2>1, <1>1
  <2>0. p = IF b.lo + i <= v THEN b.lo + i ELSE b.lo + i - v
    BY DEF p
  <2> HIDE DEF p
  <2>3. /\ i \in 1 .. v /\ p \in 1 .. v
        /\ i <= s => ~(p <= n - first) /\ ~(b.hi < p /\ p <= b.hi + first)
        /\ i > s /\ i - s <= first =>
             ~(p <= n - first) /\ b.hi < p /\ p <= b.hi + first /\ p - b.hi = i - s
        /\ i > s /\ ~(i - s <= first) => p <= n - first /\ first + p = i - s
    <3>1. StoredWhereDue(v, b.lo, b.hi, s, n, first, i, p)
      BY <2>2, <2>0, <1>1, <1>2, <1>3, <1>6, <1>10, PlaceOfStoredByte, Zenon
    <3> QED
      BY <3>1 DEF StoredWhereDue
  <2>4. Place(r, i - 1) = p /\ Place(b, i - 1) = p
    BY <2>3, <2>0, <1>7
  <2>5. CASE i <= s
    <3>1. i \in 1 .. s
      BY <2>5, <1>10
    <3> QED
      BY <3>1, <2>3, <2>4, <2>5, <1>4, <1>5, <1>8
  <2>6. CASE ~(i <= s) /\ i - s <= first
    <3>1. i > s
      BY <2>1, <2>6, <1>10
    <3>2. w[p] = f + p - b.hi
      BY <3>1, <2>3, <2>6, <1>5
    <3>3. f + p - b.hi = f + (p - b.hi)
      BY <2>2, <1>1
    <3>4. f + (i - s) = m + i
      BY <2>1, <1>10
    <3> QED
      BY <3>1, <3>2, <3>3, <3>4, <2>3, <2>4, <2>6, <1>4
  <2>7. CASE ~(i <= s) /\ ~(i - s <= first)
    <3>1. i > s
      BY <2>1, <2>7, <1>10
    <3>2. w[p] = f + first + p
      BY <3>1, <2>3, <2>7, <1>5
    <3>3. f + first + p = f + (first + p)
      BY <2>2, <1>6
    <3>4. f + (i - s) = m + i
      BY <2>1, <1>10
    <3> QED
      BY <3>1, <3>2, <3>3, <3>4, <2>3, <2>4, <2>7, <1>4
  <2> QED
    BY <2>5, <2>6, <2>7
<1>12. Kept(g, r, f + n)
  <2>1. m + (s + n) = f + n
    BY <1>10
  <2>2. \A i \in 1 .. Len(g) : g[i] = i
    BY DEF Kept
  <2> QED
    BY <2>1, <2>2, <1>4, <1>11 DEF Kept, m
<1>13. NoneAhead(r, f + n)
  <2> SUFFICES ASSUME NEW p \in 1 .. v PROVE w[p] <= f + n
    BY <1>4 DEF NoneAhead
  <2>1. CASE p <= n - first
    BY <2>1, <1>5, <1>6
  <2>2. CASE ~(p <= n - first) /\ b.hi < p /\ p <= b.hi + first
    <3>1. w[p] = f + p - b.hi
      BY <2>2, <1>5
    <3> QED
      BY <3>1, <2>2, <1>1, <1>6
  <2>3. CASE ~(p <= n - first) /\ ~(b.hi < p /\ p <= b.hi + first)
    <3>1. w[p] = b.vec[p] /\ b.vec[p] \in Nat /\ b.vec[p] <= f
      BY <2>3, <1>5, <1>9
    <3> QED
      BY <3>1
  <2> QED
    BY <2>1, <2>2, <2>3
<1> QED
  BY <1>12, <1>13 DEF r

\* A new byte whose place neither copy writes: what is found there was fed before,
\* and the stream is spoiled.
LEMMA PlaceNotWrittenIsDamage ==
  ASSUME NEW g \in Seq(Nat), NEW b, Valid(b), NEW f \in Nat, Kept(g, b, f),
         NoneAhead(b, f), NEW n \in Nat, NEW first \in 0 .. n,
         n <= capacity(b) - size(b),
         NEW i \in Nat, size(b) < i, i <= size(b) + n,
         NEW p \in 1 .. vsize(b),
         p = IF b.lo + i <= vsize(b) THEN b.lo + i ELSE b.lo + i - vsize(b),
         ~(p <= n - first), ~(b.hi < p /\ p <= b.hi + first)
  PROVE  g \o Content(StoredAt(b, f, n, first)) # Bytes(1, f + n)
<1> DEFINE r == StoredAt(b, f, n, first)
           w == TwoCopies(b, f, n, first)
           v == vsize(b)
           m == Len(g)
           s == size(b)
<1>1. Valid(r) /\ vsize(r) = v /\ r.vec = w /\ r.lo = b.lo /\ size(r) = s + n
  BY StoredRing
<1>2. w[p] = b.vec[p]
  <2>1. \A q \in 1 .. v : w[q] = IF q <= n - first THEN f + first + q
                                 ELSE IF b.hi < q /\ q <= b.hi + first THEN f + q - b.hi
                                 ELSE b.vec[q]
    BY TwoCopiesPlaces
  <2> HIDE DEF w
  <2> QED
    BY <2>1
<1>3. b.vec[p] <= f /\ b.vec[p] \in Nat
  BY ElementOfSeq DEF NoneAhead, Valid, RingType, vsize
<1>4. m \in Nat /\ s \in Nat /\ m + s = f /\ v \in Nat /\ s <= v - 1
  BY PlacesOfRing DEF Kept
<1>5. s < i /\ i <= s + n /\ n <= (v - 1) - s
  BY DEF capacity
<1>6. p = IF b.lo + i <= v THEN b.lo + i ELSE b.lo + i - v
  OBVIOUS
<1>7. b.lo \in Nat
  BY DEF Valid, RingType
<1> HIDE DEF r, w, v, m, s
<1>8. i - 1 \in 0 .. v - 1 /\ i \in 1 .. s + n /\ m + i > f
  BY <1>4, <1>5
<1>9. Place(r, i - 1) = p
  <2>1. Place(r, i - 1) = IF b.lo + (i - 1) < v THEN b.lo + (i - 1) + 1
                          ELSE b.lo + (i - 1) + 1 - v
    BY <1>1, <1>8, PlacesOfRing
  <2> QED
    <3>1. v \in Nat
      BY <1>4
    <3>2. /\ b.lo + (i - 1) + 1 = b.lo + i
          /\ b.lo + (i - 1) + 1 - v = b.lo + i - v
          /\ b.lo + (i - 1) < v <=> b.lo + i <= v
      BY <3>1, <1>7, <1>8
    <3> QED
      BY <2>1, <3>2, <1>6, Zenon
<1>10. f + n \in Nat
  OBVIOUS
<1> SUFFICES ASSUME Kept(g, r, f + n) PROVE FALSE
  BY <1>1, <1>10, KeptIsStream DEF r
<1>11. w[p] = m + i
  BY <1>1, <1>8, <1>9 DEF Kept, m
<1> QED
  BY <1>2, <1>3, <1>4, <1>8, <1>11

-----------------------------------------------------------------------------
LEMMA InitBufferInv == Init => BufferInv
<1> SUFFICES ASSUME Init PROVE BufferInv
  OBVIOUS
<1> DEFINE w == [i \in 1 .. VecSize |-> 0]
<1>1. VecSize \in Nat /\ VecSize > 1
  BY SizeAssumption
<1>2. w \in [1 .. VecSize -> Nat]
  OBVIOUS
<1>3. w \in Seq(Nat) /\ Len(w) = VecSize /\ \A i \in 1 .. VecSize : w[i] = 0
  BY <1>1, <1>2, FunctionIsSeq
<1> HIDE DEF w
<1>4. buf = [vec |-> w, lo |-> 0, hi |-> 0]
  BY DEF Init, NewRing, w
<1>5. buf \in RingType /\ buf.vec = w /\ buf.lo = 0 /\ buf.hi = 0
  BY <1>3, <1>4 DEF RingType
<1>6. vsize(buf) = VecSize /\ size(buf) = 0
  BY <1>3, <1>5 DEF vsize, size
<1>7. Valid(buf)
  BY <1>1, <1>5, <1>6 DEF Valid
<1>8. given = << >> /\ fed = 0 /\ given \in Seq(Nat) /\ Len(given) = 0
  BY EmptySeq DEF Init
<1>9. Kept(given, buf, fed)
  BY <1>6, <1>8 DEF Kept
<1>10. NoneAhead(buf, fed)
  BY <1>3, <1>5, <1>6, <1>8 DEF NoneAhead
<1> QED
  BY <1>5, <1>7, <1>8, <1>9, <1>10 DEF Init, BufferInv, Sound

\* What feed_rbuffer and feed_wbuffer do to vec and hi is StoredAt.
LEMMA ReadIntoIsStoredAt ==
  ASSUME NEW b, NEW f \in Nat, NEW n \in Nat
  PROVE  ReadInto(b, Bytes(f + 1, f + n)) =
           StoredAt(b, f, n, IF n < Room(b)[1] THEN n ELSE Room(b)[1])
<1> DEFINE d == Bytes(f + 1, f + n)
           k == IF n < Room(b)[1] THEN n ELSE Room(b)[1]
<1>1. Len(d) = n
  <2>1. f + n \in Nat /\ f + 1 \in Nat /\ f + 1 <= (f + n) + 1 /\ (f + n) - (f + 1) + 1 = n
    OBVIOUS
  <2> QED
    BY <2>1, BytesAreNumbered
<1> HIDE DEF d
<1>2. ReadInto(b, d) =
        [b EXCEPT !.vec = Copied(Copied(b.vec, b.hi, SubSeq(d, 1, k)),
                                 0, SubSeq(d, k + 1, n)),
                  !.hi = MOD(b, b.hi + n)]
  BY <1>1 DEF ReadInto
<1> QED
  BY <1>2 DEF StoredAt, TwoCopies, d

LEMMA StoredIsStoredAt ==
  ASSUME NEW b, NEW f \in Nat, NEW n \in Nat
  PROVE  Stored(b, Bytes(f + 1, f + n)) =
           StoredAt(b, f, n, IF b.lo < b.hi /\ vsize(b) - b.hi < n
                             THEN vsize(b) - b.hi ELSE n)
<1> DEFINE d == Bytes(f + 1, f + n)
           k == IF b.lo < b.hi /\ vsize(b) - b.hi < n THEN vsize(b) - b.hi ELSE n
<1>1. Len(d) = n
  <2>1. f + n \in Nat /\ f + 1 \in Nat /\ f + 1 <= (f + n) + 1 /\ (f + n) - (f + 1) + 1 = n
    OBVIOUS
  <2> QED
    BY <2>1, BytesAreNumbered
<1> HIDE DEF d
<1>2. Stored(b, d) =
        [b EXCEPT !.vec = Copied(Copied(b.vec, b.hi, SubSeq(d, 1, k)),
                                 0, SubSeq(d, k + 1, n)),
                  !.hi = MOD(b, b.hi + n)]
  BY <1>1 DEF Stored
<1> QED
  BY <1>2 DEF StoredAt, TwoCopies, d

\* The expansion of feed_rbuffer keeps the stream and leaves free space.
LEMMA WidenedKeepsStream ==
  ASSUME NEW g \in Seq(Nat), NEW b, Valid(b), NEW f \in Nat, Kept(g, b, f),
         NoneAhead(b, f), b.lo <= b.hi
  PROVE  /\ Valid(Widened(b)) /\ Kept(g, Widened(b), f) /\ NoneAhead(Widened(b), f)
         /\ Widened(b).lo = b.lo /\ Widened(b).hi = b.hi
         /\ Room(Widened(b)) = <<vsize(Widened(b)) - b.hi - 1, b.lo>>
         /\ size(Widened(b)) < capacity(Widened(b))
<1> DEFINE r == Widened(b)
<1>1. vsize(b) \in Nat /\ vsize(b) > 1 /\ size(b) \in Nat /\ size(b) <= vsize(b) - 1
  BY PlacesOfRing DEF Valid
<1>2. /\ Valid(r) /\ Kept(g, r, f) /\ NoneAhead(r, f) /\ r.lo = b.lo /\ r.hi = b.hi
      /\ size(r) < capacity(r)
  <2>1. CASE capacity(b) - size(b) <= capacity(b) \div 4
    <3>1. r = reserve(b, 2 * capacity(b))
      BY <2>1 DEF Widened
    <3>2. 2 * capacity(b) \in Nat /\ 2 * capacity(b) + 1 > vsize(b)
      BY <1>1 DEF capacity
    <3>3. /\ Valid(r) /\ Kept(g, r, f) /\ NoneAhead(r, f) /\ r.lo = b.lo /\ r.hi = b.hi
          /\ size(r) = size(b) /\ vsize(r) = 2 * capacity(b) + 1
      BY <3>1, <3>2, ReserveKeepsStream
    <3>4. size(b) < 2 * capacity(b)
      BY <1>1 DEF capacity
    <3>5. capacity(r) = 2 * capacity(b)
      BY <1>1, <3>2, <3>3 DEF capacity
    <3> QED
      BY <3>3, <3>4, <3>5
  <2>2. CASE ~(capacity(b) - size(b) <= capacity(b) \div 4)
    <3>1. r = b
      BY <2>2 DEF Widened
    <3>2. capacity(b) \in Nat /\ capacity(b) \div 4 \in Nat
      BY <1>1 DEF capacity
    <3>3. size(b) < capacity(b)
      BY <1>1, <2>2, <3>2
    <3> QED
      BY <3>1, <3>3
  <2> QED
    BY <2>1, <2>2
<1>3. Room(r) = <<vsize(r) - b.hi - 1, b.lo>>
  BY <1>2 DEF Room
<1> QED
  BY <1>2, <1>3

-----------------------------------------------------------------------------
LEMMA FeedRbufferKeepsInv ==
  ASSUME BufferInv, damage = "none", NEW n \in Nat, FeedRbuffer(n)
  PROVE  BufferInv'
<1> DEFINE b     == Widened(buf)
           free  == vsize(b) - b.hi - 1
           first == IF n < free THEN n ELSE free
<1>1. Sound /\ fed \in Nat /\ given \in Seq(Nat) /\ role = "rbuffer" /\ buf.lo <= buf.hi
  BY DEF BufferInv, Sound, FeedRbuffer
<1>2. /\ Valid(b) /\ Kept(given, b, fed) /\ NoneAhead(b, fed)
      /\ b.lo = buf.lo /\ b.hi = buf.hi /\ Room(b) = <<free, b.lo>>
  BY <1>1, WidenedKeepsStream DEF Sound
<1>3. /\ buf' = ReadInto(b, Bytes(fed + 1, fed + n)) /\ fed' = fed + n
      /\ damage' = (IF buf.lo <= buf.hi /\ n > Room(b)[1] THEN "skipped" ELSE "none")
      /\ n <= Room(b)[1] + Room(b)[2]
      /\ role' = role /\ given' = given
  BY DEF FeedRbuffer
<1> HIDE DEF b
<1>4. buf' = StoredAt(b, fed, n, first)
  <2>1. Room(b)[1] = free
    BY <1>2
  <2>2. ReadInto(b, Bytes(fed + 1, fed + n)) =
          StoredAt(b, fed, n, IF n < Room(b)[1] THEN n ELSE Room(b)[1])
    BY <1>1, ReadIntoIsStoredAt
  <2> QED
    BY <1>3, <2>1, <2>2
<1>5. vsize(b) \in Nat /\ b.lo \in Nat /\ b.hi \in Nat /\ b.hi < vsize(b) /\ b.lo <= b.hi
  BY <1>1, <1>2, PlacesOfRing DEF Valid, RingType
<1>6. size(b) = b.hi - b.lo /\ capacity(b) = vsize(b) - 1
  BY <1>5 DEF size, capacity
<1>7. n <= free + b.lo
  BY <1>2, <1>3
<1>8. first \in 0 .. n /\ n <= capacity(b) - size(b)
  BY <1>5, <1>6, <1>7
<1>9. fed' \in Nat /\ given' \in Seq(Nat) /\ role' \in {"rbuffer", "wbuffer"}
  BY <1>1, <1>3
<1>10. CASE n <= free
  <2>1. first = n /\ Fits(b, n, first)
    BY <1>5, <1>8, <1>10 DEF Fits
  <2>2. damage' = "none"
    BY <1>2, <1>3, <1>5, <1>10
  <2>3. Valid(buf') /\ Kept(given, buf', fed + n) /\ NoneAhead(buf', fed + n)
    BY <1>1, <1>2, <1>4, <1>8, <2>1, StoredRing, StoringKeepsStream
  <2>4. buf'.lo = b.lo
        /\ buf'.hi = IF b.hi + n < vsize(b) THEN b.hi + n ELSE b.hi + n - vsize(b)
    BY <1>1, <1>2, <1>4, <1>8, StoredRing
  <2>5. b.hi + n < vsize(b) /\ b.lo <= b.hi + n
    BY <1>5, <1>10
  <2>6. buf'.lo <= buf'.hi
    BY <2>4, <2>5
  <2>7. Sound'
    BY <1>3, <2>3, <2>6 DEF Sound
  <2> QED
    BY <1>9, <2>2, <2>7 DEF BufferInv
<1>11. CASE ~(n <= free)
  <2>1. first = free /\ n > free
    BY <1>5, <1>11
  <2>2. damage' = "skipped"
    BY <1>1, <1>2, <1>3, <2>1
  <2> DEFINE i == vsize(b) - b.lo
             p == vsize(b)
  <2>3. /\ i \in Nat /\ size(b) < i /\ i <= size(b) + n /\ p \in 1 .. vsize(b)
        /\ p = IF b.lo + i <= vsize(b) THEN b.lo + i ELSE b.lo + i - vsize(b)
        /\ ~(p <= n - first) /\ ~(b.hi < p /\ p <= b.hi + first)
    BY <1>5, <1>6, <1>7, <2>1
  <2> HIDE DEF i, p, first
  <2>4. given \o Content(StoredAt(b, fed, n, first)) # Bytes(1, fed + n)
    BY <1>1, <1>2, <1>8, <2>3, PlaceNotWrittenIsDamage
  <2>5. (given \o Content(buf))' = given \o Content(StoredAt(b, fed, n, first))
    BY <1>3, <1>4 DEF Content, size, vsize, Place, MOD
  <2> QED
    BY <1>3, <1>9, <2>2, <2>4, <2>5 DEF BufferInv, Bytes
<1> QED
  BY <1>10, <1>11

LEMMA FeedWbufferKeepsInv ==
  ASSUME BufferInv, damage = "none", NEW n \in Nat, FeedWbuffer(n)
  PROVE  BufferInv'
<1> DEFINE b       == ensure_space(buf, n)
           k       == size(buf) + n
           shifted == buf.lo > buf.hi /\ b # buf
<1>1. Sound /\ fed \in Nat /\ given \in Seq(Nat) /\ role = "wbuffer" /\ n > 0
  BY DEF BufferInv, Sound, FeedWbuffer
<1>2. /\ buf' = (IF shifted THEN b ELSE Stored(b, Bytes(fed + 1, fed + n)))
      /\ fed' = (IF shifted THEN fed ELSE fed + n)
      /\ damage' = (IF shifted THEN "shifted"
                    ELSE IF b.lo = b.hi /\ b.hi + n > vsize(b) THEN "overrun" ELSE "none")
      /\ role' = role /\ given' = given
  BY DEF FeedWbuffer
<1>3. /\ Valid(buf) /\ Kept(given, buf, fed) /\ NoneAhead(buf, fed)
      /\ buf.lo \in Nat /\ buf.hi \in Nat /\ vsize(buf) \in Nat /\ size(buf) \in Nat
      /\ k \in Nat
  BY <1>1, PlacesOfRing DEF Sound, Valid, RingType
<1>4. b = reserve(buf, k)
  BY DEF ensure_space
<1> HIDE DEF b, k
<1>5. fed' \in Nat /\ given' \in Seq(Nat) /\ role' \in {"rbuffer", "wbuffer"}
  BY <1>1, <1>2
<1>6. CASE buf.lo > buf.hi /\ k + 1 > vsize(buf)
  <2>1. size(b) \in Nat /\ size(b) < size(buf)
    BY <1>3, <1>4, <1>6, ShiftLosesBytes
  <2>2. b # buf
    BY <1>3, <2>1
  <2>3. shifted
    BY <1>6, <2>2
  <2> HIDE DEF shifted
  <2>4. buf' = b /\ fed' = fed /\ damage' = "shifted"
    BY <1>2, <2>3
  <2>5. Len(given) + size(b) # fed
    <3>1. Len(given) \in Nat /\ Len(given) + size(buf) = fed
      BY <1>1, <1>3 DEF Kept
    <3> QED
      BY <1>3, <2>1, <3>1
  <2>6. given \o Content(b) # Bytes(1, fed)
    BY <1>1, <2>1, <2>5, OtherLengthIsDamage
  <2>7. (given \o Content(buf))' = given \o Content(b)
    BY <1>2, <2>4 DEF Content, size, vsize, Place, MOD
  <2> QED
    BY <1>5, <2>4, <2>6, <2>7 DEF BufferInv, Bytes
<1>7. CASE ~(buf.lo > buf.hi /\ k + 1 > vsize(buf))
  <2>1. buf.lo <= buf.hi \/ k + 1 <= vsize(buf)
    BY <1>3, <1>7
  <2>2. ~shifted
    BY <1>4, <1>3, <2>1 DEF reserve
  <2>3. /\ Valid(b) /\ Kept(given, b, fed) /\ NoneAhead(b, fed)
        /\ size(b) = size(buf) /\ k <= capacity(b)
    BY <1>1, <1>3, <1>4, <2>1, ReserveKeepsStream
  <2> DEFINE v == vsize(b)
             first == IF b.lo < b.hi /\ v - b.hi < n THEN v - b.hi ELSE n
  <2>4. /\ v \in Nat /\ v > 1 /\ b.lo \in Nat /\ b.hi \in Nat /\ b.lo < v /\ b.hi < v
        /\ size(b) \in Nat
        /\ size(b) = IF b.lo <= b.hi THEN b.hi - b.lo ELSE v - (b.lo - b.hi)
    BY <2>3, PlacesOfRing DEF Valid, RingType, size
  <2>5. n <= capacity(b) - size(b) /\ capacity(b) = v - 1
    BY <1>3, <2>3, <2>4 DEF k, capacity
  <2>6. buf' = StoredAt(b, fed, n, first) /\ fed' = fed + n
    BY <1>1, <1>2, <2>2, StoredIsStoredAt
  <2>7. first \in 0 .. n
    BY <2>4
  <2>8. CASE b.lo = b.hi /\ b.hi + n > v
    <3>1. damage' = "overrun"
      BY <1>2, <2>2, <2>8
    <3> DEFINE i == v - b.lo + 1
    <3>2. first = n
      BY <2>4, <2>8
    <3>3. /\ i \in Nat /\ size(b) < i /\ i <= size(b) + n /\ 1 \in 1 .. v
          /\ 1 = IF b.lo + i <= v THEN b.lo + i ELSE b.lo + i - v
          /\ ~(1 <= n - first) /\ ~(b.hi < 1 /\ 1 <= b.hi + first)
      BY <2>4, <2>5, <2>8, <3>2
    <3> HIDE DEF i, first
    <3>4. given \o Content(StoredAt(b, fed, n, first)) # Bytes(1, fed + n)
      BY <1>1, <2>3, <2>5, <2>7, <3>3, PlaceNotWrittenIsDamage
    <3>5. (given \o Content(buf))' = given \o Content(StoredAt(b, fed, n, first))
      BY <1>2, <2>6 DEF Content, size, vsize, Place, MOD
    <3> QED
      BY <1>5, <2>6, <3>1, <3>4, <3>5 DEF BufferInv, Bytes
  <2>9. CASE ~(b.lo = b.hi /\ b.hi + n > v)
    <3>1. damage' = "none"
      BY <1>2, <2>2, <2>9
    <3>2. Fits(b, n, first)
      <4>1. first <= v - b.hi /\ (n = first \/ first = v - b.hi)
        BY <2>4, <2>5, <2>9
      <4> HIDE DEF first
      <4> QED
        BY <4>1, <2>5 DEF Fits
    <3> HIDE DEF first
    <3>3. Valid(buf') /\ Kept(given, buf', fed + n) /\ NoneAhead(buf', fed + n)
      BY <1>1, <2>3, <2>5, <2>6, <2>7, <3>2, StoredRing, StoringKeepsStream
    <3>4. Sound'
      BY <1>1, <1>2, <2>6, <3>3 DEF Sound
    <3> QED
      BY <1>5, <3>1, <3>4 DEF BufferInv
  <2> QED
    BY <2>8, <2>9
<1> QED
  BY <1>6, <1>7

\* The three steps that deliver bytes: lo goes on by their number.
LEMMA DeliveryKeepsInv ==
  ASSUME BufferInv, damage = "none", NEW n \in Nat, n <= size(buf),
         buf' = Advanced(buf, n), given' = given \o SubSeq(Content(buf), 1, n),
         UNCHANGED <<role, feeding, fed, damage>>
  PROVE  BufferInv'
<1>1. Sound /\ fed \in Nat /\ given \in Seq(Nat)
  BY DEF BufferInv
<1>2. size(buf) \in Nat /\ n \in 0 .. size(buf)
  BY <1>1, PlacesOfRing DEF Sound
<1>3. /\ Valid(buf') /\ buf'.vec = buf.vec /\ given' \in Seq(Nat)
      /\ buf.lo <= buf.hi => buf'.lo <= buf'.hi
      /\ Kept(given', buf', fed)
  BY <1>1, <1>2, DeliveryKeepsStream DEF Sound
<1>4. NoneAhead(buf', fed)
  BY <1>1, <1>3 DEF Sound, NoneAhead, vsize
<1>5. Sound'
  BY <1>1, <1>3, <1>4 DEF Sound
<1> QED
  BY <1>1, <1>3, <1>5 DEF BufferInv

LEMMA NextKeepsBufferInv == BufferInv /\ [Next]_vars => BufferInv'
<1> SUFFICES ASSUME BufferInv, [Next]_vars PROVE BufferInv'
  OBVIOUS
<1>1. ASSUME damage = "none", NEW n \in 0 .. MaxBytes - fed,
             FeedRbuffer(n) \/ FeedWbuffer(n)
      PROVE  BufferInv'
  <2>1. n \in Nat
    OBVIOUS
  <2> QED
    BY <1>1, <2>1, FeedRbufferKeepsInv, FeedWbufferKeepsInv
<1>2. ASSUME damage = "none", NEW n \in 1 .. MaxBytes, Read(n)
      PROVE  BufferInv'
  <2>1. n \in Nat
    OBVIOUS
  <2> QED
    BY <1>2, <2>1, DeliveryKeepsInv DEF Read
<1>3. ASSUME damage = "none"
      PROVE  LET p == Pieces(buf)
             IN  /\ Sound /\ fed \in Nat /\ given \in Seq(Nat)
                 /\ p[1] \in Nat /\ p[2] \in Nat /\ p[1] + p[2] \in Nat
                 /\ size(buf) > 0 => p[1] > 0 /\ p[1] + p[2] = size(buf)
  <2>1. Sound /\ fed \in Nat /\ given \in Seq(Nat)
    BY <1>3 DEF BufferInv
  <2> DEFINE v == vsize(buf)
  <2>2. /\ v \in Nat /\ buf.lo \in Nat /\ buf.hi \in Nat /\ buf.lo < v /\ buf.hi < v
        /\ size(buf) = IF buf.lo <= buf.hi THEN buf.hi - buf.lo ELSE v - (buf.lo - buf.hi)
    BY <2>1, PlacesOfRing DEF Sound, Valid, RingType, size
  <2>3. Pieces(buf) = IF buf.lo < buf.hi THEN <<buf.hi - buf.lo, 0>>
                      ELSE <<v - buf.lo, buf.hi>>
    BY DEF Pieces
  <2> HIDE DEF v
  <2>4. CASE buf.lo < buf.hi
    BY <2>1, <2>2, <2>3, <2>4
  <2>5. CASE ~(buf.lo < buf.hi)
    BY <2>1, <2>2, <2>3, <2>5
  <2> QED
    BY <2>4, <2>5
<1>4. ASSUME damage = "none", NEW n \in 1 .. MaxBytes, DrainFirst(n)
      PROVE  BufferInv'
  <2>1. n \in Nat /\ n <= size(buf)
    BY <1>3, <1>4, PlacesOfRing DEF DrainFirst, Sound
  <2> QED
    BY <1>4, <2>1, DeliveryKeepsInv DEF DrainFirst
<1>5. ASSUME damage = "none", NEW n \in 1 .. MaxBytes, DrainBoth(n)
      PROVE  BufferInv'
  <2> DEFINE all == Pieces(buf)[1] + n
  <2>1. all \in Nat /\ all <= size(buf)
    <3>1. size(buf) > 0 /\ n <= Pieces(buf)[2]
      BY <1>5 DEF DrainBoth
    <3>2. Pieces(buf)[1] \in Nat /\ Pieces(buf)[2] \in Nat
          /\ Pieces(buf)[1] + Pieces(buf)[2] = size(buf)
      BY <1>3, <1>5, <3>1
    <3> QED
      BY <3>1, <3>2
  <2>2. /\ buf' = Advanced(buf, all) /\ given' = given \o SubSeq(Content(buf), 1, all)
        /\ UNCHANGED <<role, feeding, fed, damage>>
    BY <1>5 DEF DrainBoth
  <2> HIDE DEF all
  <2> QED
    BY <1>5, <2>1, <2>2, DeliveryKeepsInv
<1>6. ASSUME damage = "none", DrainFails
      PROVE  BufferInv'
  <2> DEFINE k == Pieces(buf)[1]
             s == SubSeq(Content(buf), 1, k)
  <2>1. /\ size(buf) > 0 /\ given' = given \o s /\ damage' = "repeated"
        /\ UNCHANGED <<role, buf, feeding, fed>>
    BY <1>6 DEF DrainFails
  <2>2. k \in Nat /\ k > 0 /\ k <= size(buf)
    BY <1>3, <1>6, <2>1, PlacesOfRing
  <2>3. size(buf) \in Nat /\ Len(given) \in Nat /\ Len(given) + size(buf) = fed
    BY <1>3, <1>6, PlacesOfRing DEF Sound, Kept
  <2>4. Content(buf) \in Seq(Nat) /\ Len(Content(buf)) = size(buf)
    BY <1>3, <1>6, ContentOfValid DEF Sound
  <2> HIDE DEF k
  <2>5. s \in Seq(Nat) /\ Len(s) = k
    <3>1. \A i \in 1 .. k : Content(buf)[i] \in Nat
      BY <2>2, <2>3, <2>4, ElementOfSeq
    <3>2. s \in Seq(Nat) /\ Len(s) = IF 1 <= k THEN k - 1 + 1 ELSE 0
      BY <2>2, <3>1, SubSeqProperties
    <3> QED
      BY <2>2, <3>2
  <2> HIDE DEF s
  <2>6. given' \in Seq(Nat) /\ Len(given') = Len(given) + k
    BY <1>3, <1>6, <2>1, <2>5, ConcatProperties
  <2>7. Len(given') + size(buf) # fed
    BY <2>2, <2>3, <2>6
  <2>8. given' \o Content(buf) # Bytes(1, fed)
    BY <1>3, <1>6, <2>3, <2>6, <2>7, OtherLengthIsDamage
  <2>9. (given \o Content(buf))' = given' \o Content(buf)
    BY <2>1 DEF Content, size, vsize, Place, MOD
  <2> QED
    BY <2>1, <2>6, <2>8, <2>9 DEF BufferInv, Bytes
<1>7. CASE UNCHANGED vars
  BY <1>7 DEF vars, BufferInv, Sound, Valid, Kept, NoneAhead, RingType, Content, Bytes,
              size, vsize, Place, MOD
<1> QED
  BY <1>1, <1>2, <1>4, <1>5, <1>6, <1>7 DEF Next

LEMMA BufferInvHolds == Spec => []BufferInv
BY InitBufferInv, NextKeepsBufferInv, PTL DEF Spec

-----------------------------------------------------------------------------
\* The bytes delivered and those in the ring are the stream that was fed unless one
\* of the four situations has come up, and never are once one has: for every size
\* of vec, every length of the stream and every sequence of calls of feed_rbuffer,
\* reader(), feed_wbuffer and drain_wbuffer (Buffer.h:251-317).
THEOREM StreamIsKept == Spec => []StreamIsKeptUnlessDamaged
<1>1. BufferInv => StreamIsKeptUnlessDamaged
  BY KeptIsStream DEF BufferInv, Sound, StreamIsKeptUnlessDamaged
<1> QED
  BY <1>1, BufferInvHolds, PTL

\* Whatever came before, feed_rbuffer has room for at least one byte when it calls
\* readv, whose 0 can then only mean the end of the stream (Buffer.h:255-272).
THEOREM ReadvAlwaysHasRoom == Spec => []ReadvHasRoom
<1>1. BufferInv => ReadvHasRoom
  <2> SUFFICES ASSUME BufferInv, role = "rbuffer", damage = "none"
               PROVE  Room(Widened(buf))[1] + Room(Widened(buf))[2] > 0
    BY DEF ReadvHasRoom
  <2> DEFINE b == Widened(buf)
  <2>1. Sound /\ buf.lo <= buf.hi /\ fed \in Nat /\ given \in Seq(Nat)
    BY DEF BufferInv, Sound
  <2>2. /\ Valid(b) /\ b.lo = buf.lo /\ b.hi = buf.hi
        /\ Room(b) = <<vsize(b) - b.hi - 1, b.lo>>
        /\ size(b) < capacity(b)
    BY <2>1, WidenedKeepsStream DEF Sound
  <2> HIDE DEF b
  <2>3. Room(b)[1] = vsize(b) - b.hi - 1 /\ Room(b)[2] = b.lo
    BY <2>2
  <2>4. /\ vsize(b) \in Nat /\ b.lo \in Nat /\ b.hi \in Nat
        /\ b.hi - b.lo < vsize(b) - 1
    BY <2>1, <2>2, PlacesOfRing DEF Valid, RingType, size, capacity
  <2> QED
    BY <2>3, <2>4 DEF b
<1> QED
  BY <1>1, BufferInvHolds, PTL
=============================================================================
