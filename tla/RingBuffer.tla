----------------------------- MODULE RingBuffer -----------------------------
(***************************************************************************)
(* The class RingBuffer of net/Buffer.h, which Buffer and TimingWheel use: *)
(* a record of the vector vec, whose place i is vec[i + 1], and of lo and  *)
(* hi, between which the content lies.  One place stays free.              *)
(***************************************************************************)
EXTENDS Integers, Sequences

NewRing(n, value) == [vec |-> [i \in 1 .. n |-> value], lo |-> 0, hi |-> 0]

vsize(b) == Len(b.vec)

size(b) == IF b.lo <= b.hi THEN b.hi - b.lo ELSE vsize(b) - (b.lo - b.hi)

capacity(b) == vsize(b) - 1

\* Mutant of MOD: the size itself is taken for a place.
ModLate(b, i) == IF i < 0 THEN vsize(b) - 1 ELSE IF i > vsize(b) THEN i - vsize(b) ELSE i

MOD(b, i) == IF i < 0 THEN vsize(b) - 1 ELSE IF i >= vsize(b) THEN i - vsize(b) ELSE i

full(b) == size(b) = capacity(b)

\* operator[], which looks at no bounds: index size(b) is the free place.
Place(b, index) == MOD(b, b.lo + index) + 1
=============================================================================
