------------------------------- MODULE Buffer -------------------------------
(***************************************************************************)
(* The two ring buffers of a transport, net/Buffer.h: rbuffer, filled from *)
(* the socket by feed_rbuffer and read by the application with the         *)
(* iterators of reader(), and wbuffer, filled by send with feed_wbuffer    *)
(* and written to the socket by drain_wbuffer.                             *)
(*                                                                         *)
(* The bytes of the stream are numbered 1, 2, ... in the order in which    *)
(* they are fed, so that a byte that is lost, repeated or out of place     *)
(* shows; 0 is a place never written.                                      *)
(*                                                                         *)
(* Four situations spoil the content.  They are kept in the variable       *)
(* damage, and the model ends at the first one: what the program does then *)
(* is either undefined or wrong.                                           *)
(*   overrun   feed_wbuffer of an empty buffer does not wrap around        *)
(*   shifted   reserve of a buffer whose content wraps around copies the   *)
(*             second part over the first                                  *)
(*   skipped   feed_rbuffer leaves the last place of vec free, and then    *)
(*             goes on at its start                                        *)
(*   repeated  drain_wbuffer forgets the first write if the second fails   *)
(***************************************************************************)
EXTENDS RingBuffer

CONSTANTS
  VecSize,  \* size of a new vec: 7
  MaxBytes  \* bound: bytes of the stream

ASSUME SizeAssumption == VecSize \in Nat \ {0, 1} /\ MaxBytes \in Nat

VARIABLES
  role,     \* "rbuffer" or "wbuffer"
  buf,      \* vec, lo and hi
  feeding,  \* feed_rbuffer is between two calls of readv
  fed,      \* history: bytes fed so far
  given,    \* history: the bytes that were read or written to the socket
  damage    \* history: "none", or what has spoiled the content

vars == <<role, buf, feeding, fed, given, damage>>
-----------------------------------------------------------------------------
\* The bytes in the buffer, in order.
Content(b) == [i \in 1 .. size(b) |-> b.vec[Place(b, i - 1)]]

\* memcpy and readv: data at the place at; what is beyond vec is not the buffer's.
Copied(vec, at, data) ==
  [i \in 1 .. Len(vec) |-> IF i - at \in 1 .. Len(data) THEN data[i - at] ELSE vec[i]]

\* reserve, when it does not return at once.
Resized(b, n) ==
  LET vec == [i \in 1 .. n + 1 |-> IF i <= vsize(b) THEN b.vec[i] ELSE 0]
  IN  IF b.lo <= b.hi THEN [b EXCEPT !.vec = vec]
      ELSE [b EXCEPT !.vec = Copied(vec, b.lo, SubSeq(b.vec, 1, b.hi)),
                     !.hi = b.lo + b.hi]

reserve(b, n) == IF n + 1 <= vsize(b) THEN b ELSE Resized(b, n)

ensure_space(b, n) == reserve(b, size(b) + n)

\* Mutant of Widened: a buffer grows only when it has come to its end.
WidenedLate(b) == IF size(b) > capacity(b) THEN reserve(b, 2 * capacity(b)) ELSE b

\* The expansion at the start of each round of feed_rbuffer.
Widened(b) ==
  IF capacity(b) - size(b) <= capacity(b) \div 4 THEN reserve(b, 2 * capacity(b)) ELSE b

\* The two pieces of free space that readv is given, as their lengths.
Room(b) ==
  IF b.lo <= b.hi THEN <<vsize(b) - b.hi - 1, b.lo>> ELSE <<b.lo - b.hi - 1, 0>>

\* readv: hi goes on by the number of bytes, wherever they are.
ReadInto(b, data) ==
  LET first == IF Len(data) < Room(b)[1] THEN Len(data) ELSE Room(b)[1]
  IN  [b EXCEPT !.vec = Copied(Copied(b.vec, b.hi, SubSeq(data, 1, first)),
                               0, SubSeq(data, first + 1, Len(data))),
                !.hi = MOD(b, b.hi + Len(data))]

\* Mutant of Stored: the rest is not stored at the start of vec.
StoredOnce(b, data) ==
  [b EXCEPT !.vec = Copied(b.vec, b.hi, data), !.hi = MOD(b, b.hi + Len(data))]

\* feed_wbuffer, when there is space: up to the end of vec only if lo < hi.
Stored(b, data) ==
  LET n     == Len(data)
      first == IF b.lo < b.hi /\ vsize(b) - b.hi < n THEN vsize(b) - b.hi ELSE n
  IN  [b EXCEPT !.vec = Copied(Copied(b.vec, b.hi, SubSeq(data, 1, first)),
                               0, SubSeq(data, first + 1, n)),
                !.hi = MOD(b, b.hi + n)]

\* drain_wbuffer: the lengths of the two pieces of the content, and lo after a
\* write of n bytes.
Pieces(b) ==
  IF b.lo < b.hi THEN <<b.hi - b.lo, 0>> ELSE <<vsize(b) - b.lo, b.hi>>

Advanced(b, n) == [b EXCEPT !.lo = MOD(b, b.lo + n)]

\* Bytes number first .. last of the stream.
Bytes(first, last) == [i \in 1 .. last - first + 1 |-> first + i - 1]
-----------------------------------------------------------------------------
Init ==
  /\ role \in {"rbuffer", "wbuffer"}
  /\ buf = NewRing(VecSize, 0)
  /\ feeding = FALSE
  /\ fed = 0
  /\ given = << >>
  /\ damage = "none"

\* One round of feed_rbuffer: n bytes come, and 0 is the last round.
FeedRbuffer(n) ==
  LET b == Widened(buf)
  IN  /\ role = "rbuffer"
      /\ n <= Room(b)[1] + Room(b)[2]
      /\ buf' = ReadInto(b, Bytes(fed + 1, fed + n))
      /\ feeding' = (n > 0)
      /\ fed' = fed + n
      /\ damage' = IF buf.lo <= buf.hi /\ n > Room(b)[1] THEN "skipped" ELSE "none"
      /\ UNCHANGED <<role, given>>

\* The application reads n bytes through reader(), whose iterator moves lo.
Read(n) ==
  /\ role = "rbuffer" /\ ~feeding
  /\ n <= size(buf)
  /\ buf' = Advanced(buf, n)
  /\ given' = given \o SubSeq(Content(buf), 1, n)
  /\ UNCHANGED <<role, feeding, fed, damage>>

\* feed_wbuffer with n bytes.  A content that reserve has spoiled is left at that.
FeedWbuffer(n) ==
  LET b       == ensure_space(buf, n)
      shifted == buf.lo > buf.hi /\ b # buf
  IN  /\ role = "wbuffer"
      /\ n > 0
      /\ buf' = IF shifted THEN b ELSE Stored(b, Bytes(fed + 1, fed + n))
      /\ fed' = IF shifted THEN fed ELSE fed + n
      /\ damage' = IF shifted THEN "shifted"
                   ELSE IF b.lo = b.hi /\ b.hi + n > vsize(b) THEN "overrun" ELSE "none"
      /\ UNCHANGED <<role, feeding, given>>

\* drain_wbuffer writes the first piece, or n bytes of it ...
DrainFirst(n) ==
  /\ role = "wbuffer" /\ size(buf) > 0
  /\ n > 0 /\ n <= Pieces(buf)[1]
  /\ n = Pieces(buf)[1] => Pieces(buf)[2] = 0
  /\ buf' = Advanced(buf, n)
  /\ given' = given \o SubSeq(Content(buf), 1, n)
  /\ UNCHANGED <<role, feeding, fed, damage>>

\* ... and n bytes of the second, when all of the first went out.
DrainBoth(n) ==
  LET all == Pieces(buf)[1] + n
  IN  /\ role = "wbuffer" /\ size(buf) > 0
      /\ n > 0 /\ n <= Pieces(buf)[2]
      /\ buf' = Advanced(buf, all)
      /\ given' = given \o SubSeq(Content(buf), 1, all)
      /\ UNCHANGED <<role, feeding, fed, damage>>

\* The second write fails: drain_wbuffer returns with lo where it was.
DrainFails ==
  /\ role = "wbuffer" /\ size(buf) > 0
  /\ Pieces(buf)[2] > 0
  /\ given' = given \o SubSeq(Content(buf), 1, Pieces(buf)[1])
  /\ damage' = "repeated"
  /\ UNCHANGED <<role, buf, feeding, fed>>

Next ==
  /\ damage = "none"
  /\ \/ \E n \in 0 .. MaxBytes - fed : FeedRbuffer(n) \/ FeedWbuffer(n)
     \/ \E n \in 1 .. MaxBytes : Read(n) \/ DrainFirst(n) \/ DrainBoth(n)
     \/ DrainFails

Spec == Init /\ [][Next]_vars
-----------------------------------------------------------------------------
\* The bytes delivered so far and those in the buffer are the stream that was
\* fed, in order and complete, through any number of turns round the ring, of
\* expansions and of partial writes (Buffer.h:251-317), if and only if none of
\* the four situations has come up.
StreamIsKeptUnlessDamaged ==
  (given \o Content(buf) = Bytes(1, fed)) <=> damage = "none"

\* feed_rbuffer never calls readv without room, which would return 0 and be taken
\* for the end of the stream, the events being edges (Buffer.h:255-272).
ReadvHasRoom ==
  role = "rbuffer" /\ damage = "none" =>
    Room(Widened(buf))[1] + Room(Widened(buf))[2] > 0
=============================================================================
