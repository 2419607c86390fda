--------------------------- MODULE PlayingProofs ---------------------------
(***************************************************************************)
(* The proofs about model/stream.c: its sample ring (SampleRing), films    *)
(* opened and closed one after another (Stream), and one open film (Film). *)
(*                                                                         *)
(* The ring, for any size, any number of slots and any samples: no unread  *)
(* byte is overwritten, the counts never pass each other, and it           *)
(* implements the ordered channel of Fifo. The films, for any number of    *)
(* them and of tries: nothing of one reaches the next while the waits come *)
(* back in time, and what is seen of an opening is what Opening promises.  *)
(*                                                                         *)
(* One film, for any whose stamps grow, rings of any size and any number   *)
(* of slots: the stream worker, the drawing thread and the sound worker,   *)
(* in any order, hand out every picture once and in order, account for     *)
(* every frame of sound, and say that the film has ended only when all of  *)
(* it was cut. A line is what a track has handed out with what still       *)
(* waits: giving a sample up moves it along its line, and taking one makes *)
(* the line longer. The invariant ties each line to the cut and to the     *)
(* stamp the ring took last, which is all that a segment cut up again goes *)
(* by.                                                                     *)
(***************************************************************************)
EXTENDS Film, SampleRing, Stream, FiniteSetTheorems, TLAPS

-----------------------------------------------------------------------------
(* The ring.                                                               *)

\* The waiting samples lie in the order they came, between the two counts.
InPlace ==
    /\ \A i \in 1 .. Len(q.samp) :
          /\ q.rd <= q.samp[i].abs
          /\ q.samp[i].abs + q.samp[i].len <= q.wr
          /\ q.samp[i].at \in Stamps
    /\ \A i, j \in 1 .. Len(q.samp) :
          i < j => q.samp[i].abs + q.samp[i].len <= q.samp[j].abs

\* The player reads the oldest one.
HandIsHead == \A r \in hand : q.samp # <<>> /\ r = q.samp[1]

RInv ==
    /\ RingTypeOK
    /\ UsedWithinCap
    /\ InPlace
    /\ HandIsHead
    /\ \A i \in 1 .. Len(q.samp) : Whole(q.samp[i])

-----------------------------------------------------------------------------
(* Arithmetic of the offsets.                                              *)

LEMMA DivFacts ==
  ASSUME NEW c \in Nat \ {0}, NEW x \in Nat
  PROVE  /\ (x % c) \in 0 .. (c - 1)
         /\ (x \div c) \in Nat
         /\ x = ((x \div c) * c) + (x % c)
BY SMT

LEMMA MulSum ==
  ASSUME NEW c \in Nat, NEW k \in Nat, NEW p \in Nat
  PROVE  /\ (p + k) * c = p * c + k * c
         /\ k * c \in Nat
         /\ p * c \in Nat
BY SMT

LEMMA MulAtLeast ==
  ASSUME NEW c \in Nat, NEW k \in Nat \ {0}
  PROVE  k * c >= c
<1>1. k = (k - 1) + 1 /\ k - 1 \in Nat
  OBVIOUS
<1>2. ((k - 1) + 1) * c = (k - 1) * c + 1 * c /\ (k - 1) * c \in Nat
  BY <1>1, MulSum
<1>3. 1 * c = c
  OBVIOUS
<1>4. QED
  BY <1>1, <1>2, <1>3

\* Division with remainder is unique.
LEMMA DivUnique ==
  ASSUME NEW c \in Nat \ {0}, NEW p \in Nat, NEW r \in Nat, NEW m \in Nat, NEW n \in Nat,
         m < c, n < c, p * c + m = r * c + n
  PROVE  p = r /\ m = n
<1>1. ~(p < r)
  <2> SUFFICES ASSUME p < r
               PROVE  FALSE
    OBVIOUS
  <2>1. r = p + (r - p) /\ r - p \in Nat \ {0}
    OBVIOUS
  <2>2. r * c = p * c + (r - p) * c /\ p * c \in Nat /\ (r - p) * c \in Nat
    BY <2>1, MulSum
  <2>3. (r - p) * c >= c
    BY <2>1, MulAtLeast
  <2>4. QED
    BY <2>2, <2>3
<1>2. ~(r < p)
  <2> SUFFICES ASSUME r < p
               PROVE  FALSE
    OBVIOUS
  <2>1. p = r + (p - r) /\ p - r \in Nat \ {0}
    OBVIOUS
  <2>2. p * c = r * c + (p - r) * c /\ r * c \in Nat /\ (p - r) * c \in Nat
    BY <2>1, MulSum
  <2>3. (p - r) * c >= c
    BY <2>1, MulAtLeast
  <2>4. QED
    BY <2>2, <2>3
<1>3. p = r
  BY <1>1, <1>2
<1>4. p * c \in Nat /\ r * c \in Nat
  BY MulSum
<1>5. QED
  BY <1>3, <1>4

\* Counts less than a ring apart lie at different offsets.
LEMMA ModApart ==
  ASSUME NEW c \in Nat \ {0}, NEW x \in Nat, NEW y \in Nat, x < y, y < x + c
  PROVE  (x % c) # (y % c)
<1> DEFINE p == x \div c
           r == y \div c
           m == x % c
           n == y % c
<1>1. /\ p \in Nat /\ r \in Nat /\ m \in 0 .. (c - 1) /\ n \in 0 .. (c - 1)
      /\ x = (p * c) + m
      /\ y = (r * c) + n
  BY DivFacts
<1>2. SUFFICES ASSUME m = n
               PROVE  FALSE
  OBVIOUS
<1> HIDE DEF p, r, m, n
<1>3. p * c \in Nat /\ r * c \in Nat
  BY <1>1, MulSum
<1>4. CASE p < r
  <2>1. r = p + (r - p) /\ r - p \in Nat \ {0}
    BY <1>1, <1>4
  <2>2. r * c = p * c + (r - p) * c /\ (r - p) * c \in Nat
    BY <1>1, <2>1, MulSum
  <2>3. (r - p) * c >= c
    BY <2>1, MulAtLeast
  <2>4. QED
    BY <1>1, <1>2, <1>3, <2>2, <2>3
<1>5. CASE r <= p
  <2>1. p = r + (p - r) /\ p - r \in Nat
    BY <1>1, <1>5
  <2>2. p * c = r * c + (p - r) * c /\ (p - r) * c \in Nat
    BY <1>1, <2>1, MulSum
  <2>3. QED
    BY <1>1, <1>2, <1>3, <2>2
<1>6. QED
  BY <1>1, <1>4, <1>5

\* A run of bytes that ends inside the ring has consecutive offsets.
LEMMA ModAdd ==
  ASSUME NEW c \in Nat \ {0}, NEW x \in Nat, NEW k \in Nat, (x % c) + k < c
  PROVE  ((x + k) % c) = (x % c) + k
<1> DEFINE p == x \div c
           r == (x + k) \div c
           m == x % c
           n == (x + k) % c
<1>1. x + k \in Nat
  OBVIOUS
<1>2. /\ p \in Nat /\ r \in Nat /\ m \in 0 .. (c - 1) /\ n \in 0 .. (c - 1)
      /\ x = (p * c) + m
      /\ x + k = (r * c) + n
  BY <1>1, DivFacts
<1>3. m + k < c
  OBVIOUS
<1> HIDE DEF p, r, m, n
<1>4. p * c \in Nat /\ r * c \in Nat
  BY <1>2, MulSum
<1>5. p * c + (m + k) = r * c + n /\ m + k \in Nat /\ n \in Nat /\ n < c
  BY <1>2, <1>4
<1>6. m + k = n
  BY <1>2, <1>3, <1>5, DivUnique
<1>7. QED
  BY <1>6 DEF m, n

\* After a skip the cursor is at the start of the ring.
LEMMA ModSkip ==
  ASSUME NEW c \in Nat \ {0}, NEW x \in Nat
  PROVE  (x + (c - (x % c))) % c = 0
<1> DEFINE p == x \div c
           m == x % c
           y == x + (c - m)
           r == y \div c
           n == y % c
<1>1. p \in Nat /\ m \in 0 .. (c - 1) /\ x = (p * c) + m
  BY DivFacts
<1>2. y \in Nat
  BY <1>1
<1>3. r \in Nat /\ n \in 0 .. (c - 1) /\ y = (r * c) + n
  BY <1>2, DivFacts
<1>4. y = p * c + c
  BY <1>1, MulSum
<1> HIDE DEF p, m, y, r, n
<1>5. (p + 1) * c = p * c + 1 * c /\ 1 * c = c /\ p * c \in Nat /\ p + 1 \in Nat
  BY <1>1, MulSum
<1>6. r * c + n = (p + 1) * c + 0
  BY <1>3, <1>4, <1>5, MulSum
<1>7. n = 0
  BY <1>1, <1>3, <1>5, <1>6, DivUnique
<1>8. QED
  BY <1>7 DEF n, y, m

-----------------------------------------------------------------------------
(* put().                                                                  *)

\* Where put() places a sample that fits: after every byte in use, in one run
\* inside the ring, and less than a ring from the oldest byte in use.
LEMMA PlacedFacts ==
  ASSUME q \in Ring, UsedWithinCap, NEW len \in Lengths, NEW stamp \in Stamps,
         Fits(q, Cap, Slots, len)
  PROVE  /\ Placed(q, Cap, len, stamp) \in Sample
         /\ Placed(q, Cap, len, stamp).at = stamp
         /\ Placed(q, Cap, len, stamp).len = len
         /\ q.wr <= Placed(q, Cap, len, stamp).abs
         /\ Placed(q, Cap, len, stamp).abs + len <= q.rd + Cap
         /\ (Placed(q, Cap, len, stamp).abs % Cap) \in 0 .. Cap - 1
         /\ (Placed(q, Cap, len, stamp).abs % Cap) + len <= Cap
<1> DEFINE off == q.wr % Cap
           skip == Skip(q, Cap, len)
<1>1. q.wr \in Nat /\ q.rd \in Nat /\ q.rd <= q.wr /\ q.wr - q.rd <= Cap
  BY DEF Ring, UsedWithinCap, Used
<1>2. Cap \in Nat \ {0} /\ len \in Nat \ {0} /\ stamp \in Nat
  BY SampleRingAssumption
<1>3. off \in 0 .. (Cap - 1)
  BY <1>1, <1>2, DivFacts
<1>4. skip = IF off + len > Cap THEN Cap - off ELSE 0
  BY DEF Skip
<1>5. len + skip <= Cap - (q.wr - q.rd)
  BY DEF Fits, Used
<1>6. Placed(q, Cap, len, stamp) = [at |-> stamp, abs |-> q.wr + skip, len |-> len]
  BY DEF Placed
<1>7. skip \in Nat
  BY <1>2, <1>3, <1>4
<1>8. ((q.wr + skip) % Cap) \in 0 .. Cap - 1 /\ ((q.wr + skip) % Cap) + len <= Cap
  <2>1. CASE off + len > Cap
    <3>1. q.wr + skip = q.wr + (Cap - (q.wr % Cap))
      BY <1>4, <2>1
    <3>2. (q.wr + skip) % Cap = 0
      BY <1>1, <1>2, <3>1, ModSkip
    <3>3. len <= Cap
      BY <1>1, <1>2, <1>5, <1>7
    <3>4. QED
      BY <1>2, <3>2, <3>3
  <2>2. CASE ~(off + len > Cap)
    <3>1. skip = 0
      BY <1>4, <2>2
    <3>2. q.wr + skip = q.wr
      BY <1>1, <3>1
    <3>3. QED
      BY <1>2, <1>3, <2>2, <3>2
  <2>3. QED
    BY <2>1, <2>2
<1> HIDE DEF off, skip
<1>9. q.wr + skip \in Nat /\ q.wr <= q.wr + skip /\ q.wr + skip + len <= q.rd + Cap
  BY <1>1, <1>2, <1>5, <1>7
<1>10. QED
  BY <1>2, <1>6, <1>8, <1>9 DEF Sample

\* What put() copies, and where.
LEMMA PutCopies ==
  ASSUME RInv, NEW stamp \in Stamps, NEW len \in Lengths, Offer(stamp, len),
         NEW r \in Sample, r = Placed(q, Cap, len, stamp)
  PROVE  /\ r.at = stamp /\ r.len = len /\ len \in Nat \ {0}
         /\ r.abs \in Nat /\ q.wr <= r.abs /\ r.abs + r.len <= q.rd + Cap
         /\ (r.abs % Cap) \in 0 .. Cap - 1
         /\ (r.abs % Cap) + r.len <= Cap
         /\ buf' = Copied(r)
         /\ q' = [q EXCEPT !.wr = r.abs + r.len, !.samp = Append(q.samp, r), !.took = stamp]
         /\ hand' = hand /\ out' = out
<1>1. q \in Ring /\ UsedWithinCap /\ Fits(q, Cap, Slots, len)
  BY DEF RInv, RingTypeOK, Offer
<1>2. /\ r.at = stamp /\ r.len = len
      /\ q.wr <= r.abs /\ r.abs + r.len <= q.rd + Cap
      /\ (r.abs % Cap) \in 0 .. Cap - 1
      /\ (r.abs % Cap) + r.len <= Cap
  BY <1>1, PlacedFacts
<1>3. buf' = Copied(r)
  BY DEF Offer
<1>4. q' = [q EXCEPT !.wr = r.abs + len, !.samp = Append(q.samp, r), !.took = stamp]
  BY DEF Offer, Put
<1>5. hand' = hand /\ out' = out
  BY DEF Offer
<1>6. QED
  BY <1>2, <1>3, <1>4, <1>5, SampleRingAssumption DEF Sample

\* Two runs of bytes less than a ring apart share no offset.
LEMMA RunsApart ==
  ASSUME NEW s \in Sample, NEW r \in Sample,
         (s.abs % Cap) + s.len <= Cap,
         (r.abs % Cap) + r.len <= Cap,
         s.abs + s.len <= r.abs,
         r.abs + r.len <= s.abs + Cap,
         NEW p \in Bytes(s)
  PROVE  p \notin Bytes(r)
<1>1. /\ s.abs \in Nat /\ s.len \in Nat \ {0} /\ r.abs \in Nat /\ r.len \in Nat \ {0}
      /\ Cap \in Nat \ {0}
  BY SampleRingAssumption DEF Sample
<1>2. (s.abs % Cap) \in 0 .. (Cap - 1) /\ (r.abs % Cap) \in 0 .. (Cap - 1)
  BY <1>1, DivFacts
<1> SUFFICES ASSUME p \in Bytes(r)
             PROVE  FALSE
  OBVIOUS
<1> DEFINE k == p - (s.abs % Cap)
           m == p - (r.abs % Cap)
<1>3. k \in 0 .. s.len - 1 /\ (s.abs % Cap) + k = p
  BY <1>1, <1>2 DEF Bytes, Offset
<1>4. m \in 0 .. r.len - 1 /\ (r.abs % Cap) + m = p
  BY <1>1, <1>2 DEF Bytes, Offset
<1> HIDE DEF k, m
<1>5. k \in Nat /\ m \in Nat /\ (s.abs % Cap) + k < Cap /\ (r.abs % Cap) + m < Cap
  BY <1>1, <1>2, <1>3, <1>4
<1>6. (s.abs + k) % Cap = p
  BY <1>1, <1>3, <1>5, ModAdd
<1>7. (r.abs + m) % Cap = p
  BY <1>1, <1>4, <1>5, ModAdd
<1>8. /\ s.abs + k \in Nat /\ r.abs + m \in Nat
      /\ s.abs + k < r.abs + m
      /\ r.abs + m < (s.abs + k) + Cap
  BY <1>1, <1>3, <1>4
<1>9. QED
  BY <1>1, <1>6, <1>7, <1>8, ModApart

\* The offsets of a run that ends inside the ring are offsets of the ring.
LEMMA RunInRing ==
  ASSUME NEW r \in Sample, (r.abs % Cap) + r.len <= Cap
  PROVE  Bytes(r) \subseteq 0 .. Cap - 1
<1>1. r.abs \in Nat /\ r.len \in Nat \ {0} /\ Cap \in Nat \ {0}
  BY SampleRingAssumption DEF Sample
<1>2. (r.abs % Cap) \in 0 .. (Cap - 1)
  BY <1>1, DivFacts
<1>3. QED
  BY <1>1, <1>2 DEF Bytes, Offset

\* put() copies over no byte of a sample that lies between the two counts.
LEMMA PutKeepsWhole ==
  ASSUME RInv, NEW stamp \in Stamps, NEW len \in Lengths, Offer(stamp, len),
         NEW s \in Sample, q.rd <= s.abs, s.abs + s.len <= q.wr, Whole(s)
  PROVE  Whole(s)'
<1>1. PICK r \in Sample : r = Placed(q, Cap, len, stamp)
  BY PlacedFacts DEF RInv, RingTypeOK, Offer
<1>2. /\ r.abs \in Nat /\ q.wr <= r.abs /\ r.abs + r.len <= q.rd + Cap
      /\ (r.abs % Cap) + r.len <= Cap
      /\ buf' = Copied(r)
  BY <1>1, PutCopies
<1>3. /\ s.abs \in Nat /\ s.len \in Nat /\ r.len \in Nat /\ q.wr \in Nat /\ q.rd \in Nat
      /\ Cap \in Nat
      /\ (s.abs % Cap) + s.len <= Cap
  BY SampleRingAssumption DEF Sample, Whole, Offset, RInv, RingTypeOK, Ring
<1>4. s.abs + s.len <= r.abs /\ r.abs + r.len <= s.abs + Cap
  BY <1>2, <1>3
<1>5. ASSUME NEW p \in Bytes(s)
      PROVE  buf'[p] = buf[p]
  <2>1. p \notin Bytes(r)
    BY <1>2, <1>3, <1>4, RunsApart
  <2>2. p \in 0 .. Cap - 1
    BY <1>3, RunInRing
  <2>3. QED
    BY <1>2, <2>1, <2>2 DEF Copied
<1>6. QED
  BY <1>5 DEF Whole, Bytes, Offset

\* The sample put() has just copied is whole.
LEMMA PutIsWhole ==
  ASSUME RInv, NEW stamp \in Stamps, NEW len \in Lengths, Offer(stamp, len),
         NEW r \in Sample, r = Placed(q, Cap, len, stamp)
  PROVE  Whole(r)'
<1>1. /\ r.at = stamp
      /\ (r.abs % Cap) + r.len <= Cap
      /\ buf' = Copied(r)
  BY PutCopies
<1>2. Bytes(r) \subseteq 0 .. Cap - 1
  BY <1>1, RunInRing
<1>3. \A p \in Bytes(r) : buf'[p] = r.at
  BY <1>1, <1>2 DEF Copied
<1>4. QED
  BY <1>1, <1>3 DEF Whole, Bytes, Offset

-----------------------------------------------------------------------------
(* The invariant.                                                          *)

LEMMA InitRInv == RingInit => RInv
<1> SUFFICES ASSUME RingInit
             PROVE  RInv
  OBVIOUS
<1>1. q = EmptyRing /\ hand = {} /\ out = -1 /\ buf = [p \in 0 .. Cap - 1 |-> -1]
  BY DEF RingInit
<1>2. q.wr = 0 /\ q.rd = 0 /\ q.samp = <<>> /\ q.took = -1 /\ q \in Ring
  BY <1>1 DEF EmptyRing, Ring
<1>3. Len(q.samp) = 0
  BY <1>2
<1>4. RingTypeOK
  BY <1>1, <1>2, <1>3, SampleRingAssumption DEF RingTypeOK, Queued
<1>5. UsedWithinCap
  BY <1>2, SampleRingAssumption DEF UsedWithinCap, Used
<1>6. InPlace /\ HandIsHead /\ \A i \in 1 .. Len(q.samp) : Whole(q.samp[i])
  BY <1>1, <1>3 DEF InPlace, HandIsHead
<1>7. QED
  BY <1>4, <1>5, <1>6 DEF RInv

\* A sample taken keeps the invariant.
LEMMA OfferKeepsRInv ==
  ASSUME RInv, NEW stamp \in Stamps, NEW len \in Lengths, Offer(stamp, len)
  PROVE  RInv'
<1> DEFINE n == Len(q.samp)
<1>1. PICK r \in Sample : r = Placed(q, Cap, len, stamp)
  BY PlacedFacts DEF RInv, RingTypeOK, Offer
<1>2. /\ r.at = stamp /\ r.len \in Nat \ {0}
      /\ r.abs \in Nat /\ q.wr <= r.abs /\ r.abs + r.len <= q.rd + Cap
      /\ buf' = Copied(r)
      /\ q' = [q EXCEPT !.wr = r.abs + r.len, !.samp = Append(q.samp, r), !.took = stamp]
      /\ hand' = hand /\ out' = out
  BY <1>1, PutCopies DEF Sample
<1>3. /\ q \in Ring /\ q.samp \in Seq(Sample) /\ n \in Nat
      /\ q.wr \in Nat /\ q.rd \in Nat /\ q.rd <= q.wr
  BY DEF RInv, RingTypeOK, Ring, UsedWithinCap, Used
<1>4. /\ q'.wr = r.abs + r.len /\ q'.rd = q.rd /\ q'.took = stamp
      /\ q'.samp = Append(q.samp, r)
  BY <1>2, <1>3 DEF Ring
<1>5. /\ Append(q.samp, r) \in Seq(Sample)
      /\ Len(Append(q.samp, r)) = n + 1
      /\ \A i \in 1 .. n : Append(q.samp, r)[i] = q.samp[i]
      /\ Append(q.samp, r)[n + 1] = r
  BY <1>3
<1>6. RingTypeOK'
  <2>1. q' \in Ring
    <3>1. r.abs + r.len \in Nat /\ stamp \in Nat
      BY <1>2, SampleRingAssumption
    <3>2. q' = [q EXCEPT !.wr = r.abs + r.len, !.samp = Append(q.samp, r), !.took = stamp]
      BY <1>2
    <3>3. Append(q.samp, r) \in Seq(Sample)
      BY <1>5
    <3>4. QED
      BY <1>3, <3>1, <3>2, <3>3 DEF Ring
  <2>2. n < Slots
    BY DEF Offer, Fits, Queued
  <2>3. Queued(q') <= Slots
    BY <1>3, <1>4, <1>5, <2>2, SampleRingAssumption DEF Queued
  <2>4. buf' \in [0 .. Cap - 1 -> Stamps \cup {-1}]
    BY <1>2 DEF Copied, RInv, RingTypeOK
  <2>5. QED
    BY <1>2, <2>1, <2>3, <2>4 DEF RInv, RingTypeOK
<1>7. UsedWithinCap'
  BY <1>2, <1>3, <1>4, SampleRingAssumption, SMTT(30) DEF UsedWithinCap, Used
<1>8. \A i \in 1 .. n : q.samp[i] \in Sample
  BY <1>3
<1>9. InPlace'
  <2>1. \A i \in 1 .. n :
           /\ q.rd <= q.samp[i].abs
           /\ q.samp[i].abs + q.samp[i].len <= q.wr
           /\ q.samp[i].at \in Stamps
           /\ q.samp[i].abs \in Nat /\ q.samp[i].len \in Nat
    BY <1>8 DEF RInv, InPlace, Sample
  <2>2. \A i \in 1 .. n + 1 :
           /\ q.rd <= q'.samp[i].abs
           /\ q'.samp[i].abs + q'.samp[i].len <= r.abs + r.len
           /\ q'.samp[i].at \in Stamps
    <3> TAKE i \in 1 .. n + 1
    <3>1. CASE i \in 1 .. n
      BY <1>2, <1>3, <1>4, <1>5, <2>1, <3>1
    <3>2. CASE i = n + 1
      BY <1>2, <1>3, <1>4, <1>5, <3>2
    <3>3. QED
      BY <1>3, <3>1, <3>2
  <2>3. ASSUME NEW i \in 1 .. n + 1, NEW j \in 1 .. n + 1, i < j
        PROVE  q'.samp[i].abs + q'.samp[i].len <= q'.samp[j].abs
    <3>1. i \in 1 .. n
      BY <1>3, <2>3
    <3>2. CASE j \in 1 .. n
      <4>1. q.samp[i].abs + q.samp[i].len <= q.samp[j].abs
        BY <2>3, <3>1, <3>2 DEF RInv, InPlace
      <4>2. QED
        BY <1>4, <1>5, <3>1, <3>2, <4>1
    <3>3. CASE j = n + 1
      BY <1>2, <1>3, <1>4, <1>5, <2>1, <3>1, <3>3, SMTT(30)
    <3>4. QED
      BY <1>3, <3>2, <3>3
  <2>4. QED
    BY <1>4, <1>5, <2>2, <2>3 DEF InPlace
<1>10. HandIsHead'
  <2>1. \A h \in hand : n # 0 /\ h = q.samp[1]
    BY <1>3 DEF RInv, HandIsHead
  <2>2. \A h \in hand : q'.samp # <<>> /\ h = q'.samp[1]
    BY <1>3, <1>4, <1>5, <2>1
  <2>3. QED
    BY <1>2, <2>2 DEF HandIsHead
<1>11. \A i \in 1 .. n + 1 : Whole(q.samp[i])'
  <2> TAKE i \in 1 .. n + 1
  <2>1. CASE i \in 1 .. n
    <3>1. PICK s \in Sample : s = q.samp[i]
      BY <1>8, <2>1
    <3>2. q.rd <= s.abs /\ s.abs + s.len <= q.wr /\ Whole(s)
      BY <2>1, <3>1 DEF RInv, InPlace
    <3>3. Whole(s)'
      BY <3>2, PutKeepsWhole
    <3>4. q'.samp[i] = s
      BY <1>4, <1>5, <2>1, <3>1
    <3>5. QED
      BY <3>3, <3>4 DEF Whole, Bytes, Offset
  <2>2. CASE i = n + 1
    <3>1. Whole(r)'
      BY <1>1, PutIsWhole
    <3>2. q'.samp[i] = r
      BY <1>4, <1>5, <2>2
    <3>3. QED
      BY <3>1, <3>2 DEF Whole, Bytes, Offset
  <2>3. QED
    BY <1>3, <2>1, <2>2
<1>12. Len(q'.samp) = n + 1
  BY <1>4, <1>5
<1>13. QED
  BY <1>6, <1>7, <1>9, <1>10, <1>11, <1>12 DEF RInv

\* A sample given up keeps the invariant.
LEMMA GiveUpKeepsRInv == ASSUME RInv, GiveUp PROVE RInv'
<1> DEFINE n == Len(q.samp)
<1>1. PICK r \in hand : q' = Pop(q, r) /\ out' = Content(r) /\ hand' = {} /\ buf' = buf
  BY DEF GiveUp
<1>2. q.samp # <<>> /\ r = q.samp[1]
  BY DEF RInv, HandIsHead
<1>3. q \in Ring /\ q.samp \in Seq(Sample) /\ q.wr \in Nat /\ q.rd \in Nat
  BY DEF RInv, RingTypeOK, Ring
<1>4. n \in Nat \ {0} /\ Len(Tail(q.samp)) = n - 1 /\ Tail(q.samp) \in Seq(Sample)
      /\ \A i \in 1 .. n - 1 : Tail(q.samp)[i] = q.samp[i + 1]
  BY <1>2, <1>3
<1>5. r \in Sample /\ r.abs \in Nat /\ r.len \in Nat /\ r.at \in Stamps
  <2>1. 1 \in 1 .. n
    BY <1>4
  <2>2. q.samp[1] \in Sample
    BY <1>3, <2>1
  <2>3. q.samp[1].at \in Stamps
    BY <2>1 DEF RInv, InPlace
  <2>4. QED
    BY <1>2, <2>2, <2>3 DEF Sample
<1>6. /\ q'.wr = q.wr /\ q'.rd = r.abs + r.len /\ q'.took = q.took
      /\ q'.samp = Tail(q.samp)
      /\ q' \in Ring
  <2>1. q' = [q EXCEPT !.samp = Tail(q.samp), !.rd = r.abs + r.len]
    BY <1>1 DEF Pop
  <2>2. r.abs + r.len \in Nat
    BY <1>5
  <2>3. QED
    BY <1>3, <1>4, <2>1, <2>2 DEF Ring
<1>7. RingTypeOK'
  <2>1. Queued(q') <= Slots
    BY <1>4, <1>6, SampleRingAssumption DEF RInv, RingTypeOK, Queued
  <2>2. out' \in Stamps \cup {-1, Torn}
    BY <1>1, <1>5 DEF Content
  <2>3. QED
    BY <1>1, <1>6, <2>1, <2>2 DEF RInv, RingTypeOK
<1>8. q.rd <= r.abs /\ r.abs + r.len <= q.wr
  BY <1>2, <1>4 DEF RInv, InPlace
<1>9. UsedWithinCap'
  BY <1>3, <1>5, <1>6, <1>8, SampleRingAssumption DEF RInv, UsedWithinCap, Used
<1>10. InPlace'
  <2>1. ASSUME NEW i \in 1 .. n - 1
        PROVE  /\ r.abs + r.len <= q'.samp[i].abs
               /\ q'.samp[i].abs + q'.samp[i].len <= q.wr
               /\ q'.samp[i].at \in Stamps
    <3>1. i + 1 \in 1 .. n /\ 1 \in 1 .. n /\ 1 < i + 1
      BY <1>4
    <3>2. /\ q.samp[1].abs + q.samp[1].len <= q.samp[i + 1].abs
          /\ q.samp[i + 1].abs + q.samp[i + 1].len <= q.wr
          /\ q.samp[i + 1].at \in Stamps
      BY <3>1 DEF RInv, InPlace
    <3>3. QED
      BY <1>2, <1>4, <1>6, <3>2
  <2>2. ASSUME NEW i \in 1 .. n - 1, NEW j \in 1 .. n - 1, i < j
        PROVE  q'.samp[i].abs + q'.samp[i].len <= q'.samp[j].abs
    <3>1. i + 1 \in 1 .. n /\ j + 1 \in 1 .. n /\ i + 1 < j + 1
      BY <1>4, <2>2
    <3>2. q.samp[i + 1].abs + q.samp[i + 1].len <= q.samp[j + 1].abs
      BY <3>1 DEF RInv, InPlace
    <3>3. QED
      BY <1>4, <1>6, <3>2
  <2>3. QED
    BY <1>4, <1>6, <2>1, <2>2 DEF InPlace
<1>11. HandIsHead'
  BY <1>1 DEF HandIsHead
<1>12. \A i \in 1 .. n - 1 : Whole(q.samp[i])'
  <2> TAKE i \in 1 .. n - 1
  <2>1. i + 1 \in 1 .. n /\ q'.samp[i] = q.samp[i + 1]
    BY <1>4, <1>6
  <2>2. Whole(q.samp[i + 1])
    BY <2>1 DEF RInv
  <2>3. QED
    BY <1>1, <2>1, <2>2 DEF Whole, Bytes, Offset
<1>13. Len(q'.samp) = n - 1
  BY <1>4, <1>6
<1>14. QED
  BY <1>7, <1>9, <1>10, <1>11, <1>12, <1>13 DEF RInv

LEMMA RInvInductive == RInv /\ [RingNext]_ringVars => RInv'
<1> SUFFICES ASSUME RInv, [RingNext]_ringVars
             PROVE  RInv'
  OBVIOUS
<1>1. ASSUME NEW stamp \in Stamps, NEW len \in Lengths, Offer(stamp, len)
      PROVE  RInv'
  BY <1>1, OfferKeepsRInv
<1>2. CASE Peek
  <2>1. q' = q /\ buf' = buf /\ out' = out /\ hand' = {q.samp[1]} /\ Len(q.samp) > 0
    BY <1>2 DEF Peek, Queued, RInv, RingTypeOK, Ring
  <2>2. q.samp \in Seq(Sample) /\ q.samp # <<>> /\ q.samp[1] \in Sample
    BY <2>1 DEF RInv, RingTypeOK, Ring
  <2>3. HandIsHead' /\ RingTypeOK'
    BY <2>1, <2>2 DEF HandIsHead, RInv, RingTypeOK
  <2>4. QED
    BY <2>1, <2>3 DEF RInv, UsedWithinCap, InPlace, Whole, Bytes, Offset
<1>3. CASE NotDue
  <2>1. q' = q /\ buf' = buf /\ out' = out /\ hand' = {}
    BY <1>3 DEF NotDue
  <2>2. HandIsHead' /\ RingTypeOK'
    BY <2>1 DEF HandIsHead, RInv, RingTypeOK
  <2>3. QED
    BY <2>1, <2>2 DEF RInv, UsedWithinCap, InPlace, Whole, Bytes, Offset
<1>4. CASE GiveUp
  BY <1>4, GiveUpKeepsRInv
<1>5. CASE Reset
  <2>1. q' = EmptyRing /\ buf' = buf /\ out' = -1 /\ hand' = {}
    BY <1>5 DEF Reset
  <2>2. /\ q'.wr = 0 /\ q'.rd = 0 /\ q'.samp = <<>> /\ q' \in Ring
        /\ Len(q'.samp) = 0
    BY <2>1 DEF EmptyRing, Ring
  <2>3. RingTypeOK' /\ UsedWithinCap' /\ HandIsHead'
    BY <2>1, <2>2, SampleRingAssumption DEF RInv, RingTypeOK, Queued, UsedWithinCap, Used, HandIsHead
  <2>4. InPlace' /\ (\A i \in 1 .. Len(q.samp) : Whole(q.samp[i]))'
    BY <2>2 DEF InPlace
  <2>5. QED
    BY <2>3, <2>4 DEF RInv
<1>6. CASE UNCHANGED ringVars
  BY <1>6 DEF ringVars, RInv, RingTypeOK, UsedWithinCap, InPlace, HandIsHead, Whole, Bytes, Offset
<1>7. QED
  BY <1>1, <1>2, <1>3, <1>4, <1>5, <1>6 DEF RingNext

\* The inductive invariant of the ring (put, peek, pop and ring_reset).
THEOREM SpecRInv == RingSpec => []RInv
BY InitRInv, RInvInductive, PTL DEF RingSpec

\* Every variable of the ring keeps its type, and the slots are enough.
THEOREM RingTypeCorrect == RingSpec => []RingTypeOK
<1>1. RInv => RingTypeOK
  BY DEF RInv
<1>2. QED
  BY <1>1, SpecRInv, PTL

\* put() never copies over a sample that is waiting, nor over the one whose
\* bytes the decoder or the sound hardware is reading outside the lock.
THEOREM RingUnreadIsWhole == RingSpec => []UnreadIsWhole
<1>1. RInv => UnreadIsWhole
  <2> SUFFICES ASSUME RInv
               PROVE  UnreadIsWhole
    OBVIOUS
  <2>1. q.samp \in Seq(Sample)
    BY DEF RInv, RingTypeOK, Ring
  <2>2. \A r \in hand : r = q.samp[1] /\ 1 \in 1 .. Len(q.samp)
    BY <2>1 DEF RInv, HandIsHead
  <2>3. QED
    BY <2>2 DEF RInv, UnreadIsWhole
<1>2. QED
  BY <1>1, SpecRInv, PTL

\* The free space never underflows.
THEOREM RingUsedWithinCap == RingSpec => []UsedWithinCap
<1>1. RInv => UsedWithinCap
  BY DEF RInv
<1>2. QED
  BY <1>1, SpecRInv, PTL

-----------------------------------------------------------------------------
(* The ring implements the channel.                                        *)

\* The channel's queue, seen through the bytes of the ring.
Seen == [i \in 1 .. Len(q.samp) |-> Content(q.samp[i])]

\* While the invariant holds the bytes say what the records say.
LEMMA SeenIsStamps ==
  ASSUME RInv
  PROVE  /\ q.samp \in Seq(Sample)
         /\ Seen = [i \in 1 .. Len(q.samp) |-> q.samp[i].at]
         /\ Seen \in Seq(Stamps)
         /\ Len(Seen) = Len(q.samp)
<1>1. q.samp \in Seq(Sample)
  BY DEF RInv, RingTypeOK, Ring
<1>2. \A i \in 1 .. Len(q.samp) : Content(q.samp[i]) = q.samp[i].at
  BY DEF RInv, Content
<1>3. \A i \in 1 .. Len(q.samp) : q.samp[i].at \in Stamps
  BY DEF RInv, InPlace
<1>4. Len(q.samp) \in Nat
  BY <1>1
<1>5. Seen = [i \in 1 .. Len(q.samp) |-> q.samp[i].at]
  BY <1>2 DEF Seen
<1>6. QED
  BY <1>1, <1>3, <1>4, <1>5

LEMMA InitMaps == RingInit => F!Init
<1> SUFFICES ASSUME RingInit
             PROVE  F!Init
  OBVIOUS
<1>1. q.samp = <<>> /\ q.took = -1 /\ out = -1
  BY DEF RingInit, EmptyRing
<1>2. Seen = <<>>
  BY <1>1 DEF Seen
<1>3. QED
  BY <1>1, <1>2 DEF F!Init, Seen

\* A sample the ring takes is one the channel accepts.
LEMMA OfferMaps ==
  ASSUME RInv, RInv', NEW stamp \in Stamps, NEW len \in Lengths, Offer(stamp, len)
  PROVE  F!Accept(stamp)
<1>1. PICK r \in Sample : r = Placed(q, Cap, len, stamp)
  BY PlacedFacts DEF RInv, RingTypeOK, Offer
<1>2. /\ r.at = stamp /\ out' = out
      /\ q' = [q EXCEPT !.wr = r.abs + r.len, !.samp = Append(q.samp, r), !.took = stamp]
  BY <1>1, PutCopies
<1>3. q \in Ring
  BY DEF RInv, RingTypeOK
<1>4. q'.took = stamp /\ q'.samp = Append(q.samp, r)
  BY <1>2, <1>3 DEF Ring
<1>5. q.took = -1 \/ q.took < stamp
  <2>1. q.took \in Nat \cup {-1} /\ stamp \in Nat
    BY <1>3, SampleRingAssumption DEF Ring
  <2>2. ~(stamp <= q.took)
    BY DEF Offer, Had
  <2>3. QED
    BY <2>1, <2>2
<1>6. Seen' = Append(Seen, stamp)
  <2>1. q.samp \in Seq(Sample) /\ Len(q.samp) \in Nat
    BY SeenIsStamps
  <2>2. Seen = [i \in 1 .. Len(q.samp) |-> q.samp[i].at]
    BY SeenIsStamps
  <2>3. Seen' = [i \in 1 .. Len(q'.samp) |-> q'.samp[i].at]
    <3>1. \A i \in 1 .. Len(q'.samp) : Content(q.samp[i])' = q'.samp[i].at
      BY DEF RInv, Content
    <3>2. QED
      BY <3>1 DEF Seen
  <2>4. Len(q'.samp) = Len(q.samp) + 1
    BY <1>4, <2>1
  <2>5. \A i \in 1 .. Len(q.samp) + 1 :
           q'.samp[i] = IF i = Len(q.samp) + 1 THEN r ELSE q.samp[i]
    BY <1>4, <2>1
  <2>6. Append(Seen, stamp) = [i \in 1 .. Len(q.samp) + 1 |->
                              IF i = Len(q.samp) + 1 THEN stamp ELSE q.samp[i].at]
    BY <2>1, <2>2
  <2>7. QED
    BY <1>2, <2>3, <2>4, <2>5, <2>6
<1>7. QED
  BY <1>2, <1>4, <1>5, <1>6 DEF F!Accept, Seen

\* A sample given up is the one the channel hands over, whole.
LEMMA GiveUpMaps ==
  ASSUME RInv, RInv', GiveUp
  PROVE  F!HandOver
<1>1. PICK r \in hand : q' = Pop(q, r) /\ out' = Content(r) /\ buf' = buf
  BY DEF GiveUp
<1>2. q.samp # <<>> /\ r = q.samp[1] /\ q \in Ring
  BY DEF RInv, HandIsHead, RingTypeOK
<1>3. /\ q.samp \in Seq(Sample) /\ Len(q.samp) \in Nat \ {0}
      /\ Len(Seen) = Len(q.samp) /\ Seen \in Seq(Stamps)
      /\ Seen = [i \in 1 .. Len(q.samp) |-> q.samp[i].at]
  BY <1>2, SeenIsStamps
<1>4. q'.samp = Tail(q.samp) /\ q'.took = q.took
  BY <1>1, <1>2 DEF Pop, Ring
<1>5. Seen # <<>> /\ out' = Head(Seen)
  <2>1. Seen[1] = Content(q.samp[1])
    BY <1>3 DEF Seen
  <2>2. Head(Seen) = Seen[1] /\ Seen # <<>>
    BY <1>3
  <2>3. QED
    BY <1>1, <1>2, <2>1, <2>2
<1>6. Seen' = Tail(Seen)
  <2>1. Seen' = [i \in 1 .. Len(q'.samp) |-> q'.samp[i].at]
    <3>1. \A i \in 1 .. Len(q'.samp) : Content(q.samp[i])' = q'.samp[i].at
      BY DEF RInv, Content
    <3>2. QED
      BY <3>1 DEF Seen
  <2>2. /\ Len(q'.samp) = Len(q.samp) - 1
        /\ \A i \in 1 .. Len(q.samp) - 1 : q'.samp[i] = q.samp[i + 1]
    BY <1>3, <1>4
  <2>3. Tail(Seen) = [i \in 1 .. Len(q.samp) - 1 |-> q.samp[i + 1].at]
    BY <1>3
  <2>4. QED
    BY <2>1, <2>2, <2>3
<1>7. QED
  BY <1>4, <1>5, <1>6 DEF F!HandOver, Seen

LEMMA ResetMaps == ASSUME Reset PROVE F!Clear
<1>1. q'.samp = <<>> /\ q'.took = -1 /\ out' = -1
  BY DEF Reset, EmptyRing
<1>2. Seen' = <<>>
  BY <1>1 DEF Seen
<1>3. QED
  BY <1>1, <1>2 DEF F!Clear, Seen

\* What leaves the ring and its bytes alone leaves the channel alone.
LEMMA StutterMaps ==
  ASSUME q' = q, buf' = buf, out' = out
  PROVE  UNCHANGED F!vars
BY DEF F!vars, Content, Whole, Bytes, Offset

LEMMA NextMaps == RInv /\ RInv' /\ [RingNext]_ringVars => [F!Next]_(F!vars)
<1> SUFFICES ASSUME RInv, RInv', [RingNext]_ringVars
             PROVE  [F!Next]_(F!vars)
  OBVIOUS
<1>1. ASSUME NEW stamp \in Stamps, NEW len \in Lengths, Offer(stamp, len)
      PROVE  F!Next
  BY <1>1, OfferMaps DEF F!Next
<1>2. CASE Peek
  BY <1>2, StutterMaps DEF Peek
<1>3. CASE NotDue
  BY <1>3, StutterMaps DEF NotDue
<1>4. CASE GiveUp
  BY <1>4, GiveUpMaps DEF F!Next
<1>5. CASE Reset
  BY <1>5, ResetMaps DEF F!Next
<1>6. CASE UNCHANGED ringVars
  BY <1>6, StutterMaps DEF ringVars
<1>7. QED
  BY <1>1, <1>2, <1>3, <1>4, <1>5, <1>6 DEF RingNext

\* The ring of model/stream.c hands over the samples it took in order, whole
\* and at most once, whatever the sizes and however long a player reads.
THEOREM RingImplementsFifo == RingSpec => FifoSpec
BY InitMaps, NextMaps, SpecRInv, PTL DEF RingSpec, F!Spec, FifoSpec

-----------------------------------------------------------------------------
(* The films. While every wait came back in time: past its first wait the  *)
(* owner finds the worker out of its pass and keeps it out; what there is  *)
(* is of the film opened last; and a pass past the server's answer has the *)
(* session, which is that film's.                                          *)

Clean ==
    /\ decoder = None /\ ~soundOn /\ rings = {}
    /\ stage = None /\ ~opened
    /\ at = "out" /\ soundAt = "out"

ApartInv ==
    /\ owner # "idle" => ~running
    /\ owner \in {"quietsound", "down", "raise"} => at = "out"
    /\ owner \in {"down", "raise"} => soundAt = "out"
    /\ owner = "raise" \/ (owner = "idle" /\ ~running) => Clean
    /\ at \notin {"out", "asking"} => opened
    /\ at = "asking" => asked = item
    /\ opened => session = item /\ segOf = item
    /\ stage = item \/ stage = None
    /\ decoder = item \/ decoder = None
    /\ rings \subseteq {item}

InTime == ~late => ApartInv

LEMMA StreamBegins == StreamInit => InTime
BY DEF StreamInit, InTime, ApartInv, Clean

LEMMA OpenerApart == ~late /\ ApartInv /\ Opener => ApartInv'
<1> SUFFICES ASSUME ~late, ApartInv, Opener PROVE ApartInv'
  OBVIOUS
<1> USE DEF ApartInv, Clean, filmVars, ownerVars, openerVars, Works
<1>1. CASE Asks
  BY <1>1 DEF Asks
<1>2. CASE AskFails
  BY <1>2 DEF AskFails, OpenFails
<1>3. CASE AskAnswers
  BY <1>3 DEF AskAnswers
<1>4. CASE TryFirst
  BY <1>4 DEF TryFirst
<1>5. CASE TryHead
  BY <1>5 DEF TryHead
<1>6. CASE TryAnswers
  BY <1>6 DEF TryAnswers
<1>7. CASE TriesEnd
  BY <1>7 DEF TriesEnd, OpenFails
<1>8. CASE Check
  BY <1>8 DEF Check, OpenFails
<1>9. CASE Decodes
  BY <1>9 DEF Decodes
<1>10. CASE DecodeFails
  BY <1>10 DEF DecodeFails
<1>11. CASE Fetches
  BY <1>11 DEF Fetches
<1>12. CASE FetchAnswers
  BY <1>12 DEF FetchAnswers
<1>13. CASE Room
  BY <1>13 DEF Room
<1>14. CASE CutPuts
  BY <1>14 DEF CutPuts
<1>15. CASE StageCut
  BY <1>15 DEF StageCut
<1> QED
  BY <1>1, <1>2, <1>3, <1>4, <1>5, <1>6, <1>7, <1>8, <1>9, <1>10, <1>11, <1>12, <1>13,
     <1>14, <1>15 DEF Opener

LEMMA StreamStep == InTime /\ [StreamNext]_streamVars => InTime'
<1> SUFFICES ASSUME InTime, [StreamNext]_streamVars, ~late' PROVE ApartInv'
  BY DEF InTime
<1>1. ~late
  <2>1. CASE Opener
    BY <2>1 DEF Opener, Asks, AskFails, AskAnswers, TryFirst, TryHead, TryAnswers, TriesEnd,
                Check, Decodes, DecodeFails, Fetches, FetchAnswers, Room, CutPuts, StageCut,
                OpenFails
  <2>2. CASE OwnerGoesOn
    BY <2>2, Zenon DEF OwnerGoesOn, QuietStream, QuietSound, TearDown, Raise, Refuse
  <2> QED
    BY <2>1, <2>2, Zenon DEF StreamNext, SoundBegins, SoundEnds, CloseBegins, streamVars
<1>2. ApartInv
  BY <1>1 DEF InTime
<1> USE <1>1, <1>2 DEF ApartInv, Clean, filmVars, ownerVars, openerVars
<1>3. CASE Opener
  BY <1>3, OpenerApart
<1>4. CASE SoundBegins
  BY <1>4 DEF SoundBegins
<1>5. CASE SoundEnds
  BY <1>5 DEF SoundEnds
<1>6. ASSUME NEW why, CloseBegins(why) PROVE ApartInv'
  BY <1>6 DEF CloseBegins
<1>7. CASE QuietStream
  BY <1>7 DEF QuietStream
<1>8. CASE QuietSound
  BY <1>8 DEF QuietSound
<1>9. CASE TearDown
  BY <1>9 DEF TearDown
<1>10. CASE Raise
  BY <1>10 DEF Raise
<1>11. CASE Refuse
  BY <1>11 DEF Refuse
<1>12. CASE UNCHANGED streamVars
  BY <1>12 DEF streamVars
<1> QED
  BY <1>3, <1>4, <1>5, <1>6, <1>7, <1>8, <1>9, <1>10, <1>11, <1>12 DEF StreamNext, OwnerGoesOn

\* For any number of films and tries, whatever pass a close finds the workers
\* in: a film that is open is made of its own parts, and nothing of one is left
\* or comes back, as long as the waits came back in time.
THEOREM StreamFilmsApart == StreamSpec => []FilmsApart
<1>1. InTime => FilmsApart
  BY DEF InTime, ApartInv, Clean, FilmsApart, FilmIsItsOwn, AllOfOneFilm, ClosedIsClean
<1> QED
  BY StreamBegins, StreamStep, <1>1, PTL DEF StreamSpec

\* In the first segment's tries the segments are of the session asked for: they
\* were set with it, whatever the owner has done since.
StartsAsked ==
    /\ at \in {"first", "firstwait"} => segOf = asked
    /\ then \in {"close", "open"}

LEMMA StartsStep == StartsAsked /\ [StreamNext]_streamVars => StartsAsked'
<1> USE DEF StartsAsked, filmVars, ownerVars, openerVars
<1>1. StartsAsked /\ Opener => StartsAsked'
  BY DEF Opener, Asks, AskFails, AskAnswers, TryFirst, TryHead, TryAnswers, TriesEnd, Check,
         Decodes, DecodeFails, Fetches, FetchAnswers, Room, CutPuts, StageCut, OpenFails
<1>2. ~Opener /\ [StreamNext]_streamVars => UNCHANGED <<at, segOf, asked>>
                                                /\ then' \in {then, "close", "open"}
  BY DEF StreamNext, SoundBegins, SoundEnds, CloseBegins, OwnerGoesOn, QuietStream, QuietSound,
         TearDown, Raise, Refuse, streamVars
<1> QED
  BY <1>1, <1>2

LEMMA OpeningBegins == StreamInit => O!Init
BY DEF StreamInit, O!Init, O!None, None

LEMMA WorkerMaps == StartsAsked /\ Opener => [O!Next]_O!vars
<1> SUFFICES ASSUME StartsAsked, Opener PROVE O!Worker \/ UNCHANGED O!vars
  BY DEF O!Next
<1> USE DEF filmVars, ownerVars, openerVars, O!Worker, O!vars
<1>1. CASE Asks
  BY <1>1 DEF Asks, Works, O!Ask
<1>2. CASE AskFails
  BY <1>2 DEF AskFails, OpenFails, O!Done
<1>3. CASE AskAnswers
  BY <1>3 DEF AskAnswers, O!Answer
<1>4. CASE TryFirst
  BY <1>4 DEF TryFirst, StartsAsked, O!Encode
<1>5. CASE TryHead
  BY <1>5 DEF TryHead
<1>6. CASE TryAnswers
  BY <1>6 DEF TryAnswers, O!Done
<1>7. CASE TriesEnd
  BY <1>7 DEF TriesEnd, OpenFails, O!Done
<1>8. CASE Check
  BY <1>8 DEF Check, OpenFails
<1>9. CASE Decodes \/ DecodeFails
  BY <1>9 DEF Decodes, DecodeFails
<1>10. CASE Fetches
  BY <1>10 DEF Fetches, Works
<1>11. CASE FetchAnswers \/ Room \/ CutPuts \/ StageCut
  BY <1>11 DEF FetchAnswers, Room, CutPuts, StageCut
<1> QED
  BY <1>1, <1>2, <1>3, <1>4, <1>5, <1>6, <1>7, <1>8, <1>9, <1>10, <1>11 DEF Opener

LEMMA OwnerMaps ==
  ASSUME StartsAsked,
         \/ SoundBegins \/ SoundEnds \/ OwnerGoesOn \/ UNCHANGED streamVars
         \/ \E why \in {"close", "open"} : CloseBegins(why)
  PROVE  [O!Next]_O!vars
<1> USE DEF filmVars, ownerVars, openerVars, O!Next, O!CallGoesOn, O!vars
<1>1. CASE SoundBegins \/ SoundEnds
  BY <1>1 DEF SoundBegins, SoundEnds
<1>2. ASSUME NEW why \in {"close", "open"}, CloseBegins(why) PROVE [O!Next]_O!vars
  BY <1>2 DEF CloseBegins, O!CloseBegins
<1>3. CASE QuietStream \/ QuietSound
  BY <1>3 DEF QuietStream, QuietSound
<1>4. CASE TearDown
  BY <1>4 DEF TearDown, StartsAsked, O!Down
<1>5. CASE Raise
  BY <1>5 DEF Raise, O!Raise, O!None, None
<1>6. CASE Refuse
  BY <1>6 DEF Refuse, O!Refuse
<1>7. CASE UNCHANGED streamVars
  BY <1>7 DEF streamVars
<1> QED
  BY <1>1, <1>2, <1>3, <1>4, <1>5, <1>6, <1>7 DEF OwnerGoesOn

\* Whatever the tries and the number of films, and also when a wait gave up:
\* what the caller and the server see of a film's opening is what Opening
\* promises, which is all the player's page goes by.
THEOREM StreamImplementsOpening == StreamSpec => OpeningSpec
<1>1. StreamInit => StartsAsked
  BY DEF StreamInit, StartsAsked
<1>2. StartsAsked /\ [StreamNext]_streamVars => [O!Next]_O!vars
  BY WorkerMaps, OwnerMaps DEF StreamNext
<1> QED
  BY <1>1, <1>2, StartsStep, OpeningBegins, PTL DEF StreamSpec, OpeningSpec, O!Spec

-----------------------------------------------------------------------------
(* Lines of stamps.                                                        *)

Ticks(s) == [i \in DOMAIN s |-> s[i].at]

\* Two lines with the same stamps are one.
LEMMA SameLine ==
    ASSUME NEW a \in Seq(Nat), NEW b \in Seq(Nat), NEW n \in Nat, Len(a) = n, Len(b) = n,
           \A i \in 1 .. n : a[i] = b[i]
    PROVE  a = b
<1>1. a \in [1 .. n -> Nat] /\ b \in [1 .. n -> Nat]
    OBVIOUS
<1> QED BY <1>1

\* A line has a stamp for every sample.
LEMMA StampsFacts ==
    ASSUME NEW s \in Seq(Sample)
    PROVE  /\ Ticks(s) \in Seq(Nat) /\ Len(Ticks(s)) = Len(s)
           /\ \A i \in 1 .. Len(s) : Ticks(s)[i] = s[i].at
<1>1. s \in [1 .. Len(s) -> Sample] /\ Len(s) \in Nat
    OBVIOUS
<1>2. \A i \in 1 .. Len(s) : s[i].at \in Nat
    BY <1>1 DEF Sample
<1>3. Ticks(s) = [i \in 1 .. Len(s) |-> s[i].at]
    BY <1>1 DEF Ticks
<1> QED BY <1>1, <1>2, <1>3

\* The stamps with a sample more, and without the oldest.
LEMMA StampsPut ==
    ASSUME NEW s \in Seq(Sample), NEW r \in Sample
    PROVE  Ticks(Append(s, r)) = Append(Ticks(s), r.at) /\ r.at \in Nat
<1>1. r.at \in Nat
    BY DEF Sample
<1>2. Len(s) \in Nat /\ Ticks(s) \in Seq(Nat) /\ Len(Ticks(s)) = Len(s)
      /\ \A i \in 1 .. Len(s) : Ticks(s)[i] = s[i].at
    BY StampsFacts
<1>3. Append(s, r) \in Seq(Sample) /\ Len(Append(s, r)) = Len(s) + 1
      /\ \A i \in 1 .. Len(s) + 1 : Append(s, r)[i] = IF i = Len(s) + 1 THEN r ELSE s[i]
    BY <1>2
<1>4. Ticks(Append(s, r)) \in Seq(Nat) /\ Len(Ticks(Append(s, r))) = Len(s) + 1
      /\ \A i \in 1 .. Len(s) + 1 :
            Ticks(Append(s, r))[i] = IF i = Len(s) + 1 THEN r.at ELSE s[i].at
    <2> DEFINE t == Append(s, r)
    <2>1. t \in Seq(Sample) /\ Len(t) = Len(s) + 1
          /\ \A i \in 1 .. Len(t) : t[i] = IF i = Len(s) + 1 THEN r ELSE s[i]
        BY <1>3
    <2> HIDE DEF t
    <2>2. Ticks(t) \in Seq(Nat) /\ Len(Ticks(t)) = Len(t)
          /\ \A i \in 1 .. Len(t) : Ticks(t)[i] = t[i].at
        BY <2>1, StampsFacts
    <2>3. \A i \in 1 .. Len(s) + 1 : Ticks(t)[i] = IF i = Len(s) + 1 THEN r.at ELSE s[i].at
        BY <2>1, <2>2
    <2> QED BY <2>1, <2>2, <2>3 DEF t
<1>5. Append(Ticks(s), r.at) \in Seq(Nat) /\ Len(Append(Ticks(s), r.at)) = Len(s) + 1
      /\ \A i \in 1 .. Len(s) + 1 :
            Append(Ticks(s), r.at)[i] = IF i = Len(s) + 1 THEN r.at ELSE s[i].at
    BY <1>1, <1>2
<1>6. \A i \in 1 .. Len(s) + 1 : Ticks(Append(s, r))[i] = Append(Ticks(s), r.at)[i]
    BY <1>4, <1>5
<1>7. Len(s) + 1 \in Nat
    BY <1>2
<1> HIDE DEF Ticks
<1>8. Ticks(Append(s, r)) = Append(Ticks(s), r.at)
    BY <1>4, <1>5, <1>6, <1>7, SameLine
<1> QED BY <1>1, <1>8

LEMMA StampsPop ==
    ASSUME NEW s \in Seq(Sample), s # <<>>
    PROVE  /\ Ticks(Tail(s)) = Tail(Ticks(s)) /\ Head(Ticks(s)) = Head(s).at
           /\ Ticks(s) # <<>> /\ Head(s) \in Sample /\ Tail(s) \in Seq(Sample)
<1>1. s \in [1 .. Len(s) -> Sample] /\ Len(s) \in Nat \ {0} /\ Head(s) = s[1]
    OBVIOUS
<1>2. Ticks(s) \in Seq(Nat) /\ Len(Ticks(s)) = Len(s)
      /\ \A i \in 1 .. Len(s) : Ticks(s)[i] = s[i].at
    BY StampsFacts
<1>3. Tail(s) \in Seq(Sample) /\ Len(Tail(s)) = Len(s) - 1
      /\ \A i \in 1 .. Len(s) - 1 : Tail(s)[i] = s[i + 1]
    BY <1>1
<1>4. Ticks(Tail(s)) \in Seq(Nat) /\ Len(Ticks(Tail(s))) = Len(s) - 1
      /\ \A i \in 1 .. Len(s) - 1 : Ticks(Tail(s))[i] = s[i + 1].at
    <2> DEFINE t == Tail(s)
    <2>1. t \in Seq(Sample) /\ Len(t) = Len(s) - 1 /\ \A i \in 1 .. Len(t) : t[i] = s[i + 1]
        BY <1>3
    <2> HIDE DEF t
    <2>2. Ticks(t) \in Seq(Nat) /\ Len(Ticks(t)) = Len(t)
          /\ \A i \in 1 .. Len(t) : Ticks(t)[i] = t[i].at
        BY <2>1, StampsFacts
    <2>3. \A i \in 1 .. Len(s) - 1 : Ticks(t)[i] = s[i + 1].at
        BY <2>1, <2>2
    <2> QED BY <2>1, <2>2, <2>3 DEF t
<1>5. Tail(Ticks(s)) \in Seq(Nat) /\ Len(Tail(Ticks(s))) = Len(s) - 1
      /\ \A i \in 1 .. Len(s) - 1 : Tail(Ticks(s))[i] = s[i + 1].at
    BY <1>1, <1>2
<1>6. Ticks(s) # <<>> /\ Head(Ticks(s)) = s[1].at /\ s[1] \in Sample
    BY <1>1, <1>2
<1>7. \A i \in 1 .. Len(s) - 1 : Ticks(Tail(s))[i] = Tail(Ticks(s))[i]
    BY <1>4, <1>5
<1>8. Len(s) - 1 \in Nat
    BY <1>1
<1>9. Ticks(Tail(s)) = Tail(Ticks(s))
    BY <1>4, <1>5, <1>7, <1>8, SameLine
<1> QED BY <1>1, <1>3, <1>6, <1>9

\* One more at the end of a growing line.
LEMMA LineLonger ==
    ASSUME NEW h \in Seq(Nat), NEW w \in Seq(Nat), NEW x \in Nat,
           Growing(h \o w), \A y \in Range(h \o w) : y < x
    PROVE  Growing(h \o Append(w, x)) /\ Range(h \o Append(w, x)) = Range(h \o w) \cup {x}
<1> DEFINE n == Len(h \o w)
           new == h \o Append(w, x)
           old == h \o w
<1>1. n \in Nat /\ DOMAIN old = 1 .. n /\ DOMAIN new = 1 .. n + 1 /\ new[n + 1] = x
      /\ \A i \in 1 .. n : new[i] = old[i] /\ old[i] \in Nat
    BY SMT
<1>2. Growing(old) /\ \A y \in Range(old) : y < x
    OBVIOUS
<1> HIDE DEF new, n, old
<1>3. Growing(new)
    <2>1. \A i \in 1 .. n : old[i] < x
        BY <1>1, <1>2 DEF Range
    <2>2. ASSUME NEW i \in 1 .. n + 1, NEW j \in 1 .. n + 1, i < j PROVE new[i] < new[j]
        <3>1. i \in 1 .. n /\ new[i] = old[i]
            BY <1>1, <2>2
        <3>2. CASE j = n + 1
            BY <3>1, <3>2, <2>1, <1>1
        <3>3. CASE j # n + 1
            <4>1. j \in 1 .. n /\ new[j] = old[j]
                BY <1>1, <3>3
            <4>2. old[i] < old[j]
                BY <3>1, <4>1, <2>2, <1>1, <1>2 DEF Growing
            <4> QED BY <3>1, <4>1, <4>2
        <3> QED BY <3>2, <3>3
    <2> QED BY <1>1, <2>2 DEF Growing
<1>4. Range(new) = Range(old) \cup {x}
    <2>1. \A i \in 1 .. n + 1 : i = n + 1 \/ i \in 1 .. n
        BY <1>1
    <2>2. n + 1 \in 1 .. n + 1 /\ \A i \in 1 .. n : i \in 1 .. n + 1
        BY <1>1
    <2> QED BY <1>1, <2>1, <2>2 DEF Range
<1> QED BY <1>3, <1>4 DEF new, old

\* What waits first is handed out: the line is the same.
LEMMA LineMoves ==
    ASSUME NEW h \in Seq(Nat), NEW w \in Seq(Nat), w # <<>>
    PROVE  Append(h, Head(w)) \o Tail(w) = h \o w
BY SMT

\* What waits first is lost.
LEMMA LineLoses ==
    ASSUME NEW h \in Seq(Nat), NEW w \in Seq(Nat), w # <<>>, Growing(h \o w)
    PROVE  Growing(h \o Tail(w)) /\ Range(h \o w) = Range(h \o Tail(w)) \cup {Head(w)}
<1> DEFINE n == Len(h \o w)
           new == h \o Tail(w)
           old == h \o w
           k == Len(h)
<1>1. n \in Nat \ {0} /\ k \in 0 .. n - 1 /\ DOMAIN old = 1 .. n /\ DOMAIN new = 1 .. n - 1
      /\ old[k + 1] = Head(w)
    BY SMT
<1>2. \A i \in 1 .. k : new[i] = old[i]
    BY SMT
<1>3. \A i \in k + 1 .. n - 1 : new[i] = old[i + 1]
    BY SMT
<1>4. \A i \in 1 .. n : old[i] \in Nat
    BY SMT
<1> HIDE DEF new, old, n, k
<1>5. Growing(new)
    <2> SUFFICES ASSUME NEW i \in 1 .. n - 1, NEW j \in 1 .. n - 1, i < j PROVE new[i] < new[j]
        BY <1>1 DEF Growing
    <2> DEFINE u == IF i <= k THEN i ELSE i + 1
               v == IF j <= k THEN j ELSE j + 1
    <2>1. u \in 1 .. n /\ v \in 1 .. n /\ u < v /\ new[i] = old[u] /\ new[j] = old[v]
        BY <1>1, <1>2, <1>3
    <2> QED BY <2>1, <1>1 DEF Growing, old
<1>6. Range(old) = Range(new) \cup {Head(w)}
    <2>1. ASSUME NEW i \in 1 .. n PROVE old[i] \in Range(new) \cup {Head(w)}
        <3>1. CASE i <= k
            <4>1. i \in 1 .. k /\ i \in 1 .. n - 1
                BY <3>1, <1>1
            <4> QED BY <4>1, <1>1, <1>2 DEF Range
        <3>2. CASE i = k + 1
            BY <3>2, <1>1
        <3>3. CASE i > k + 1
            <4>1. i - 1 \in k + 1 .. n - 1 /\ (i - 1) + 1 = i /\ i - 1 \in 1 .. n - 1
                BY <3>3, <1>1
            <4>2. new[i - 1] = old[i]
                BY <4>1, <1>3
            <4> QED BY <4>1, <4>2, <1>1 DEF Range
        <3> QED BY <1>1, <3>1, <3>2, <3>3
    <2>2. ASSUME NEW i \in 1 .. n - 1 PROVE new[i] \in Range(old)
        <3>1. \E j \in 1 .. n : new[i] = old[j]
            BY <1>1, <1>2, <1>3
        <3> QED BY <3>1, <1>1 DEF Range
    <2>3. Head(w) \in Range(old)
        BY <1>1 DEF Range
    <2> QED BY <1>1, <2>1, <2>2, <2>3 DEF Range
<1> QED BY <1>5, <1>6 DEF new, old

-----------------------------------------------------------------------------
(* The invariant.                                                          *)

Carries(i, j, t) ==
    i \in DOMAIN film /\ j \in DOMAIN film[i].samples /\ film[i].samples[j].track = t

At(i, j) == film[i].samples[j].at

\* The samples the cut is past.
Behind(i, j) == i < seg \/ (i = seg /\ j < cursor)

Took(t) == ring[t].took

\* Where the cut, the end and the frame can be.
PlacesInv ==
    /\ cursor > 0 => staged /\ cursor <= Len(Segment.samples) + 1
    /\ staged => seg <= Len(film)
    /\ fails = Tries => failed /\ cursor = 0
    /\ ended => ~staged /\ seg = Len(film) + 1 /\ (failed => over = "failed")
    /\ over # "no" => frame = "idle"
    /\ over = "ended" => ended /\ ~failed

\* What was looked at is still the oldest when it is given up.
LooksInv ==
    /\ frame = "idle" => next = {}
    /\ next # {} => ring["video"].samp # <<>> /\ next = {Head(ring["video"].samp)}
    /\ sound # {} => ring["sound"].samp # <<>> /\ sound = {Head(ring["sound"].samp)}

\* The pictures handed out and waiting are those up to the last one taken, and
\* the cut is past no other.
PicturesInv ==
    /\ Growing(Pictures)
    /\ \A x \in Range(Pictures) :
          x <= Took("video") /\ \E i, j \in Nat : Carries(i, j, "video") /\ x = At(i, j)
    /\ \A i, j : Carries(i, j, "video") /\ Behind(i, j) => At(i, j) <= Took("video")
    /\ ~failed => \A i, j : Carries(i, j, "video") /\ At(i, j) <= Took("video")
                               => At(i, j) \in Range(Pictures)

\* The same of the sound, but for what was dropped.
SoundsInv ==
    /\ Growing(Sounds)
    /\ \A x \in Range(Sounds) : x <= Took("sound")
    /\ audioOn => \A i, j : Carries(i, j, "sound")
                               /\ (Behind(i, j) \/ At(i, j) <= Took("sound"))
                               => At(i, j) \in Range(Sounds) \cup gone

\* A cut began with SegSlots free, and has taken no more than it has passed.
PassedPictures == {j \in PicturesIn(Segment) : j < cursor}
SlotsInv ==
    /\ \A t \in Tracks : Queued(ring[t]) <= SlotsOf(t)
    /\ cursor > 0 =>
          Queued(ring["video"]) + SegSlots <= VideoSlots + Cardinality(PassedPictures)

FilmInv == FilmTypeOK /\ PlacesInv /\ LooksInv /\ PicturesInv /\ SoundsInv /\ SlotsInv

-----------------------------------------------------------------------------
(* What its steps lean on.                                                 *)

\* What put() and pop() make of a ring.
LEMMA PutFacts ==
    ASSUME NEW r \in Ring, NEW c \in Nat \ {0}, NEW len \in Nat \ {0}, NEW now \in Nat
    PROVE  /\ Placed(r, c, len, now) \in Sample /\ Placed(r, c, len, now).at = now
           /\ Put(r, c, len, now) \in Ring
           /\ Put(r, c, len, now).samp = Append(r.samp, Placed(r, c, len, now))
           /\ Put(r, c, len, now).took = now
<1>1. r.wr \in Nat /\ r.wr % c \in 0 .. c - 1
    BY DEF Ring
<1>2. Skip(r, c, len) \in Nat
    BY <1>1 DEF Skip
<1>3. Placed(r, c, len, now) \in Sample /\ Placed(r, c, len, now).at = now
      /\ Placed(r, c, len, now).abs \in Nat
    BY <1>1, <1>2 DEF Placed, Sample
<1>4. Append(r.samp, Placed(r, c, len, now)) \in Seq(Sample)
    BY <1>3 DEF Ring
<1> DEFINE p == Placed(r, c, len, now)
           a == Append(r.samp, p)
<1>5. Put(r, c, len, now) = [r EXCEPT !.wr = p.abs + len, !.samp = a, !.took = now]
    BY DEF Put
<1>6. p.abs + len \in Nat /\ a \in Seq(Sample)
    BY <1>3, <1>4
<1> HIDE DEF p, a
<1>7. Put(r, c, len, now) \in Ring /\ Put(r, c, len, now).samp = a /\ Put(r, c, len, now).took = now
    BY <1>5, <1>6 DEF Ring
<1> QED BY <1>3, <1>7 DEF p, a

LEMMA PopFacts ==
    ASSUME NEW q1 \in Ring, q1.samp # <<>>
    PROVE  /\ Head(q1.samp) \in Sample
           /\ Pop(q1, Head(q1.samp)) \in Ring
           /\ Pop(q1, Head(q1.samp)).samp = Tail(q1.samp)
           /\ Pop(q1, Head(q1.samp)).took = q1.took
           /\ Len(Tail(q1.samp)) = Len(q1.samp) - 1
<1>1. q1.samp \in Seq(Sample) /\ Head(q1.samp) \in Sample /\ Tail(q1.samp) \in Seq(Sample)
      /\ Len(Tail(q1.samp)) = Len(q1.samp) - 1
    BY DEF Ring
<1>2. Head(q1.samp).abs + Head(q1.samp).len \in Nat
    BY <1>1 DEF Sample
<1> QED BY <1>1, <1>2 DEF Pop, Ring

\* The film is one of those there are.
LEMMA FilmFacts ==
    ASSUME FilmTypeOK
    PROVE  /\ Len(film) \in Nat \ {0} /\ DOMAIN film = 1 .. Len(film)
           /\ \A i \in DOMAIN film :
                 /\ film[i].samples \in Seq(Samples) /\ Len(film[i].samples) \in Nat \ {0}
                 /\ DOMAIN film[i].samples = 1 .. Len(film[i].samples)
                 /\ Cardinality(PicturesIn(film[i])) <= SegSlots
                 /\ \A j \in DOMAIN film[i].samples : film[i].samples[j] \in Samples
<1>1. film \in Seq(Segments) /\ film # <<>>
      /\ \A i \in DOMAIN film : Cardinality(PicturesIn(film[i])) <= SegSlots
    BY FilmAssumption DEF FilmTypeOK
<1>2. Len(film) \in Nat \ {0} /\ DOMAIN film = 1 .. Len(film)
    BY <1>1
<1>3. ASSUME NEW i \in DOMAIN film
      PROVE  film[i].samples \in Seq(Samples) /\ film[i].samples # <<>>
    <2>1. film[i] \in Segments
        BY <1>1
    <2> QED BY <2>1 DEF Segments
<1> QED BY <1>1, <1>2, <1>3

\* A sample of the film.
LEMMA CarriesFacts ==
    ASSUME FilmTypeOK, NEW i, NEW j, NEW t, Carries(i, j, t)
    PROVE  /\ i \in 1 .. Len(film) /\ j \in 1 .. Len(film[i].samples) /\ i \in Nat /\ j \in Nat
           /\ At(i, j) \in Nat /\ t \in Tracks /\ Len(film) \in Nat
           /\ Len(film[i].samples) \in Nat
BY FilmFacts DEF Carries, At, Samples

\* The file has a track's samples in the order of their stamps.
LEMMA FilmOrder ==
    ASSUME FilmTypeOK, NEW i, NEW j, NEW k, NEW l, NEW t,
           Carries(i, j, t), Carries(k, l, t), i < k \/ (i = k /\ j < l)
    PROVE  At(i, j) < At(k, l)
BY FilmAssumption DEF FilmTypeOK, FilmsGrow, Carries, At

\* The stamps of a track in the segments up to n.
LEMMA StampsCarried ==
    ASSUME FilmTypeOK, NEW t, NEW n \in Nat, n <= Len(film), NEW x
    PROVE  x \in StampsOf(t, n) <=> \E i, j : Carries(i, j, t) /\ i <= n /\ x = At(i, j)
<1>1. \A i \in 1 .. n : i \in DOMAIN film
    BY FilmFacts
<1>2. ASSUME NEW i \in 1 .. n
      PROVE  x \in StampsIn(t, film[i])
             <=> \E j \in DOMAIN film[i].samples :
                    film[i].samples[j].track = t /\ x = film[i].samples[j].at
    BY DEF StampsIn, Range
<1>3. x \in StampsOf(t, n) <=> \E i \in 1 .. n : x \in StampsIn(t, film[i])
    BY DEF StampsOf
<1>4. ASSUME NEW i, NEW j, Carries(i, j, t), i <= n PROVE i \in 1 .. n
    BY <1>4, CarriesFacts
<1> QED BY <1>1, <1>2, <1>3, <1>4 DEF Carries, At

\* Rings are rings, and lines are lines.
LEMMA LinesTyped ==
    ASSUME FilmTypeOK
    PROVE  /\ \A t \in Tracks : /\ ring[t] \in Ring /\ ring[t].samp \in Seq(Sample)
                                /\ Waiting(t) = Ticks(ring[t].samp) /\ Waiting(t) \in Seq(Nat)
                                /\ Queued(ring[t]) = Len(ring[t].samp) /\ Queued(ring[t]) \in Nat
                                /\ Took(t) \in Nat \cup {-1}
           /\ Pictures \in Seq(Nat) /\ Sounds \in Seq(Nat)
           /\ Range(Pictures) \subseteq Nat /\ Range(Sounds) \subseteq Nat
<1>1. ASSUME NEW t \in Tracks
      PROVE  /\ ring[t] \in Ring /\ ring[t].samp \in Seq(Sample)
             /\ Waiting(t) = Ticks(ring[t].samp) /\ Waiting(t) \in Seq(Nat)
             /\ Queued(ring[t]) = Len(ring[t].samp) /\ Queued(ring[t]) \in Nat
             /\ Took(t) \in Nat \cup {-1}
    <2>1. ring[t] \in Ring
        BY DEF FilmTypeOK
    <2>2. ring[t].samp \in Seq(Sample) /\ ring[t].took \in Nat \cup {-1}
        BY <2>1 DEF Ring
    <2>3. Waiting(t) = Ticks(ring[t].samp)
        BY DEF Waiting, Ticks
    <2>4. Ticks(ring[t].samp) \in Seq(Nat)
        BY <2>2, StampsFacts
    <2> QED BY <2>1, <2>2, <2>3, <2>4 DEF Queued, Took
<1>2. shown \in Seq(Nat) /\ heard \in Seq(Nat)
    BY DEF FilmTypeOK
<1>3. "video" \in Tracks /\ "sound" \in Tracks
    BY DEF Tracks
<1>4. Pictures \in Seq(Nat) /\ Sounds \in Seq(Nat)
    BY <1>1, <1>2, <1>3 DEF Pictures, Sounds
<1>5. \A s \in Seq(Nat) : Range(s) \subseteq Nat
    BY DEF Range
<1> QED BY <1>1, <1>4, <1>5

\* The pictures a cut has passed.
LEMMA PassedFacts ==
    ASSUME FilmTypeOK, seg \in DOMAIN film
    PROVE  /\ IsFiniteSet(PassedPictures) /\ Cardinality(PassedPictures) \in Nat
           /\ Cardinality(PassedPictures) <= SegSlots
           /\ (Cutting /\ Segment.samples[cursor].track = "video")
                 => Cardinality(PassedPictures) < SegSlots
<1>1. Segment.samples \in Seq(Samples) /\ DOMAIN Segment.samples = 1 .. Len(Segment.samples)
      /\ Len(Segment.samples) \in Nat /\ Cardinality(PicturesIn(Segment)) <= SegSlots
    BY FilmFacts DEF Segment
<1>2. PicturesIn(Segment) \subseteq 1 .. Len(Segment.samples)
    BY <1>1 DEF PicturesIn
<1>3. IsFiniteSet(1 .. Len(Segment.samples))
    BY <1>1, FS_Interval
<1>4. IsFiniteSet(PicturesIn(Segment))
    BY <1>2, <1>3, FS_Subset
<1>5. PassedPictures \subseteq PicturesIn(Segment)
    BY DEF PassedPictures
<1>6. /\ IsFiniteSet(PassedPictures)
      /\ Cardinality(PassedPictures) <= Cardinality(PicturesIn(Segment))
      /\ Cardinality(PassedPictures) = Cardinality(PicturesIn(Segment))
            => PassedPictures = PicturesIn(Segment)
    BY <1>4, <1>5, FS_Subset
<1>7. Cardinality(PassedPictures) \in Nat /\ Cardinality(PicturesIn(Segment)) \in Nat
    BY <1>4, <1>6, FS_CardinalityType
<1>8. ASSUME Cutting, Segment.samples[cursor].track = "video"
      PROVE  PassedPictures # PicturesIn(Segment)
    <2>1. cursor \in PicturesIn(Segment) /\ cursor \in Nat
        BY <1>8, <1>1 DEF Cutting, PicturesIn
    <2>2. cursor \notin PassedPictures
        BY <2>1 DEF PassedPictures
    <2> QED BY <2>1, <2>2
<1>9. SegSlots \in Nat
    BY FilmAssumption
<1> QED BY <1>1, <1>6, <1>7, <1>8, <1>9

\* A cut that passes one more sample passes one more picture, or none.
LEMMA PassedGrows ==
    ASSUME FilmTypeOK, seg \in DOMAIN film, Cutting, cursor' = cursor + 1, seg' = seg, film' = film
    PROVE  /\ Segment.samples[cursor].track = "video"
                 => Cardinality(PassedPictures') = Cardinality(PassedPictures) + 1
           /\ Cardinality(PassedPictures') >= Cardinality(PassedPictures)
           /\ Cardinality(PassedPictures) \in Nat /\ Cardinality(PassedPictures') \in Nat
<1>1. IsFiniteSet(PassedPictures) /\ Cardinality(PassedPictures) \in Nat
    BY PassedFacts
<1>2. DOMAIN Segment.samples \subseteq Nat /\ cursor \in Nat
    BY FilmFacts DEF Segment, Cutting
<1>3. Segment' = Segment /\ PicturesIn(Segment)' = PicturesIn(Segment)
    BY DEF Segment, PicturesIn
<1>4. CASE Segment.samples[cursor].track = "video"
    <2>1. PassedPictures' = PassedPictures \cup {cursor} /\ cursor \notin PassedPictures
        BY <1>2, <1>3, <1>4 DEF PassedPictures, PicturesIn, Cutting
    <2> QED BY <2>1, <1>1, FS_AddElement
<1>5. CASE Segment.samples[cursor].track # "video"
    <2>1. PassedPictures' = PassedPictures
        BY <1>2, <1>3, <1>5 DEF PassedPictures, PicturesIn, Cutting
    <2> QED BY <2>1, <1>1, <1>5
<1> QED BY <1>4, <1>5

-----------------------------------------------------------------------------
(* The invariant begins.                                                   *)

LEMMA FilmBegins == FilmInit => FilmInv
<1> SUFFICES ASSUME FilmInit PROVE FilmInv
    OBVIOUS
<1>1. FilmTypeOK
    <2>1. EmptyRing \in Ring
        BY DEF EmptyRing, Ring
    <2>2. film \in Seq(Segments) /\ film # <<>>
        BY FilmAssumption DEF FilmInit
    <2>3. Len(film) \in Nat
        BY <2>2
    <2>4. film \in Films /\ audioOn \in BOOLEAN /\ seg \in 1 .. Len(film) + 1
          /\ staged \in BOOLEAN /\ cursor \in Nat /\ fails \in 0 .. Tries
          /\ held \in 0 .. VideoSlots /\ pauses \in 0 .. MaxPauses
        BY <2>3, FilmAssumption DEF FilmInit
    <2>5. ring \in [Tracks -> Ring]
        BY <2>1 DEF FilmInit
    <2>6. shown \in Seq(Nat) /\ heard \in Seq(Nat)
        BY DEF FilmInit
    <2> QED BY <2>4, <2>5, <2>6 DEF FilmInit, FilmTypeOK
<1>2. PlacesInv
    BY FilmFacts, FilmAssumption, <1>1 DEF FilmInit, PlacesInv
<1>3. LooksInv
    BY DEF FilmInit, LooksInv
<1>4. \A t \in Tracks : ring[t].samp = <<>> /\ Took(t) = -1 /\ Waiting(t) = <<>>
    <2>1. \A t \in Tracks : ring[t].samp = <<>> /\ Took(t) = -1
        BY DEF FilmInit, EmptyRing, Took
    <2>2. \A t \in Tracks : Waiting(t) \in Seq(Nat) /\ Len(Waiting(t)) = 0
        BY <1>1, <2>1, LinesTyped, StampsFacts
    <2>3. \A s \in Seq(Nat) : Len(s) = 0 => s = <<>>
        OBVIOUS
    <2> QED BY <2>1, <2>2, <2>3
<1>5. Pictures = <<>> /\ Sounds = <<>>
    BY <1>4 DEF Pictures, Sounds, FilmInit, Tracks
<1>6. Growing(<<>>) /\ Range(<<>>) = {}
    BY DEF Growing, Range
<1>7. \A i, j, t : Carries(i, j, t) => ~Behind(i, j) /\ At(i, j) > -1
    BY <1>1, CarriesFacts DEF Behind, FilmInit
<1>8. PicturesInv /\ SoundsInv
    BY <1>1, <1>4, <1>5, <1>6, <1>7, CarriesFacts DEF PicturesInv, SoundsInv, Tracks
<1>9. SlotsInv
    BY <1>4, FilmAssumption DEF FilmInit, SlotsInv, Queued, SlotsOf
<1> QED BY <1>1, <1>2, <1>3, <1>8, <1>9 DEF FilmInv

-----------------------------------------------------------------------------
(* Steps that leave the rings alone.                                       *)

\* The cut may pass what the rings have had, and what nobody plays or was
\* dropped.
LEMMA LinesStand ==
    ASSUME FilmInv, FilmTypeOK',
           UNCHANGED <<film, audioOn, ring, shown, heard>>,
           gone \subseteq gone', failed => failed',
           \A i, j, t : Carries(i, j, t) /\ Behind(i, j)' =>
              \/ Behind(i, j) \/ At(i, j) <= Took(t)
              \/ t = "sound" /\ (~audioOn \/ At(i, j) \in gone')
    PROVE  PicturesInv' /\ SoundsInv'
<1>1. Pictures' = Pictures /\ Sounds' = Sounds
    BY DEF Pictures, Sounds, Waiting
<1>2. \A i, j, t : Carries(i, j, t)' = Carries(i, j, t) /\ At(i, j)' = At(i, j) /\ Took(t)' = Took(t)
    BY DEF Carries, At, Took
<1>3. PicturesInv'
    BY <1>1, <1>2 DEF FilmInv, PicturesInv
<1>4. SoundsInv'
    BY <1>1, <1>2 DEF FilmInv, SoundsInv
<1> QED BY <1>3, <1>4

\* Nor does the room change, but where a cut begins.
LEMMA SlotsStand ==
    ASSUME FilmInv, FilmTypeOK', PlacesInv', UNCHANGED <<film, ring>>,
           \/ cursor' = 0
           \/ cursor' = cursor /\ seg' = seg
           \/ cursor' = cursor + 1 /\ seg' = seg /\ Cutting
           \/ cursor' = 1 /\ seg' = seg /\ HasRoom
    PROVE  SlotsInv'
<1>1. \A t \in Tracks : Queued(ring[t])' <= SlotsOf(t)
    BY DEF FilmInv, SlotsInv
<1>2. Queued(ring["video"]) \in Nat /\ VideoSlots \in Nat /\ SegSlots \in Nat
    BY LinesTyped, FilmAssumption DEF FilmInv, Tracks
<1>3. cursor' > 0 => seg' \in DOMAIN film
    BY FilmFacts, SMTT(30) DEF FilmInv, PlacesInv, FilmTypeOK
<1>4. CASE cursor' = 0
    BY <1>1, <1>4 DEF SlotsInv
<1>5. CASE cursor' = cursor /\ seg' = seg
    <2>1. PassedPictures' = PassedPictures
        BY <1>5 DEF PassedPictures, PicturesIn, Segment
    <2> QED BY <1>1, <1>5, <2>1 DEF SlotsInv, FilmInv
<1>6. CASE cursor' = cursor + 1 /\ seg' = seg /\ Cutting
    <2>1. cursor \in Nat /\ cursor > 0 /\ seg \in DOMAIN film
        BY <1>3, <1>6 DEF Cutting, FilmInv, FilmTypeOK
    <2>2. Cardinality(PassedPictures') >= Cardinality(PassedPictures)
          /\ Cardinality(PassedPictures) \in Nat /\ Cardinality(PassedPictures') \in Nat
        BY <1>6, <2>1, PassedGrows DEF FilmInv
    <2>3. Queued(ring["video"]) + SegSlots <= VideoSlots + Cardinality(PassedPictures)
        BY <2>1 DEF FilmInv, SlotsInv
    <2>4. Queued(ring["video"])' + SegSlots <= VideoSlots + Cardinality(PassedPictures')
        BY <1>2, <2>2, <2>3
    <2> QED BY <1>1, <2>4 DEF SlotsInv
<1>7. CASE cursor' = 1 /\ seg' = seg /\ HasRoom
    <2>1. PassedPictures' = {}
        <3>1. Segment' = Segment /\ DOMAIN Segment.samples \subseteq Nat \ {0}
            BY <1>3, <1>7, FilmFacts DEF Segment, FilmInv
        <3> QED BY <3>1, <1>7 DEF PassedPictures, PicturesIn
    <2>3. Cardinality(PassedPictures') = 0
        BY <2>1, FS_EmptySet
    <2>2. Queued(ring["video"])' + SegSlots <= VideoSlots + Cardinality(PassedPictures')
        BY <1>2, <1>7, <2>3 DEF HasRoom
    <2> QED BY <1>1, <2>2 DEF SlotsInv
<1> QED BY <1>4, <1>5, <1>6, <1>7

\* Where the cut, the end and the frame are after such a step.
FeederQuiet ==
    \/ FetchArrives \/ FetchEnds \/ FetchFails \/ CutBegins \/ CutSkips \/ CutDrops
    \/ CutRefused \/ CutBreaks \/ CutEnds

FrameQuiet == Pause \/ Resume \/ FrameFails \/ FrameLooks \/ FrameClocks \/ FrameEmpty \/ FrameWaits

SoundQuiet == SoundLooks \/ SoundWaits

\* A pass that failed.
LEMMA CountFacts ==
    ASSUME CountFailure, failed \in BOOLEAN
    PROVE  /\ fails' = fails + 1 /\ failed' \in BOOLEAN
           /\ fails + 1 >= Tries => failed'
           /\ failed => failed'
<1>1. fails' = fails + 1 /\ failed' = (failed \/ fails + 1 >= Tries)
    BY DEF CountFailure
<1>2. failed' \in BOOLEAN /\ (fails + 1 >= Tries => failed') /\ (failed => failed')
    BY <1>1, Zenon
<1> QED BY <1>1, <1>2

LEMMA FeederPlaces ==
    ASSUME FilmInv, FeederQuiet
    PROVE  FilmTypeOK' /\ PlacesInv' /\ LooksInv'
<1> USE DEF FilmInv, feedVars, frameVars, soundVars
<1>1. FilmTypeOK /\ PlacesInv /\ LooksInv
    OBVIOUS
<1>2. Len(film) \in Nat /\ Tries \in Nat \ {0}
    BY FilmFacts, FilmAssumption
<1>3. UNCHANGED <<film, audioOn, ring, playing, paused, frame, held, next, over, pauses, shown,
                  sound, heard>>
    BY DEF FeederQuiet, FetchArrives, FetchEnds, FetchFails, CutBegins, CutSkips, CutDrops,
           CutRefused, CutBreaks, CutEnds
<1>4. LooksInv'
    BY <1>1, <1>3 DEF LooksInv
<1>5. CASE FetchArrives
    <2>1. FilmTypeOK'
        BY <1>1, <1>2, <1>4, <1>5 DEF FilmTypeOK, FetchArrives
    <2>2. PlacesInv'
        BY <1>1, <1>2, <1>4, <1>5 DEF FilmTypeOK, PlacesInv, FetchArrives
    <2> QED BY <1>4, <2>1, <2>2
<1>6. CASE FetchEnds
    <2>1. FilmTypeOK'
        BY <1>1, <1>2, <1>4, <1>6 DEF FilmTypeOK, FetchEnds, Serving
    <2>2. PlacesInv'
        BY <1>1, <1>2, <1>4, <1>6 DEF FilmTypeOK, PlacesInv, FetchEnds, Serving
    <2> QED BY <1>4, <2>1, <2>2
<1>7. CASE FetchFails
    <2>1. fails' = fails + 1 /\ fails < Tries /\ failed' \in BOOLEAN
          /\ (fails + 1 = Tries => failed') /\ (failed => failed') /\ over = over'
        <3>1. CountFailure /\ failed \in BOOLEAN /\ fails \in 0 .. Tries
            BY <1>1, <1>7 DEF FilmTypeOK, FetchFails
        <3>2. fails # Tries
            BY <1>1, <1>7 DEF FilmTypeOK, PlacesInv, FetchFails, Serving
        <3> QED BY <1>2, <1>3, <3>1, <3>2, CountFacts
    <2>2. FilmTypeOK'
        BY <1>1, <1>2, <1>3, <1>7, <2>1 DEF FilmTypeOK, FetchFails
    <2>3. ~ended /\ cursor' = 0 /\ ended' = ended /\ seg' = seg /\ (staged' => staged)
        BY <1>1, <1>7 DEF PlacesInv, FetchFails, Serving, FilmTypeOK
    <2>4. PlacesInv'
        BY <1>1, <1>2, <1>3, <2>1, <2>3 DEF FilmTypeOK, PlacesInv
    <2> QED BY <1>4, <2>2, <2>4
<1>8. CASE CutBegins
    <2>1. Len(Segment.samples) >= 1
        BY <1>1, <1>8, FilmFacts DEF CutBegins, PlacesInv, FilmTypeOK, Segment
    <2> QED BY <1>1, <1>2, <1>4, <1>8, <2>1 DEF FilmTypeOK, PlacesInv, CutBegins, Serving, Segment
<1>9. CASE CutSkips \/ CutDrops
    <2>1. seg \in DOMAIN film /\ cursor > 0
        BY <1>1, <1>2, <1>9, FilmFacts DEF CutSkips, CutDrops, Cutting, PlacesInv, FilmTypeOK
    <2>2. cursor \in 1 .. Len(Segment.samples) /\ Len(Segment.samples) \in Nat
          /\ Segment.samples[cursor].at \in Nat
        BY <1>9, <2>1, FilmFacts DEF CutSkips, CutDrops, Cutting, Segment, Samples
    <2>3. cursor' = cursor + 1 /\ UNCHANGED <<seg, staged, fails, ended, failed>>
          /\ gone' \subseteq gone \cup {Segment.samples[cursor].at}
        BY <1>9 DEF CutSkips, CutDrops
    <2> QED BY <1>1, <1>2, <1>3, <1>4, <2>1, <2>2, <2>3 DEF FilmTypeOK, PlacesInv, Segment
<1>10. CASE CutRefused
    <2>1. FilmTypeOK'
        BY <1>1, <1>2, <1>4, <1>10 DEF FilmTypeOK, CutRefused, Cutting
    <2>2. PlacesInv'
        BY <1>1, <1>2, <1>4, <1>10 DEF FilmTypeOK, PlacesInv, CutRefused, Cutting
    <2> QED BY <1>4, <2>1, <2>2
<1>11. CASE CutBreaks
    <2>1. fails' = fails + 1 /\ fails < Tries /\ failed' \in BOOLEAN
          /\ (fails + 1 = Tries => failed') /\ (failed => failed') /\ over = over'
        <3>1. CountFailure /\ failed \in BOOLEAN /\ fails \in 0 .. Tries
            BY <1>1, <1>11 DEF FilmTypeOK, CutBreaks
        <3>2. fails # Tries
            BY <1>1, <1>11 DEF FilmTypeOK, PlacesInv, CutBreaks
        <3> QED BY <1>2, <1>3, <3>1, <3>2, CountFacts
    <2>2. FilmTypeOK'
        <3>1. cursor' = 0 /\ staged' = FALSE /\ UNCHANGED <<seg, ended, gone>>
            BY <1>11 DEF CutBreaks
        <3>2. staged' \in BOOLEAN
            BY <3>1, Zenon
        <3> QED BY <1>1, <1>2, <1>3, <2>1, <3>1, <3>2 DEF FilmTypeOK
    <2>3. ~ended /\ cursor' = 0 /\ ended' = ended /\ seg' = seg /\ (staged' => staged)
        BY <1>1, <1>11 DEF PlacesInv, CutBreaks, FilmTypeOK
    <2>4. PlacesInv'
        BY <1>1, <1>2, <1>3, <2>1, <2>3 DEF FilmTypeOK, PlacesInv
    <2> QED BY <1>4, <2>2, <2>4
<1>12. CASE CutEnds
    <2>1. FilmTypeOK'
        <3>1. cursor' = 0 /\ staged' = FALSE /\ fails' = 0 /\ UNCHANGED <<ended, failed, gone>>
              /\ seg' = seg + 1
            BY <1>12 DEF CutEnds
        <3>2. seg' \in 1 .. Len(film) + 1
            BY <1>1, <1>2, <1>12, <3>1 DEF CutEnds, FilmTypeOK, PlacesInv
        <3>3. staged' \in BOOLEAN
            BY <3>1, Zenon
        <3> QED BY <1>1, <1>2, <1>3, <3>1, <3>2, <3>3 DEF FilmTypeOK
    <2>2. PlacesInv'
        BY <1>1, <1>2, <1>4, <1>12 DEF FilmTypeOK, PlacesInv, CutEnds
    <2> QED BY <1>4, <2>1, <2>2
<1> QED BY <1>5, <1>6, <1>7, <1>8, <1>9, <1>10, <1>11, <1>12 DEF FeederQuiet

LEMMA FramePlaces ==
    ASSUME FilmInv, FrameQuiet
    PROVE  FilmTypeOK' /\ PlacesInv' /\ LooksInv'
<1> USE DEF FilmInv, feedVars, soundVars, FrameReturns
<1>1. FilmTypeOK /\ PlacesInv /\ LooksInv
    OBVIOUS
<1>2. Len(film) \in Nat /\ MaxPauses \in Nat /\ VideoSlots \in Nat
    BY FilmFacts, FilmAssumption
<1>3. UNCHANGED <<film, audioOn, ring, failed, gone, seg, staged, cursor, fails, ended,
                  sound, heard, shown>>
    BY DEF FrameQuiet, Pause, Resume, FrameFails, FrameLooks, FrameClocks, FrameEmpty, FrameWaits
<1>4. Queued(ring["video"]) \in 0 .. VideoSlots /\ ring["video"].samp \in Seq(Sample)
      /\ Queued(ring["video"]) = Len(ring["video"].samp)
    BY <1>2, LinesTyped DEF SlotsInv, SlotsOf, Tracks
<1>5. CASE Pause
    <2>1. FilmTypeOK'
        BY <1>1, <1>2, <1>3, <1>5 DEF FilmTypeOK, Pause
    <2>2. PlacesInv'
        BY <1>1, <1>2, <1>3, <1>5 DEF FilmTypeOK, PlacesInv, Segment, Pause
    <2>3. LooksInv'
        BY <1>1, <1>2, <1>3, <1>5 DEF LooksInv, Pause
    <2> QED BY <2>1, <2>2, <2>3
<1>6. CASE Resume
    <2>1. FilmTypeOK'
        BY <1>1, <1>2, <1>3, <1>6 DEF FilmTypeOK, Resume
    <2>2. PlacesInv'
        BY <1>1, <1>2, <1>3, <1>6 DEF FilmTypeOK, PlacesInv, Segment, Resume
    <2>3. LooksInv'
        BY <1>1, <1>2, <1>3, <1>6 DEF LooksInv, Resume
    <2> QED BY <2>1, <2>2, <2>3
<1>7. CASE FrameFails
    <2>1. FilmTypeOK'
        BY <1>1, <1>2, <1>3, <1>7 DEF FilmTypeOK, FrameFails
    <2>2. PlacesInv'
        BY <1>1, <1>2, <1>3, <1>7 DEF FilmTypeOK, PlacesInv, Segment, FrameFails
    <2>3. LooksInv'
        BY <1>1, <1>2, <1>3, <1>7 DEF LooksInv, FrameFails
    <2> QED BY <2>1, <2>2, <2>3
<1>8. CASE FrameLooks
    <2>1. next' # {} => ring["video"].samp # <<>> /\ next' = {Head(ring["video"].samp)}
                        /\ Head(ring["video"].samp) \in Sample
        BY <1>4, <1>8 DEF FrameLooks
    <2>2. FilmTypeOK'
        BY <1>1, <1>2, <1>3, <1>4, <1>8, <2>1 DEF FilmTypeOK, FrameLooks
    <2>3. PlacesInv' /\ LooksInv'
        BY <1>1, <1>2, <1>3, <1>8, <2>1 DEF PlacesInv, LooksInv, Segment, FrameLooks
    <2> QED BY <2>2, <2>3
<1>9. CASE FrameClocks
    <2>1. playing' \in BOOLEAN
        BY <1>1, <1>9 DEF FrameClocks, FilmTypeOK
    <2>2. FilmTypeOK'
        BY <1>1, <1>2, <1>3, <1>9, <2>1 DEF FilmTypeOK, FrameClocks
    <2>3. PlacesInv' /\ LooksInv'
        BY <1>1, <1>2, <1>3, <1>9 DEF PlacesInv, LooksInv, Segment, FrameClocks
    <2> QED BY <2>2, <2>3
<1>10. CASE FrameEmpty
    <2>1. FilmTypeOK'
        BY <1>1, <1>2, <1>3, <1>10 DEF FilmTypeOK, FrameEmpty
    <2>2. PlacesInv'
        BY <1>1, <1>2, <1>3, <1>10 DEF FilmTypeOK, PlacesInv, Segment, FrameEmpty
    <2>3. LooksInv'
        BY <1>1, <1>2, <1>3, <1>10 DEF LooksInv, FrameEmpty
    <2> QED BY <2>1, <2>2, <2>3
<1>11. CASE FrameWaits
    <2>1. FilmTypeOK'
        BY <1>1, <1>2, <1>3, <1>11 DEF FilmTypeOK, FrameWaits
    <2>2. PlacesInv'
        BY <1>1, <1>2, <1>3, <1>11 DEF FilmTypeOK, PlacesInv, Segment, FrameWaits
    <2>3. LooksInv'
        BY <1>1, <1>2, <1>3, <1>11 DEF LooksInv, FrameWaits
    <2> QED BY <2>1, <2>2, <2>3
<1> QED BY <1>5, <1>6, <1>7, <1>8, <1>9, <1>10, <1>11 DEF FrameQuiet

LEMMA SoundPlaces ==
    ASSUME FilmInv, SoundQuiet
    PROVE  FilmTypeOK' /\ PlacesInv' /\ LooksInv'
<1>1. FilmTypeOK /\ PlacesInv /\ LooksInv
    BY DEF FilmInv
<1>2. UNCHANGED <<film, audioOn, ring, failed, gone, feedVars, frameVars, heard>>
    BY DEF SoundQuiet, SoundLooks, SoundWaits
<1>3. sound' # {} => ring["sound"].samp # <<>> /\ sound' = {Head(ring["sound"].samp)}
                     /\ Head(ring["sound"].samp) \in Sample
    <2>1. ring["sound"].samp \in Seq(Sample) /\ Queued(ring["sound"]) = Len(ring["sound"].samp)
        BY <1>1, LinesTyped DEF Tracks
    <2> QED BY <2>1 DEF SoundQuiet, SoundLooks, SoundWaits
<1>4. FilmTypeOK'
    BY <1>1, <1>2, <1>3 DEF FilmTypeOK, feedVars, frameVars
<1>5. PlacesInv' /\ LooksInv'
    BY <1>1, <1>2, <1>3 DEF PlacesInv, LooksInv, Segment, feedVars, frameVars
<1> QED BY <1>4, <1>5

\* No step that leaves the rings alone breaks the invariant.
LEMMA QuietStep ==
    ASSUME FilmInv, FeederQuiet \/ FrameQuiet \/ SoundQuiet
    PROVE  FilmInv'
<1> USE DEF feedVars, frameVars, soundVars
<1>1. FilmTypeOK' /\ PlacesInv' /\ LooksInv'
    BY FeederPlaces, FramePlaces, SoundPlaces
<1>2. UNCHANGED <<film, audioOn, ring, shown, heard>>
    BY DEF FeederQuiet, FetchArrives, FetchEnds, FetchFails, CutBegins, CutSkips, CutDrops,
           CutRefused, CutBreaks, CutEnds, FrameQuiet, Pause, Resume, FrameFails, FrameLooks,
           FrameClocks, FrameEmpty, FrameWaits, SoundQuiet, SoundLooks, SoundWaits
<1>3. gone \subseteq gone' /\ (failed => failed')
    <2>1. CASE FetchFails \/ CutBreaks
        <3>1. CountFailure /\ failed \in BOOLEAN /\ gone' = gone
            BY <2>1 DEF FetchFails, CutBreaks, FilmInv, FilmTypeOK
        <3> QED BY <3>1, CountFacts
    <2>2. CASE ~(FetchFails \/ CutBreaks)
        <3>1. failed' = failed
            BY <2>2 DEF FeederQuiet, FetchArrives, FetchEnds, CutBegins, CutSkips, CutDrops,
                   CutRefused, CutEnds, FrameQuiet, Pause, Resume, FrameFails,
                   FrameLooks, FrameClocks, FrameEmpty, FrameWaits, SoundQuiet, SoundLooks, SoundWaits
        <3>2. gone \subseteq gone'
            BY <2>2 DEF FeederQuiet, FetchArrives, FetchEnds, CutBegins, CutSkips, CutDrops,
                   CutRefused, CutEnds, FrameQuiet, Pause, Resume, FrameFails,
                   FrameLooks, FrameClocks, FrameEmpty, FrameWaits, SoundQuiet, SoundLooks, SoundWaits
        <3> QED BY <3>1, <3>2
    <2> QED BY <2>1, <2>2
<1>4. \/ cursor' = 0
      \/ cursor' = cursor /\ seg' = seg
      \/ cursor' = cursor + 1 /\ seg' = seg /\ Cutting
      \/ cursor' = 1 /\ seg' = seg /\ HasRoom
    BY DEF FeederQuiet, FetchArrives, FetchEnds, FetchFails, CutBegins, CutSkips, CutDrops,
           CutRefused, CutBreaks, CutEnds, FrameQuiet, Pause, Resume, FrameFails, FrameLooks,
           FrameClocks, FrameEmpty, FrameWaits, SoundQuiet, SoundLooks, SoundWaits
<1>5. ASSUME NEW i, NEW j, NEW t, Carries(i, j, t), Behind(i, j)'
      PROVE  \/ Behind(i, j) \/ At(i, j) <= Took(t)
             \/ t = "sound" /\ (~audioOn \/ At(i, j) \in gone')
    <2>1. FilmTypeOK /\ i \in Nat /\ j \in Nat /\ seg \in Nat /\ cursor \in Nat
          /\ j \in 1 .. Len(film[i].samples) /\ Len(film[i].samples) \in Nat
        <3>1. FilmTypeOK /\ cursor \in Nat /\ seg \in 1 .. Len(film) + 1
            BY DEF FilmInv, FilmTypeOK
        <3>2. Len(film) \in Nat
            BY <3>1, FilmFacts
        <3>3. i \in Nat /\ j \in Nat /\ j \in 1 .. Len(film[i].samples) /\ Len(film[i].samples) \in Nat
            BY <1>5, <3>1, CarriesFacts, FilmFacts
        <3> QED BY <3>1, <3>2, <3>3
    <2>2. CASE UNCHANGED <<seg, cursor>> \/ (cursor' = 0 /\ seg' = seg) \/ CutBegins
        BY <1>5, <2>1, <2>2 DEF Behind, CutBegins
    <2>3. CASE CutSkips \/ CutDrops
        <3>1. seg' = seg /\ cursor' = cursor + 1
            BY <2>3 DEF CutSkips, CutDrops
        <3>2. Behind(i, j) \/ (i = seg /\ j = cursor)
            BY <1>5, <2>1, <3>1 DEF Behind
        <3>3. CASE i = seg /\ j = cursor
            <4>1. Segment.samples[cursor].track = t /\ Segment.samples[cursor].at = At(i, j)
                BY <1>5, <3>3 DEF Carries, At, Segment
            <4>2. (t = "sound" /\ ~audioOn) \/ At(i, j) <= Took(t)
                  \/ (t = "sound" /\ At(i, j) \in gone')
                BY <2>3, <4>1 DEF CutSkips, CutDrops, Had, Took
            <4> QED BY <4>2
        <3> QED BY <3>2, <3>3
    <2>4. CASE CutEnds
        <3>1. seg' = seg + 1 /\ cursor' = 0 /\ cursor = Len(Segment.samples) + 1
            BY <2>4 DEF CutEnds
        <3>2. i < seg \/ i = seg
            BY <1>5, <2>1, <3>1 DEF Behind
        <3> QED BY <2>1, <3>1, <3>2 DEF Behind, Segment
    <2> QED BY <2>2, <2>3, <2>4
            DEF FeederQuiet, FetchArrives, FetchEnds, FetchFails, CutRefused, CutBreaks,
                FrameQuiet, Pause, Resume, FrameFails, FrameLooks, FrameClocks, FrameEmpty,
                FrameWaits, SoundQuiet, SoundLooks, SoundWaits
<1>6. PicturesInv' /\ SoundsInv'
    BY <1>1, <1>2, <1>3, <1>5, LinesStand
<1>7. SlotsInv'
    BY <1>1, <1>2, <1>4, SlotsStand
<1> QED BY <1>1, <1>6, <1>7 DEF FilmInv

-----------------------------------------------------------------------------
(* A ring takes a sample, and gives one up.                                *)

\* take_sample() puts a sample into its ring.
LEMMA TakeStep == ASSUME FilmInv, CutTakes PROVE FilmInv'
<1> USE DEF feedVars, frameVars, soundVars
<1>0. PICK s, t, new, size, rec :
         /\ s = Segment.samples[cursor] /\ t = s.track /\ new = s.at /\ size = s.len
         /\ rec = Placed(ring[t], CapOf(t), size, new)
    OBVIOUS
<1>1. FilmTypeOK /\ PlacesInv /\ LooksInv /\ PicturesInv /\ SoundsInv /\ SlotsInv
    BY DEF FilmInv
<1>2. UNCHANGED <<film, audioOn, seg, staged, fails, ended, failed, gone, playing, paused, frame,
                  held, next, over, pauses, shown, sound, heard>>
      /\ cursor' = cursor + 1 /\ Cutting /\ Offered(s)
      /\ Fits(ring[t], CapOf(t), SlotsOf(t), size)
      /\ ring' = [ring EXCEPT ![t] = Put(@, CapOf(t), size, new)]
    BY <1>0 DEF CutTakes
<1>3. seg \in DOMAIN film /\ seg \in Nat /\ cursor \in Nat /\ cursor > 0
      /\ cursor \in 1 .. Len(Segment.samples) /\ Len(Segment.samples) \in Nat
      /\ s \in Samples /\ Len(film) \in Nat
    <2>1. seg \in 1 .. Len(film) + 1 /\ cursor \in Nat /\ cursor > 0 /\ cursor \in DOMAIN film[seg].samples
          /\ s = film[seg].samples[cursor]
        BY <1>0, <1>1, <1>2 DEF Cutting, Segment, FilmTypeOK
    <2>2. seg \in DOMAIN film
        BY <1>1, <2>1, FilmFacts DEF PlacesInv
    <2>3. /\ Len(film) \in Nat /\ DOMAIN film = 1 .. Len(film) /\ Len(film[seg].samples) \in Nat
          /\ DOMAIN film[seg].samples = 1 .. Len(film[seg].samples)
          /\ film[seg].samples[cursor] \in Samples
        BY <1>1, <2>1, <2>2, FilmFacts
    <2> QED BY <2>1, <2>2, <2>3 DEF Segment
<1>4. t \in Tracks /\ new \in Nat /\ size \in Nat \ {0} /\ ring[t] \in Ring
      /\ CapOf(t) \in Nat \ {0} /\ Carries(seg, cursor, t) /\ At(seg, cursor) = new
    BY <1>0, <1>1, <1>3, FilmAssumption, LinesTyped DEF Samples, CapOf, Carries, At, Segment, Cutting
<1>5. /\ rec \in Sample /\ rec.at = new /\ ring'[t] \in Ring
      /\ ring'[t].samp = Append(ring[t].samp, rec) /\ ring'[t].took = new
      /\ \A u \in Tracks : u # t => ring'[u] = ring[u]
      /\ ring' \in [Tracks -> Ring]
    <2>1. ring \in [Tracks -> Ring]
        BY <1>1 DEF FilmTypeOK
    <2>2. ring'[t] = Put(ring[t], CapOf(t), size, new) /\ \A u \in Tracks : u # t => ring'[u] = ring[u]
        BY <1>2, <1>4, <2>1
    <2>3. rec \in Sample /\ rec.at = new /\ ring'[t] \in Ring
          /\ ring'[t].samp = Append(ring[t].samp, rec) /\ ring'[t].took = new
        <3>1. PICK q1, c : q1 = ring[t] /\ c = CapOf(t)
            OBVIOUS
        <3>2. q1 \in Ring /\ c \in Nat \ {0} /\ size \in Nat \ {0} /\ new \in Nat
            BY <1>4, <3>1
        <3>3. /\ Placed(q1, c, size, new) \in Sample /\ Placed(q1, c, size, new).at = new
              /\ Put(q1, c, size, new) \in Ring
              /\ Put(q1, c, size, new).samp = Append(q1.samp, Placed(q1, c, size, new))
              /\ Put(q1, c, size, new).took = new
            BY <3>2, PutFacts
        <3> QED BY <1>0, <2>2, <3>1, <3>3
    <2> QED BY <1>2, <1>4, <2>1, <2>2, <2>3
<1>6. Took(t) \in Nat \cup {-1} /\ new > Took(t) /\ Took(t)' = new
      /\ \A u \in Tracks : u # t => Took(u)' = Took(u)
    <2>1. Took(t) \in Nat \cup {-1}
        BY <1>1, <1>4, LinesTyped
    <2>2. ~(new <= Took(t))
        BY <1>0, <1>2 DEF Offered, Had, Took
    <2>3. Took(t)' = new /\ \A u \in Tracks : u # t => Took(u)' = Took(u)
        BY <1>5 DEF Took
    <2> QED BY <1>4, <2>1, <2>2, <2>3
<1>7. /\ Waiting(t)' = Append(Waiting(t), new)
      /\ \A u \in Tracks : u # t => Waiting(u)' = Waiting(u)
    <2>1. Waiting(t)' = Ticks(ring'[t].samp) /\ Waiting(t) = Ticks(ring[t].samp)
        BY DEF Waiting, Ticks
    <2>2. ring[t].samp \in Seq(Sample)
        BY <1>4 DEF Ring
    <2> QED BY <1>5, <2>1, <2>2, StampsPut DEF Waiting
<1>8. /\ \A i, j, u : Carries(i, j, u)' = Carries(i, j, u) /\ At(i, j)' = At(i, j)
      /\ \A i, j, u : Carries(i, j, u) /\ Behind(i, j)'
            => Behind(i, j) \/ (i = seg /\ j = cursor)
    <2>1. \A i, j, u : Carries(i, j, u)' = Carries(i, j, u) /\ At(i, j)' = At(i, j)
        BY <1>2 DEF Carries, At
    <2>2. ASSUME NEW i, NEW j, NEW u, Carries(i, j, u), Behind(i, j)'
          PROVE  Behind(i, j) \/ (i = seg /\ j = cursor)
        <3>1. j \in Nat
            BY <1>1, <2>2, CarriesFacts
        <3> QED BY <1>2, <1>3, <2>2, <3>1 DEF Behind
    <2> QED BY <2>1, <2>2
\* Nothing of the film lies between what the ring had and what it takes.
<1>9. ASSUME NEW i, NEW j, Carries(i, j, t), At(i, j) <= new
      PROVE  Behind(i, j) \/ At(i, j) = new
    <2>1. i \in Nat /\ j \in Nat /\ At(i, j) \in Nat
        BY <1>1, <1>9, CarriesFacts
    <2>2. CASE seg < i \/ (seg = i /\ cursor < j)
        BY <1>1, <1>4, <1>9, <2>1, <2>2, FilmOrder
    <2>3. CASE ~(seg < i \/ (seg = i /\ cursor < j))
        <3>1. Behind(i, j) \/ (i = seg /\ j = cursor)
            BY <1>3, <2>1, <2>3 DEF Behind
        <3> QED BY <1>4, <3>1
    <2> QED BY <2>2, <2>3
<1>10. FilmTypeOK' /\ PlacesInv' /\ LooksInv'
    <2>1. FilmTypeOK'
        BY <1>1, <1>2, <1>3, <1>5, SMTT(30) DEF FilmTypeOK
    <2>2. PlacesInv'
        BY <1>1, <1>2, <1>3 DEF PlacesInv, Segment
    <2>3. \A u \in Tracks : ring[u].samp # <<>>
             => ring'[u].samp # <<>> /\ Head(ring'[u].samp) = Head(ring[u].samp)
        <3>1. ring[t].samp \in Seq(Sample)
            BY <1>4 DEF Ring
        <3> QED BY <1>5, <3>1
    <2>4. LooksInv'
        BY <1>1, <1>2, <2>3 DEF LooksInv, Tracks
    <2> QED BY <2>1, <2>2, <2>4
<1>11. shown \in Seq(Nat) /\ heard \in Seq(Nat) /\ Waiting(t) \in Seq(Nat)
       /\ Pictures \in Seq(Nat) /\ Sounds \in Seq(Nat)
       /\ Range(Pictures) \subseteq Nat /\ Range(Sounds) \subseteq Nat
    BY <1>1, <1>4, LinesTyped DEF FilmTypeOK
<1>12. ASSUME t = "video" PROVE PicturesInv' /\ SoundsInv'
    <2>1. \A y \in Range(Pictures) : y < new
        BY <1>1, <1>4, <1>6, <1>11, <1>12 DEF PicturesInv
    <2>2. Growing(Pictures') /\ Range(Pictures') = Range(Pictures) \cup {new} /\ Sounds' = Sounds
        <3>1. Growing(shown \o Waiting(t)) /\ \A y \in Range(shown \o Waiting(t)) : y < new
            BY <1>1, <1>12, <2>1 DEF PicturesInv, Pictures
        <3>2. Growing(shown \o Append(Waiting(t), new))
              /\ Range(shown \o Append(Waiting(t), new)) = Range(shown \o Waiting(t)) \cup {new}
            BY <1>4, <1>11, <3>1, LineLonger
        <3> QED BY <1>2, <1>7, <1>12, <3>2 DEF Pictures, Sounds, Tracks
    <2>3. PicturesInv'
        <3>1. \A x \in Range(Pictures') :
                 x <= Took("video")' /\ \E i, j \in Nat : (Carries(i, j, "video") /\ x = At(i, j))'
            BY <1>1, <1>3, <1>4, <1>6, <1>8, <1>11, <1>12, <2>1, <2>2, SMTT(30) DEF PicturesInv
        <3>2. \A i, j : (Carries(i, j, "video") /\ Behind(i, j))' => At(i, j)' <= Took("video")'
            <4> SUFFICES ASSUME NEW i, NEW j, Carries(i, j, "video"), Behind(i, j)'
                         PROVE  At(i, j) <= new
                BY <1>6, <1>8, <1>12
            <4>1. At(i, j) \in Nat
                BY <1>1, CarriesFacts
            <4>2. CASE Behind(i, j)
                BY <1>1, <1>4, <1>6, <1>12, <4>1, <4>2 DEF PicturesInv
            <4>3. CASE i = seg /\ j = cursor
                BY <1>4, <4>3
            <4> QED BY <1>8, <4>2, <4>3
        <3>3. ASSUME ~failed' PROVE
              \A i, j : (Carries(i, j, "video") /\ At(i, j) <= Took("video"))'
                           => At(i, j)' \in Range(Pictures')
            <4> SUFFICES ASSUME NEW i, NEW j, Carries(i, j, "video"), At(i, j) <= new
                         PROVE  At(i, j) \in Range(Pictures) \cup {new}
                BY <1>6, <1>8, <1>12, <2>2
            <4>1. CASE Behind(i, j)
                BY <1>1, <1>2, <3>3, <4>1 DEF PicturesInv
            <4> QED BY <1>9, <1>12, <4>1
        <3> QED BY <2>2, <3>1, <3>2, <3>3 DEF PicturesInv
    <2>4. SoundsInv'
        <3>1. Took("sound")' = Took("sound") /\ ~Carries(seg, cursor, "sound")
            BY <1>4, <1>6, <1>12 DEF Carries, Tracks
        <3> QED BY <1>1, <1>2, <1>8, <2>2, <3>1 DEF SoundsInv
    <2> QED BY <2>3, <2>4
<1>13. ASSUME t = "sound" PROVE PicturesInv' /\ SoundsInv'
    <2>1. \A y \in Range(Sounds) : y < new
        BY <1>1, <1>4, <1>6, <1>11, <1>13 DEF SoundsInv
    <2>2. Growing(Sounds') /\ Range(Sounds') = Range(Sounds) \cup {new} /\ Pictures' = Pictures
        <3>1. Growing(heard \o Waiting(t)) /\ \A y \in Range(heard \o Waiting(t)) : y < new
            BY <1>1, <1>13, <2>1 DEF SoundsInv, Sounds
        <3>2. Growing(heard \o Append(Waiting(t), new))
              /\ Range(heard \o Append(Waiting(t), new)) = Range(heard \o Waiting(t)) \cup {new}
            BY <1>4, <1>11, <3>1, LineLonger
        <3> QED BY <1>2, <1>7, <1>13, <3>2 DEF Pictures, Sounds, Tracks
    <2>3. SoundsInv'
        <3>1. \A x \in Range(Sounds') : x <= Took("sound")'
            BY <1>4, <1>6, <1>11, <1>13, <2>1, <2>2
        <3>2. ASSUME audioOn' PROVE
              \A i, j : (Carries(i, j, "sound") /\ (Behind(i, j) \/ At(i, j) <= Took("sound")))'
                           => At(i, j)' \in Range(Sounds') \cup gone'
            <4> SUFFICES ASSUME NEW i, NEW j, Carries(i, j, "sound"),
                                Behind(i, j)' \/ At(i, j) <= new
                         PROVE  At(i, j) \in Range(Sounds) \cup {new} \cup gone
                BY <1>2, <1>6, <1>8, <1>13, <2>2
            <4>1. CASE Behind(i, j)
                BY <1>1, <1>2, <3>2, <4>1 DEF SoundsInv
            <4>2. CASE i = seg /\ j = cursor
                BY <1>4, <4>2
            <4> QED BY <1>8, <1>9, <1>13, <4>1, <4>2
        <3> QED BY <2>2, <3>1, <3>2 DEF SoundsInv
    <2>4. PicturesInv'
        <3>1. Took("video")' = Took("video") /\ ~Carries(seg, cursor, "video")
            BY <1>4, <1>6, <1>13 DEF Carries, Tracks
        <3> QED BY <1>1, <1>2, <1>8, <2>2, <3>1 DEF PicturesInv
    <2> QED BY <2>3, <2>4
<1>14. SlotsInv'
    <2>1. \A u \in Tracks : Queued(ring[u]) \in Nat /\ SlotsOf(u) \in Nat
                            /\ Queued(ring[u])' = IF u = t THEN Queued(ring[u]) + 1 ELSE Queued(ring[u])
        <3>1. ring[t].samp \in Seq(Sample)
            BY <1>4 DEF Ring
        <3> QED BY <1>1, <1>5, <3>1, LinesTyped, FilmAssumption, SMTT(30) DEF Queued, SlotsOf
    <2>2. \A u \in Tracks : Queued(ring[u])' <= SlotsOf(u)
        BY <1>1, <1>2, <1>4, <2>1 DEF SlotsInv, Fits
    <2>3. (t = "video" => Cardinality(PassedPictures') = Cardinality(PassedPictures) + 1)
          /\ Cardinality(PassedPictures') >= Cardinality(PassedPictures)
          /\ Cardinality(PassedPictures) \in Nat /\ Cardinality(PassedPictures') \in Nat
        BY <1>1, <1>2, <1>3, <1>0, PassedGrows
    <2>4. Queued(ring["video"]) + SegSlots <= VideoSlots + Cardinality(PassedPictures)
          /\ "video" \in Tracks /\ VideoSlots \in Nat /\ SegSlots \in Nat
        BY <1>1, <1>3, FilmAssumption DEF SlotsInv, Tracks
    <2>5. Queued(ring["video"])' + SegSlots <= VideoSlots + Cardinality(PassedPictures')
        BY <2>1, <2>3, <2>4
    <2> QED BY <2>2, <2>5 DEF SlotsInv
<1>15. PicturesInv' /\ SoundsInv'
    BY <1>4, <1>12, <1>13 DEF Tracks
<1> QED BY <1>10, <1>14, <1>15 DEF FilmInv

\* What giving the oldest sample of a ring up does to the line it is in.
LEMMA GivesUp ==
    ASSUME FilmInv, NEW t \in Tracks, ring[t].samp # <<>>,
           ring' = [ring EXCEPT ![t] = Pop(@, Head(ring[t].samp))]
    PROVE  /\ ring' \in [Tracks -> Ring] /\ \A u \in Tracks : u # t => ring'[u] = ring[u]
           /\ Waiting(t) # <<>> /\ Head(ring[t].samp).at = Head(Waiting(t))
           /\ Waiting(t) \in Seq(Nat) /\ Waiting(t)' = Tail(Waiting(t))
           /\ \A u \in Tracks : Took(u)' = Took(u) /\ (u # t => Waiting(u)' = Waiting(u))
           /\ \A u \in Tracks : Queued(ring[u])' <= Queued(ring[u])
           /\ \A u \in Tracks : Queued(ring[u])' \in Nat /\ Queued(ring[u]) \in Nat
<1>1. ring \in [Tracks -> Ring] /\ ring[t] \in Ring /\ ring[t].samp \in Seq(Sample)
      /\ Waiting(t) = Ticks(ring[t].samp) /\ Waiting(t) \in Seq(Nat)
    BY LinesTyped DEF FilmInv, FilmTypeOK
<1>2. PICK q1 : q1 = ring[t]
    OBVIOUS
<1>3. q1 \in Ring /\ q1.samp # <<>>
    BY <1>1, <1>2
<1>4. /\ Pop(q1, Head(q1.samp)) \in Ring /\ Pop(q1, Head(q1.samp)).samp = Tail(q1.samp)
      /\ Pop(q1, Head(q1.samp)).took = q1.took /\ Len(Tail(q1.samp)) = Len(q1.samp) - 1
    BY <1>3, PopFacts
<1>5. ring'[t] = Pop(q1, Head(q1.samp)) /\ \A u \in Tracks : u # t => ring'[u] = ring[u]
    BY <1>1, <1>2
<1>6. ring' \in [Tracks -> Ring]
    BY <1>1, <1>2, <1>4
<1>7. Waiting(t) # <<>> /\ Head(ring[t].samp).at = Head(Waiting(t))
      /\ Ticks(Tail(ring[t].samp)) = Tail(Waiting(t))
    BY <1>1, StampsPop
<1>8. Waiting(t)' = Tail(Waiting(t))
    <2>1. ring'[t].samp = Tail(ring[t].samp)
        BY <1>2, <1>4, <1>5
    <2>2. Waiting(t)' = Ticks(ring'[t].samp)
        BY DEF Waiting, Ticks
    <2> QED BY <1>7, <2>1, <2>2
<1>9. \A u \in Tracks : Took(u)' = Took(u) /\ (u # t => Waiting(u)' = Waiting(u))
    BY <1>2, <1>4, <1>5 DEF Took, Waiting
<1>10. \A u \in Tracks : Queued(ring[u])' <= Queued(ring[u])
                         /\ Queued(ring[u])' \in Nat /\ Queued(ring[u]) \in Nat
    <2>1. \A u \in Tracks : Len(ring[u].samp) \in Nat /\ Len(ring'[u].samp) \in Nat
        BY <1>1, <1>6 DEF Ring
    <2>2. Len(ring'[t].samp) <= Len(ring[t].samp)
        <3>1. Len(q1.samp) \in Nat /\ Len(Pop(q1, Head(q1.samp)).samp) = Len(q1.samp) - 1
            BY <1>2, <1>4, <2>1
        <3>2. Len(Pop(q1, Head(q1.samp)).samp) <= Len(q1.samp)
            BY <3>1
        <3> QED BY <1>2, <1>5, <3>2
    <2> QED BY <1>5, <2>1, <2>2 DEF Queued
<1> QED BY <1>1, <1>5, <1>6, <1>7, <1>8, <1>9, <1>10

\* Giving up takes nothing from the room a cut began with.
LEMMA GivesUpSlots ==
    ASSUME FilmInv, UNCHANGED <<film, seg, cursor>>,
           \A u \in Tracks : Queued(ring[u])' <= Queued(ring[u])
                             /\ Queued(ring[u])' \in Nat /\ Queued(ring[u]) \in Nat
    PROVE  SlotsInv'
<1>1. PassedPictures' = PassedPictures
    BY DEF PassedPictures, PicturesIn, Segment
<1>2. \A u \in Tracks : SlotsOf(u) \in Nat
    BY FilmAssumption DEF SlotsOf
<1>3. \A u \in Tracks : Queued(ring[u])' <= SlotsOf(u)
    BY <1>2 DEF FilmInv, SlotsInv
<1>4. ASSUME cursor > 0
      PROVE  Queued(ring["video"])' + SegSlots <= VideoSlots + Cardinality(PassedPictures)
    <2>1. cursor \in Nat /\ seg \in DOMAIN film
        BY <1>4, FilmFacts DEF FilmInv, FilmTypeOK, PlacesInv
    <2>2. Cardinality(PassedPictures) \in Nat
        BY <2>1, PassedFacts DEF FilmInv
    <2>3. "video" \in Tracks /\ VideoSlots \in Nat /\ SegSlots \in Nat
        BY FilmAssumption DEF Tracks
    <2> QED BY <1>4, <2>2, <2>3 DEF FilmInv, SlotsInv
<1> QED BY <1>1, <1>3, <1>4 DEF SlotsInv

\* stream_frame() hands the decoder a picture.
LEMMA ShowStep == ASSUME FilmInv, FrameShows PROVE FilmInv'
<1> USE DEF feedVars, soundVars, FrameReturns
<1>1. FilmTypeOK /\ PlacesInv /\ LooksInv /\ PicturesInv /\ SoundsInv
    BY DEF FilmInv
<1>2. "video" \in Tracks /\ "sound" \in Tracks /\ "video" # "sound" /\ VideoSlots \in Nat
    BY FilmAssumption DEF Tracks
<1>3. /\ ring["video"].samp # <<>>
      /\ ring' = [ring EXCEPT !["video"] = Pop(@, Head(ring["video"].samp))]
      /\ \/ shown' = Append(shown, Head(ring["video"].samp).at) /\ UNCHANGED <<failed, over>>
         \/ failed' = TRUE /\ over' = "failed" /\ UNCHANGED shown
    BY <1>1 DEF FrameShows, LooksInv
<1>4. /\ UNCHANGED <<film, audioOn, gone, seg, staged, cursor, fails, ended, sound, heard,
                     playing, paused, pauses>>
      /\ frame' = "idle" /\ held' = 0 /\ next' = {}
    BY DEF FrameShows
<1>5. /\ ring' \in [Tracks -> Ring] /\ ring'["sound"] = ring["sound"]
      /\ Waiting("video") # <<>> /\ Head(ring["video"].samp).at = Head(Waiting("video"))
      /\ Waiting("video") \in Seq(Nat) /\ Waiting("video")' = Tail(Waiting("video"))
      /\ Took("video")' = Took("video") /\ Took("sound")' = Took("sound")
      /\ Waiting("sound")' = Waiting("sound")
    BY <1>2, <1>3, GivesUp
<1>6. SlotsInv'
    <2>1. \A u \in Tracks : Queued(ring[u])' <= Queued(ring[u])
                            /\ Queued(ring[u])' \in Nat /\ Queued(ring[u]) \in Nat
        BY <1>2, <1>3, GivesUp
    <2> QED BY <1>4, <2>1, GivesUpSlots
<1>7. shown \in Seq(Nat) /\ Growing(shown \o Waiting("video"))
    BY <1>1 DEF FilmTypeOK, PicturesInv, Pictures
<1>8. shown' \in Seq(Nat) /\ failed' \in BOOLEAN /\ over' \in {"no", "ended", "failed"}
      /\ (failed => failed')
    <2>1. Head(Waiting("video")) \in Nat
        BY <1>5
    <2>2. failed' \in BOOLEAN /\ (failed => failed')
        <3>1. failed \in BOOLEAN /\ (failed' = failed \/ failed' = TRUE)
            BY <1>1, <1>3 DEF FilmTypeOK
        <3> QED BY <3>1, Zenon
    <2>3. shown' \in Seq(Nat)
        <3>1. PICK x : x = Head(ring["video"].samp).at
            OBVIOUS
        <3>2. Append(shown, x) \in Seq(Nat)
            BY <1>5, <1>7, <2>1, <3>1
        <3> QED BY <1>3, <1>7, <3>1, <3>2
    <2>4. over' \in {"no", "ended", "failed"}
        BY <1>1, <1>3 DEF FilmTypeOK
    <2> QED BY <2>2, <2>3, <2>4
<1>9. FilmTypeOK'
    BY <1>1, <1>2, <1>4, <1>5, <1>8 DEF FilmTypeOK
<1>10. PlacesInv'
    <2>1. frame = "clocked" /\ over = "no"
        BY <1>1 DEF FrameShows, PlacesInv, FilmTypeOK
    <2>2. (over' = "no" /\ failed' = failed) \/ over' = "failed"
        BY <1>3, <2>1
    <2> QED BY <1>1, <1>4, <1>8, <2>1, <2>2 DEF PlacesInv, Segment
<1>11. LooksInv'
    BY <1>1, <1>2, <1>4, <1>5 DEF LooksInv
<1>12. \A i, j, u : Carries(i, j, u)' = Carries(i, j, u) /\ At(i, j)' = At(i, j)
                    /\ Behind(i, j)' = Behind(i, j)
    BY <1>4 DEF Carries, At, Behind
<1>13. SoundsInv'
    <2>1. Sounds' = Sounds
        BY <1>4, <1>5 DEF Sounds
    <2> QED BY <1>1, <1>4, <1>5, <1>12, <2>1 DEF SoundsInv
<1>14. PicturesInv'
    <2>1. CASE shown' = Append(shown, Head(Waiting("video"))) /\ failed' = failed
        <3>1. Pictures' = Pictures
            BY <1>5, <1>7, <2>1, LineMoves DEF Pictures
        <3> QED BY <1>1, <1>5, <1>12, <2>1, <3>1 DEF PicturesInv
    <2>2. CASE shown' = shown /\ failed'
        <3>1. Pictures' = shown \o Tail(Waiting("video"))
            BY <1>5, <2>2 DEF Pictures
        <3>2. Growing(Pictures') /\ Range(Pictures) = Range(Pictures') \cup {Head(Waiting("video"))}
            BY <1>5, <1>7, <3>1, LineLoses DEF Pictures
        <3> QED BY <1>1, <1>5, <1>12, <2>2, <3>2 DEF PicturesInv
    <2> QED BY <1>3, <1>5, <2>1, <2>2
<1> QED BY <1>6, <1>9, <1>10, <1>11, <1>13, <1>14 DEF FilmInv

\* serve_audio() plays a frame of sound, or drops it.
LEMMA SoundStep == ASSUME FilmInv, SoundDrops \/ SoundPlays PROVE FilmInv'
<1> USE DEF feedVars, frameVars
<1>1. FilmTypeOK /\ PlacesInv /\ LooksInv /\ PicturesInv /\ SoundsInv
    BY DEF FilmInv
<1>2. "video" \in Tracks /\ "sound" \in Tracks /\ "video" # "sound"
    BY DEF Tracks
<1>3. /\ ring["sound"].samp # <<>>
      /\ ring' = [ring EXCEPT !["sound"] = Pop(@, Head(ring["sound"].samp))]
      /\ \/ heard' = Append(heard, Head(ring["sound"].samp).at) /\ gone' = gone
         \/ heard' = heard /\ gone' = gone \cup {Head(ring["sound"].samp).at}
    BY <1>1 DEF SoundDrops, SoundPlays, LooksInv
<1>4. /\ UNCHANGED <<film, audioOn, seg, staged, cursor, fails, ended, failed, playing, paused,
                     frame, held, next, over, pauses, shown>>
      /\ sound' = {}
    BY DEF SoundDrops, SoundPlays
<1>5. /\ ring' \in [Tracks -> Ring] /\ ring'["video"] = ring["video"]
      /\ Waiting("sound") # <<>> /\ Head(ring["sound"].samp).at = Head(Waiting("sound"))
      /\ Waiting("sound") \in Seq(Nat) /\ Waiting("sound")' = Tail(Waiting("sound"))
      /\ Took("video")' = Took("video") /\ Took("sound")' = Took("sound")
      /\ Waiting("video")' = Waiting("video")
    BY <1>2, <1>3, GivesUp
<1>6. SlotsInv'
    <2>1. \A u \in Tracks : Queued(ring[u])' <= Queued(ring[u])
                            /\ Queued(ring[u])' \in Nat /\ Queued(ring[u]) \in Nat
        BY <1>2, <1>3, GivesUp
    <2> QED BY <1>4, <2>1, GivesUpSlots
<1>7. heard \in Seq(Nat) /\ Growing(heard \o Waiting("sound")) /\ Head(Waiting("sound")) \in Nat
    BY <1>1, <1>5 DEF FilmTypeOK, SoundsInv, Sounds
<1>8. heard' \in Seq(Nat) /\ gone' \subseteq Nat
    <2>1. Head(ring["sound"].samp).at \in Nat /\ gone \subseteq Nat
        BY <1>1, <1>5, <1>7 DEF FilmTypeOK
    <2>2. gone' \subseteq Nat
        BY <1>3, <2>1
    <2>3. heard' \in Seq(Nat)
        <3>1. PICK x : x = Head(ring["sound"].samp).at
            OBVIOUS
        <3>2. Append(heard, x) \in Seq(Nat)
            BY <1>7, <2>1, <3>1
        <3> QED BY <1>3, <1>7, <3>1, <3>2
    <2> QED BY <2>2, <2>3
<1>9. FilmTypeOK'
    BY <1>1, <1>4, <1>5, <1>8 DEF FilmTypeOK
<1>10. PlacesInv' /\ LooksInv'
    BY <1>1, <1>4, <1>5 DEF PlacesInv, LooksInv, Segment
<1>11. \A i, j, u : Carries(i, j, u)' = Carries(i, j, u) /\ At(i, j)' = At(i, j)
                    /\ Behind(i, j)' = Behind(i, j)
    BY <1>4 DEF Carries, At, Behind
<1>12. PicturesInv'
    <2>1. Pictures' = Pictures
        BY <1>4, <1>5 DEF Pictures
    <2> QED BY <1>1, <1>4, <1>5, <1>11, <2>1 DEF PicturesInv
<1>13. SoundsInv'
    <2>1. CASE heard' = Append(heard, Head(Waiting("sound"))) /\ gone' = gone
        <3>1. Sounds' = Sounds
            BY <1>5, <1>7, <2>1, LineMoves DEF Sounds
        <3> QED BY <1>1, <1>4, <1>5, <1>11, <2>1, <3>1 DEF SoundsInv
    <2>2. CASE heard' = heard /\ gone' = gone \cup {Head(Waiting("sound"))}
        <3>1. Growing(Sounds') /\ Range(Sounds) = Range(Sounds') \cup {Head(Waiting("sound"))}
            BY <1>5, <1>7, <2>2, LineLoses DEF Sounds
        <3> QED BY <1>1, <1>4, <1>5, <1>11, <2>2, <3>1 DEF SoundsInv
    <2> QED BY <1>3, <1>5, <2>1, <2>2
<1> QED BY <1>6, <1>9, <1>10, <1>12, <1>13 DEF FilmInv

-----------------------------------------------------------------------------
(* What it comes to.                                                       *)

LEMMA FilmStep == FilmInv /\ [FilmNext]_playVars => FilmInv'
<1> SUFFICES ASSUME FilmInv, [FilmNext]_playVars PROVE FilmInv'
    OBVIOUS
<1>1. CASE FeederQuiet \/ FrameQuiet \/ SoundQuiet
    BY <1>1, QuietStep
<1>2. CASE CutTakes
    BY <1>2, TakeStep
<1>3. CASE FrameShows
    BY <1>3, ShowStep
<1>4. CASE SoundDrops \/ SoundPlays
    BY <1>4, SoundStep
<1>5. CASE UNCHANGED playVars
    <2> USE <1>5 DEF playVars, feedVars, frameVars, soundVars
    <2>1. FilmTypeOK'
        BY DEF FilmInv, FilmTypeOK
    <2>2. PlacesInv' /\ LooksInv'
        BY DEF FilmInv, PlacesInv, LooksInv, Segment
    <2>3. PicturesInv' /\ SoundsInv'
        BY <2>1, LinesStand DEF Behind
    <2>4. SlotsInv'
        BY <2>1, <2>2, SlotsStand
    <2> QED BY <2>1, <2>2, <2>3, <2>4 DEF FilmInv
<1> QED BY <1>1, <1>2, <1>3, <1>4, <1>5
        DEF FilmNext, Feeder, Cut, Frame, SoundWorker, FeederQuiet, FrameQuiet, SoundQuiet

\* The invariant holds of every behaviour.
THEOREM FilmInvariant == FilmSpec => []FilmInv
<1> QED BY FilmBegins, FilmStep, PTL DEF FilmSpec

LEMMA InvIsWhole == FilmInv => FilmIsWhole
<1> SUFFICES ASSUME FilmInv PROVE FilmIsWhole
    OBVIOUS
<1>1. FilmTypeOK /\ PlacesInv /\ PicturesInv /\ SoundsInv /\ SlotsInv
    BY DEF FilmInv
<1>2. Len(film) \in Nat /\ seg \in 1 .. Len(film) + 1 /\ seg \in Nat /\ DOMAIN film = 1 .. Len(film)
    BY <1>1, FilmFacts DEF FilmTypeOK
<1>3. \A x \in Range(Pictures) : x \in StampsOf("video", Len(film))
    <2>1. \A i, j : Carries(i, j, "video") => i <= Len(film)
        BY <1>1, CarriesFacts
    <2> QED BY <1>1, <1>2, <2>1, StampsCarried DEF PicturesInv
<1>4. PicturesWhole
    <2> SUFFICES ASSUME ~failed, NEW x \in Range(Pictures),
                        NEW y \in StampsOf("video", Len(film)), y <= x
                 PROVE  y \in Range(Pictures)
        BY <1>1, <1>3 DEF PicturesWhole, PicturesInv
    <2>1. PICK i, j : Carries(i, j, "video") /\ y = At(i, j)
        BY <1>1, <1>2, StampsCarried
    <2>2. y \in Nat /\ x \in Nat /\ x <= Took("video") /\ Took("video") \in Nat \cup {-1}
        BY <1>1, <2>1, CarriesFacts, LinesTyped DEF PicturesInv, Tracks
    <2> QED BY <1>1, <2>1, <2>2 DEF PicturesInv
<1>5. SoundAccounted
    <2> SUFFICES ASSUME audioOn, NEW x \in StampsOf("sound", seg - 1)
                 PROVE  x \in Range(Sounds) \cup gone
        BY <1>1 DEF SoundAccounted, SoundsInv
    <2>1. PICK i, j : Carries(i, j, "sound") /\ i <= seg - 1 /\ x = At(i, j)
        BY <1>1, <1>2, StampsCarried
    <2>2. Behind(i, j)
        BY <1>1, <1>2, <2>1, CarriesFacts DEF Behind
    <2> QED BY <1>1, <2>1, <2>2 DEF SoundsInv
<1>6. SlotsSuffice
    <2> SUFFICES ASSUME Cutting, Segment.samples[cursor].track = "video"
                 PROVE  Queued(ring["video"]) < VideoSlots
        BY DEF SlotsSuffice
    <2>1. seg \in DOMAIN film /\ cursor > 0
        BY <1>1, <1>2 DEF Cutting, PlacesInv, FilmTypeOK
    <2>2. Cardinality(PassedPictures) \in Nat /\ Cardinality(PassedPictures) < SegSlots
        BY <1>1, <2>1, PassedFacts
    <2>3. Queued(ring["video"]) \in Nat /\ VideoSlots \in Nat /\ SegSlots \in Nat
        BY <1>1, LinesTyped, FilmAssumption DEF Tracks
    <2> QED BY <1>1, <2>1, <2>2, <2>3 DEF SlotsInv
<1>7. EndIsReal
    <2> SUFFICES ASSUME over = "ended"
                 PROVE  ~failed /\ Range(Pictures) = StampsOf("video", Len(film))
        BY DEF EndIsReal
    <2>1. ~failed /\ seg = Len(film) + 1
        BY <1>1 DEF PlacesInv
    <2>2. ASSUME NEW x \in StampsOf("video", Len(film)) PROVE x \in Range(Pictures)
        <3>1. PICK i, j : Carries(i, j, "video") /\ x = At(i, j)
            BY <1>1, <1>2, StampsCarried
        <3>2. Behind(i, j)
            BY <1>1, <1>2, <2>1, <3>1, CarriesFacts DEF Behind
        <3> QED BY <1>1, <2>1, <3>1, <3>2 DEF PicturesInv
    <2> QED BY <1>3, <2>1, <2>2
<1> QED BY <1>4, <1>5, <1>6, <1>7 DEF FilmIsWhole

\* Every variable of an open film keeps its type, the rings among them.
THEOREM FilmTypeCorrect == FilmSpec => []FilmTypeOK
<1>1. FilmInv => FilmTypeOK
    BY DEF FilmInv
<1> QED BY <1>1, FilmInvariant, PTL

\* Whatever the film, the rings and their slots: every picture once and in
\* order, none missing before the newest, every frame of sound accounted for,
\* slots enough for a cut that has begun, and an end that is the end.
THEOREM FilmStaysWhole == FilmSpec => []FilmIsWhole
<1> QED BY InvIsWhole, FilmInvariant, PTL

=============================================================================
