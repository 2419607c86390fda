----------------------------- MODULE SampleRing -----------------------------
(***************************************************************************)
(* One sample ring of model/stream.c with its bytes: the fetching thread   *)
(* offers samples (take_sample, put), the thread that plays them looks at  *)
(* the oldest (peek), reads its bytes outside the lock for as long as the  *)
(* decoder or the sound hardware takes, and only then gives them up (pop). *)
(* The lock makes each of the other steps atomic.                          *)
(*                                                                         *)
(* A byte of the buffer is the stamp of the sample that was copied there.  *)
(***************************************************************************)
EXTENDS Ring

CONSTANTS
    Cap,        \* the ring's size in bytes
    Slots,      \* its sample_rec's
    Stamps,     \* the stamps samples may have: places in the film
    Lengths     \* the lengths samples may have

ASSUME SampleRingAssumption ==
    /\ Cap \in Nat \ {0}
    /\ Slots \in Nat
    /\ Stamps \subseteq Nat
    /\ Lengths \subseteq Nat \ {0}

VARIABLES
    q,          \* the ring's counts and slots
    buf,        \* buf[p]: whose byte is at offset p, -1 before any
    hand,       \* the record the player has peeked at, in a set, or {}
    out         \* what the player read of the sample it last gave up

ringVars == <<q, buf, hand, out>>

Torn == -2  \* bytes that are not all one sample's

RingTypeOK ==
    /\ q \in Ring
    /\ Queued(q) <= Slots
    /\ buf \in [0 .. Cap - 1 -> Stamps \cup {-1}]
    /\ hand \in SUBSET Sample
    /\ out \in Stamps \cup {-1, Torn}

\* Where a waiting sample's bytes are: one run of offsets from the first.
Offset(r, k) == (r.abs % Cap) + k

Bytes(r) == Offset(r, 0) .. Offset(r, r.len - 1)

\* Every byte the decoder would read is inside the buffer and the sample's.
Whole(r) ==
    /\ Offset(r, r.len) <= Cap
    /\ \A p \in Bytes(r) : buf[p] = r.at

Content(r) == IF Whole(r) THEN r.at ELSE Torn

RingInit ==
    /\ q = EmptyRing
    /\ buf = [p \in 0 .. Cap - 1 |-> -1]
    /\ hand = {}
    /\ out = -1

-----------------------------------------------------------------------------

\* put()'s memcpy.
Copied(r) == [p \in 0 .. Cap - 1 |-> IF p \in Bytes(r) THEN r.at ELSE buf[p]]

\* A slip: a sample the ring has had is put a second time.
Offer_Again(at, len) ==
    /\ Fits(q, Cap, Slots, len)
    /\ buf' = Copied(Placed(q, Cap, len, at))
    /\ q' = Put(q, Cap, len, at)
    /\ UNCHANGED <<hand, out>>

\* take_sample() of one the ring takes: not had before, and put() fits it in.
\* The refused and the ones had before change nothing here.
Offer(at, len) ==
    /\ ~Had(q, at)
    /\ Fits(q, Cap, Slots, len)
    /\ buf' = Copied(Placed(q, Cap, len, at))
    /\ q' = Put(q, Cap, len, at)
    /\ UNCHANGED <<hand, out>>

\* peek(), and the look stream_frame() takes under the lock.
Peek ==
    /\ hand = {}
    /\ Queued(q) > 0
    /\ hand' = {Head(q.samp)}
    /\ UNCHANGED <<q, buf, out>>

\* It is not due yet: the copy of the record is dropped and the sample stays.
NotDue ==
    /\ hand # {}
    /\ hand' = {}
    /\ UNCHANGED <<q, buf, out>>

\* A slip: the sample is given up before its bytes are read.
GiveUp_Early ==
    \/ /\ hand # {}
       /\ q.samp # <<>>
       /\ \E r \in hand : r = Head(q.samp) /\ q' = Pop(q, r)
       /\ UNCHANGED <<buf, hand, out>>
    \/ /\ hand # {}
       /\ \E r \in hand : r.abs < q.rd /\ out' = Content(r)
       /\ hand' = {}
       /\ UNCHANGED <<q, buf>>

\* The bytes have been read, last of all just now: pop().
GiveUp ==
    \E r \in hand :
        /\ out' = Content(r)
        /\ q' = Pop(q, r)
        /\ hand' = {}
        /\ UNCHANGED buf

\* ring_reset(), as stream_close() makes it: no player holds a record.
Reset ==
    /\ hand = {}
    /\ q' = EmptyRing
    /\ out' = -1
    /\ UNCHANGED <<buf, hand>>

RingNext ==
    \/ \E at \in Stamps, len \in Lengths : Offer(at, len)
    \/ Peek
    \/ NotDue
    \/ GiveUp
    \/ Reset

RingSpec == RingInit /\ [][RingNext]_ringVars

-----------------------------------------------------------------------------
(* Properties.                                                             *)

\* What stream.c's comment on put() is about ("the memcpy went over unread
\* samples"): every waiting sample is whole, in one run of bytes inside the
\* ring and none of them another sample's, and so is the one being read.
UnreadIsWhole ==
    /\ \A i \in 1 .. Len(q.samp) : Whole(q.samp[i])
    /\ \A r \in hand : Whole(r)

\* The free space does not underflow: the bytes between the two counts are
\* never more than the ring holds.
UsedWithinCap == Used(q) \in 0 .. Cap

\* The ring is a channel that hands over, in order, whole and at most once,
\* the samples it took.
F == INSTANCE Fifo WITH
        None   <- -1,
        queue  <- [i \in 1 .. Len(q.samp) |-> Content(q.samp[i])],
        newest <- q.took

FifoSpec == F!Spec

=============================================================================
