-------------------------------- MODULE Ring --------------------------------
(***************************************************************************)
(* The ring of model/stream.c as a value: the two monotonic byte counts,   *)
(* the samples waiting between them, and the stamp of the last sample      *)
(* taken.  put() and pop() are operators on it; what a caller does with a  *)
(* refusal, and who calls when, is the business of the modules that hold a *)
(* ring (SampleRing, Film).                                                *)
(***************************************************************************)
EXTENDS Integers, Sequences

\* sample_rec: the stamp, the first byte counted from the start, the length.
Sample == [at : Nat, abs : Nat, len : Nat \ {0}]

\* took is -1 where the code has took = 0: nothing taken since the reset.
Ring == [wr : Nat, rd : Nat, samp : Seq(Sample), took : Nat \cup {-1}]

\* ring_reset()
EmptyRing == [wr |-> 0, rd |-> 0, samp |-> <<>>, took |-> -1]

\* [head, tail) of the slots: what is waiting, oldest first.
Queued(q) == Len(q.samp)

\* Skipped tails included.
Used(q) == q.wr - q.rd

\* The bytes at the end of the buffer that a sample of this length would not
\* fit in whole, and that the write cursor passes over.
Skip(q, cap, len) ==
    LET at == q.wr % cap
    IN  IF at + len > cap THEN cap - at ELSE 0

\* A slip: the skip is not counted with the sample.
Fits_SkipUncounted(q, cap, max, len) ==
    /\ Queued(q) < max
    /\ len <= cap - Used(q)

\* put()'s test: a slot, and bytes for the sample and for the skip before it.
Fits(q, cap, max, len) ==
    /\ Queued(q) < max
    /\ len + Skip(q, cap, len) <= cap - Used(q)

\* The record put() writes for a sample that fits.
Placed(q, cap, len, at) ==
    [at |-> at, abs |-> q.wr + Skip(q, cap, len), len |-> len]

\* put() of a sample that fits.
Put(q, cap, len, at) ==
    LET r == Placed(q, cap, len, at)
    IN  [q EXCEPT !.wr = r.abs + len, !.samp = Append(@, r), !.took = at]

\* take_sample()'s test, for a segment cut up again: the ring has had it.
Had(q, at) == at <= q.took

\* pop() of the record a peek() handed out.
Pop(q, r) == [q EXCEPT !.samp = Tail(@), !.rd = r.abs + r.len]

=============================================================================
