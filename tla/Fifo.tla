-------------------------------- MODULE Fifo --------------------------------
(***************************************************************************)
(* What a film's sample ring promises its two ends: samples come out in    *)
(* the order they went in, whole, and none twice.  Samples are told apart  *)
(* by their stamp, which only grows between two clears.                    *)
(***************************************************************************)
EXTENDS Integers, Sequences

CONSTANTS
    Stamps,     \* the stamps a sample may have
    None        \* nothing taken, or nothing handed over, since the clear

VARIABLES
    queue,      \* the stamps waiting, oldest first
    newest,     \* the stamp accepted last
    out         \* the stamp handed over last

vars == <<queue, newest, out>>

Init ==
    /\ queue = <<>>
    /\ newest = None
    /\ out = None

\* The stamp is later than every stamp accepted before it.
Accept(s) ==
    /\ newest = None \/ newest < s
    /\ queue' = Append(queue, s)
    /\ newest' = s
    /\ UNCHANGED out

HandOver ==
    /\ queue # <<>>
    /\ out' = Head(queue)
    /\ queue' = Tail(queue)
    /\ UNCHANGED newest

Clear ==
    /\ queue' = <<>>
    /\ newest' = None
    /\ out' = None

Next ==
    \/ \E s \in Stamps : Accept(s)
    \/ HandOver
    \/ Clear

Spec == Init /\ [][Next]_vars

=============================================================================
