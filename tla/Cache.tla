------------------------------- MODULE Cache -------------------------------
(***************************************************************************)
(* What the art pack promises the posters: a set of pictures on the card   *)
(* that only grows until it is asked to be emptied. A picture that is kept *)
(* survives restarts, lost power and failed writes.                        *)
(***************************************************************************)
CONSTANT Pictures

VARIABLES
    kept,       \* the pictures on the card
    asked       \* emptying it has been asked for, and not been done yet

cacheVars == <<kept, asked>>

Init == kept \in SUBSET Pictures /\ asked = FALSE

Keep(k) == kept' = kept \cup {k} /\ UNCHANGED asked

Ask == asked' = TRUE /\ UNCHANGED kept

\* Asked for again while it is being emptied, it stays asked for.
Empty == asked /\ kept' = {} /\ asked' \in BOOLEAN

\* The program ends. What was asked for does not outlive it, and what was on
\* its way to the card may have come there.
Lapse == asked' = FALSE /\ \E more \in SUBSET Pictures : kept' = kept \cup more

Next == (\E k \in Pictures : Keep(k)) \/ Ask \/ Empty \/ Lapse

Spec == Init /\ [][Next]_cacheVars

=============================================================================
