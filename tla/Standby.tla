------------------------------ MODULE Standby ------------------------------
(****************************************************************************)
(* base/standby.c: the machine's sleep and wake. The firmware's callback    *)
(* (shell/psp/main.c) raises one of two flags and nothing else; the drawing *)
(* loop takes them, once a frame, in standby_step(). Its two looks at what  *)
(* the callback wrote are steps of their own, as the callback may run, and  *)
(* the machine go to sleep and wake, between them.                          *)
(*                                                                          *)
(* What is released, acquired and verified is the link's (Link).            *)
(****************************************************************************)
EXTENDS Naturals

CONSTANT MaxSleeps      \* bound: sleeps of the machine

ASSUME StandbyAssumption == MaxSleeps \in Nat

VARIABLES
    phase,      \* g_state
    epoch,      \* g_epoch
    going,      \* g_going
    back,       \* g_back
    acquired,   \* g_acquired
    look,       \* standby_step(): "begin", or "switch" past its first look
    power,      \* the machine: "on", "leaving" its users, "asleep"
    sleeps,
    sleptAt,    \* history: the generation the machine last fell asleep in
    dropped,    \* history: it did so when the edge had been taken and dropped
    hurried     \* history: it slept and woke between two looks

standbyVars == <<phase, epoch, going, back, acquired, look, power, sleeps,
                 sleptAt, dropped, hurried>>

StandbyTypeOK ==
    /\ phase \in {"UP", "LOSING", "DOWN", "RESTORING"}
    /\ epoch \in Nat /\ sleptAt \in 0 .. epoch
    /\ going \in BOOLEAN /\ back \in BOOLEAN /\ acquired \in BOOLEAN
    /\ dropped \in BOOLEAN /\ hurried \in BOOLEAN
    /\ look \in {"begin", "switch"}
    /\ power \in {"on", "leaving", "asleep"}
    /\ sleeps \in 0 .. MaxSleeps

StandbyInit ==
    /\ phase = "UP"
    /\ epoch = 1
    /\ going = FALSE /\ back = FALSE
    /\ acquired = FALSE
    /\ look = "begin"
    /\ power = "on"
    /\ sleeps = 0 /\ sleptAt = 0
    /\ dropped = FALSE /\ hurried = FALSE

-----------------------------------------------------------------------------
(* The power callback.                                                     *)

\* SUSPENDING, and STANDBY a frame later: both are the one edge.
NoteGoing ==
    /\ \/ power = "on" /\ sleeps < MaxSleeps /\ sleeps' = sleeps + 1
       \/ power = "leaving" /\ sleeps' = sleeps
    /\ power' = "leaving"
    /\ going' = TRUE
    /\ UNCHANGED <<phase, epoch, back, acquired, look, sleptAt, dropped, hurried>>

\* The machine goes to sleep whether or not the loop has seen the edge.
FallAsleep ==
    /\ power = "leaving"
    /\ power' = "asleep"
    /\ sleptAt' = epoch
    /\ dropped' = (phase = "UP" /\ ~going)
    /\ UNCHANGED <<phase, epoch, going, back, acquired, look, sleeps, hurried>>

\* RESUME_COMPLETE.
NoteBack ==
    /\ power = "asleep"
    /\ power' = "on"
    /\ back' = TRUE
    /\ hurried' = (hurried \/ (look = "switch" /\ going))
    /\ UNCHANGED <<phase, epoch, going, acquired, look, sleeps, sleptAt, dropped>>

\* RESUME_COMPLETE with nothing lost: the machine never went.
NoteBackAlone ==
    /\ power = "on" /\ phase = "UP"
    /\ back' = TRUE
    /\ UNCHANGED <<phase, epoch, going, acquired, look, power, sleeps, sleptAt,
                   dropped, hurried>>

-----------------------------------------------------------------------------
(* standby_step().                                                         *)

TakeGoing ==
    /\ look = "begin" /\ power # "asleep"
    /\ look' = "switch"
    /\ going' = FALSE
    /\ phase' = IF going /\ phase = "UP" THEN "LOSING" ELSE phase
    /\ UNCHANGED <<epoch, back, acquired, power, sleeps, sleptAt, dropped,
                   hurried>>

Switch(p) ==
    /\ look = "switch" /\ power # "asleep"
    /\ phase = p
    /\ look' = "begin"
    /\ UNCHANGED <<going, power, sleeps, sleptAt, dropped,
                   hurried>>

\* g_release() is the composing module's.
Lose ==
    /\ Switch("LOSING")
    /\ acquired' = FALSE
    /\ phase' = "DOWN"
    /\ UNCHANGED <<epoch, back>>

StayDown ==
    /\ Switch("DOWN")
    /\ phase' = IF back THEN "RESTORING" ELSE "DOWN"
    /\ back' = FALSE
    /\ UNCHANGED <<epoch, acquired>>

\* A slip: only what works at the first look is counted.
Restore_FirstOnly(works) ==
    /\ Switch("RESTORING")
    /\ acquired' = TRUE
    /\ epoch' = IF works /\ ~acquired THEN epoch + 1 ELSE epoch
    /\ phase' = IF works THEN "UP" ELSE "RESTORING"
    /\ UNCHANGED back

\* restore(): `works` is what g_acquire() and g_verify() come to.
Restore(works) ==
    /\ Switch("RESTORING")
    /\ acquired' = TRUE
    /\ epoch' = IF works THEN epoch + 1 ELSE epoch
    /\ phase' = IF works THEN "UP" ELSE "RESTORING"
    /\ UNCHANGED back

StayUp ==
    /\ Switch("UP")
    /\ back' = FALSE
    /\ UNCHANGED <<phase, epoch, acquired>>

\* On its own: what is acquired may come to work at any look.
StandbyNext ==
    \/ NoteGoing \/ FallAsleep \/ NoteBack \/ NoteBackAlone
    \/ TakeGoing \/ Lose \/ StayDown \/ StayUp
    \/ \E works \in BOOLEAN : Restore(works)

StandbySpec == StandbyInit /\ [][StandbyNext]_standbyVars

-----------------------------------------------------------------------------
(* Properties.                                                             *)

\* A sleep is followed by a generation of its own: once the machine is on, the
\* loop up and its flags taken, the generation is one the machine has not slept
\* in. It is what net_state() tells a stale association from a current one by
\* (io/net.c:53). It does not hold of a sleep whose edge was taken and dropped:
\* see EverySleepIsCounted.
SleepsAreCounted ==
    (power = "on" /\ phase = "UP" /\ look = "begin" /\ ~going /\ ~dropped)
        => epoch > sleptAt

\* The same of every sleep, as io/net.h:2 has it ("an association only counts
\* in the standby generation it was made in"): known not to hold.
EverySleepIsCounted ==
    (power = "on" /\ phase = "UP" /\ look = "begin" /\ ~going) => epoch > sleptAt

\* Down is left again, and what was lost proven to work: the wake is not lost to
\* a look that came between the two flags, and every line the loop says gives
\* the link something to prove itself with. It is checked of Link, whose steps
\* acquire and verify. A wake that comes between standby_step()'s two looks
\* while the loop is up is cleared as one with nothing lost (standby.c:101), and
\* the next look takes the sleep: the machine stays down until it sleeps again.
DownIsLeft == (phase = "DOWN" /\ power = "on") ~> (phase = "UP" \/ power # "on" \/ hurried)
=============================================================================
