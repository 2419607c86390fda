-------------------------------- MODULE Band --------------------------------
(* The band of page/player.c: what a frame's buttons do to it while a film    *)
(* runs.  The stream, its sessions and their reports are Player.tla's.  A     *)
(* frame takes some ticks of the page's clock; the decoder, or the clock when *)
(* there is none, moves the position.                                         *)
EXTENDS Integers

CONSTANTS
  Dur,       \* of the film, in units of SEEK_STEP
  SeekTail,      \* SEEK_TAIL
  Jump,      \* SEEK_JUMP
  Autohide,  \* AUTOHIDE_S, in ticks
  Delay,     \* SEEK_DELAY, before a held direction repeats
  Rate       \* SEEK_RATE, between repeats

ASSUME BandAssumption ==
  /\ Dur \in Nat /\ SeekTail \in 1..(Dur - 1) /\ Jump \in Nat /\ Autohide \in Nat
  /\ Delay \in Nat /\ Rate \in 0..Delay

VARIABLES
  band,      \* player_state and ui_band
  there,     \* the neighbours there are: has_prev, has_next
  leaving    \* "no", or what the page was left as

bandVars == <<band, there, leaving>>

Controls == <<"prev", "play", "next">>
Pos(c) == CHOOSE i \in DOMAIN Controls : Controls[i] = c
Keys == {"select", "circle", "square", "up", "down", "left", "right", "L", "R", "cross"}
SeekMask == {"left", "right", "L", "R"}

\* What goes down in a frame: one button at most, or a direction with cross.
Pressed == {{}} \cup {{b} : b \in Keys} \cup {{b, "cross"} : b \in {"left", "down"}}

BandInit ==
  /\ band = [up |-> TRUE, cap |-> "buffering", ctl |-> "play", armed |-> FALSE, to |-> 0,
             pos |-> 0, paused |-> FALSE, hide |-> 0, mask |-> {}, wait |-> 0, reps |-> 0]
  /\ there \in SUBSET {"prev", "next"}
  /\ leaving = "no"

(* ----------------------------- Its operations --------------------------- *)
disarm(p) == [p EXCEPT !.armed = FALSE, !.to = 0]

ctl_there(c) == c = "play" \/ c \in there'

\* To the next control there is, or none: the ends do not wrap.
ctl_step(c, dir) ==
  LET ahead == {i \in DOMAIN Controls : ctl_there(Controls[i]) /\ (i - Pos(c)) * dir > 0} IN
  IF ahead = {} THEN c
  ELSE Controls[CHOOSE i \in ahead : \A j \in ahead : i * dir <= j * dir]

ctl_set(p, c) ==
  LET q == [p EXCEPT !.ctl = IF c = "none" \/ ctl_there(c) THEN c ELSE "play"] IN
  IF q.ctl # "none" THEN disarm(q) ELSE q

\* Only Playing expires.
show(p, cap, target) ==
  [p EXCEPT !.up = TRUE, !.cap = cap,
            !.to = IF cap \in {"seeking", "buffering"} THEN target ELSE @,
            !.hide = IF cap = "playing" THEN Autohide ELSE 0]

say_state(p) == show(p, IF p.paused THEN "paused" ELSE "playing", 0)

\* A slip: hidden, the band keeps the aim.
Hidden_Armed(p) == [p EXCEPT !.up = FALSE]

\* An aim nobody can see is one nobody can cancel.
Hidden(p) == disarm([p EXCEPT !.up = FALSE])

\* Square: the band hides, or is revealed on play.
Square(p) ==
  IF p.up THEN Hidden(p) ELSE ctl_set(show(p, p.cap, p.to), "play")

\* Keys on the row of controls.
OnRow(p0, pressed) ==
  LET p1 == IF ctl_there(p0.ctl) THEN p0 ELSE ctl_set(p0, "play")
      p2 == IF "left" \in pressed THEN ctl_set(p1, ctl_step(p1.ctl, -1)) ELSE p1
      p3 == IF "right" \in pressed THEN ctl_set(p2, ctl_step(p2.ctl, 1)) ELSE p2
      p4 == IF "down" \in pressed THEN ctl_set(p3, "none") ELSE p3
      p  == [disarm(p4) EXCEPT !.mask = {}] IN
  IF p.ctl = "none" \/ "cross" \notin pressed THEN [band |-> p, leave |-> "no"]
  ELSE IF p.ctl # "play" THEN [band |-> p, leave |-> p.ctl]
  ELSE [band |-> say_state([p EXCEPT !.paused = ~@]), leave |-> "no"]

\* A held seek key acts at once, then after the delay, then at the rate.
Fires(p, mask) ==
  IF mask # p.mask THEN mask # {}
  ELSE mask # {} /\ p.wait >= IF p.reps > 0 THEN Rate ELSE Delay
Timed(p, mask) ==
  IF mask # p.mask THEN [p EXCEPT !.mask = mask, !.wait = 0, !.reps = 0]
  ELSE IF Fires(p, mask) THEN [p EXCEPT !.wait = 0, !.reps = IF @ < 2 THEN @ + 1 ELSE @]
  ELSE p

\* The step grows as the key is held; the shoulders jump.
StepOf(mask, reps) ==
  LET unit == IF reps > 1 THEN 2 ELSE 1 IN
  CASE "L" \in mask    -> -Jump
    [] "R" \in mask    -> Jump
    [] "left" \in mask -> -unit
    [] OTHER           -> unit

Aimed(p, step) ==
  LET from == IF p.armed THEN p.to ELSE p.pos
      to   == IF from + step < 0 THEN 0
              ELSE IF from + step > Dur - SeekTail THEN Dur - SeekTail ELSE from + step IN
  show([p EXCEPT !.armed = TRUE], "seeking", to)

\* A seek that landed paused would need cross again every time.
Committed(p) ==
  show([p EXCEPT !.pos = p.to, !.armed = FALSE, !.paused = FALSE], "buffering", p.to)

\* Keys with no control selected: they aim, and cross commits.
OnBar(p0, pad, pressed) ==
  LET mask == pad \cap SeekMask
      p1 == Timed(p0, mask)
      p  == IF Fires(p0, mask) THEN Aimed(p1, StepOf(mask, p1.reps)) ELSE p1 IN
  CASE p.armed /\ "cross" \in pressed  -> Committed(p)
    [] p.armed /\ "circle" \in pressed -> say_state(disarm(p))
    [] ~p.armed /\ "cross" \in pressed -> ctl_set(say_state([p EXCEPT !.paused = ~@]), "play")
    [] OTHER -> p

act(p, pad, pressed) ==
  LET Stay(q) == [band |-> q, leave |-> "no"]
      \* A hidden band answers a seek, never a row nobody can see.
      q == IF ~p.up /\ pressed \cap {"left", "right"} # {}
           THEN [p EXCEPT !.up = TRUE, !.ctl = "none"] ELSE p IN
  IF "select" \in pressed \/ (~p.armed /\ "circle" \in pressed)
  THEN [band |-> p, leave |-> "stopped"]
  ELSE IF "square" \in pressed THEN Stay(Square(p))
  ELSE IF ~p.armed /\ p.ctl = "none" /\ "up" \in pressed
  THEN Stay(ctl_set(say_state(p), "play"))
  ELSE IF q.ctl # "none" THEN OnRow(q, pressed)
  ELSE Stay(OnBar(q, pad, pressed))

(* -------------------------------- Frames -------------------------------- *)
\* The picture of a frame says a wait is over and where the film is.
Pictured(p, at) ==
  [(IF p.cap = "buffering" THEN say_state(p) ELSE p) EXCEPT !.pos = at]

\* advance(): the machine's clock, when there is no decoder.
advance(p) == IF p.paused \/ p.armed \/ p.pos = Dur THEN p ELSE [p EXCEPT !.pos = @ + 1]

Ticked(p) ==
  LET hide == IF p.hide > 0 THEN p.hide - 1 ELSE 0 IN
  [p EXCEPT !.wait = IF @ < Delay THEN @ + 1 ELSE @, !.hide = hide,
            !.up = @ /\ ~(p.hide > 0 /\ hide = 0)]

\* `held`: the seek keys of the last frame are still down.
BandFrame(pressed, held, picture) ==
  /\ leaving = "no"
  \* The neighbours land late; kept while the run does not hold this item.
  /\ there' \in {there, {"prev", "next"}}
  /\ LET p == IF picture THEN Pictured(Ticked(band), IF band.pos < Dur THEN band.pos + 1 ELSE Dur)
              ELSE Ticked(advance(band))
         r == act(p, pressed \cup IF held THEN band.mask ELSE {}, pressed) IN
     /\ band' = r.band
     /\ leaving' = r.leave

\* The stream has ended, or failed.
StreamEnds ==
  /\ leaving = "no"
  /\ leaving' \in {"ended", "failed"}
  /\ UNCHANGED <<band, there>>

BandNext ==
  \/ \E pressed \in Pressed, held, picture \in BOOLEAN : BandFrame(pressed, held, picture)
  \/ StreamEnds

BandSpec == BandInit /\ [][BandNext]_bandVars

(* ------------------------------ Properties ------------------------------ *)
\* "An aim nobody can see is one nobody can cancel", "no key on the row can commit
\* or cancel a seek", "the last 5 s is never asked for", "ctl is never an absent
\* neighbour": whatever the keys, the wait for the neighbours and the hiding.
AimIsSeen ==
  /\ band.armed => /\ band.up /\ band.ctl = "none" /\ band.cap = "seeking"
                   /\ band.to \in 0..(Dur - SeekTail)
  /\ band.up /\ leaving = "no" => band.ctl \in {"none", "play"} \cup there
=============================================================================
