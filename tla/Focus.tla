------------------------------- MODULE Focus --------------------------------
(* view/frame.c: the widgets a frame registers, the focus the directions move  *)
(* among them, and the repeat of a direction that is held.  A layout is the    *)
(* frame's widgets in the order they register, and the next frame of the page  *)
(* may register others: rows are fetched, fill in, scroll and go.  The focus   *)
(* is kept by a widget's id.  The clock is the machine's, and wraps.           *)
EXTENDS Integers, Sequences

CONSTANTS
  Pages,       \* sets of layouts: sequences of widgets [id, x, y, w, h]
  Clock,       \* the width of the clock, in its units
  Gaps,        \* the time a frame may take
  RepeatDelay, \* REPEAT_DELAY_US
  Fast1, Fast2, \* REPEAT_FAST1_US, REPEAT_FAST2_US
  Rates        \* REPEAT_RATE_US, REPEAT_MID_US, REPEAT_MIN_US

ASSUME FocusAssumption ==
  /\ Clock \in Nat \ {0} /\ Gaps \subseteq Nat /\ RepeatDelay \in Nat
  /\ \A l \in UNION Pages : \A i, j \in DOMAIN l : l[i].id \in Nat /\ (l[i].id = l[j].id => i = j)

VARIABLES
  frames,      \* the page: what a frame of it may register
  layout,      \* what the last frame registered
  focus,       \* an id, or Unset
  prevDir,     \* prev_dir, "none" when no direction was held
  holdUs, repeatIn,
  lastUs,      \* the clock at the last frame, 0 before any
  age          \* history: the time since a direction was last pressed or changed

focusVars == <<frames, layout, focus, prevDir, holdUs, repeatIn, lastUs, age>>

Unset == -1      \* has_focus is not set

Dirs == {"down", "up", "right", "left"}
Sideways(d) == d \in {"left", "right"}
Abs(v) == IF v < 0 THEN -v ELSE v

(* ----------------------- From a widget to another ----------------------- *)
Touched(l) == {l[i].id : i \in DOMAIN l}
find(l, id) == CHOOSE i \in DOMAIN l : l[i].id = id

rows_overlap(a, b) == a.y < b.y + b.h /\ b.y < a.y + a.h
mid_y(r) == r.y + r.h \div 2

\* What a direction may go to: sideways it stays on the line, vertically it
\* must leave it.
Candidates(l, from, dir) ==
  {i \in DOMAIN l \ {from} : rows_overlap(l[from], l[i]) = Sideways(dir)}

\* How far along the direction b lies from a, by the leading edges.
Along(a, b, dir) ==
  CASE dir = "right" -> b.x - a.x [] dir = "left" -> a.x - b.x
    [] dir = "down"  -> b.y - a.y [] OTHER -> a.y - b.y
Across(a, b, dir) == Abs(IF Sideways(dir) THEN mid_y(b) - mid_y(a) ELSE b.x - a.x)

\* The first of the best: 0 when there is none.
Best(set, Score(_)) ==
  IF set = {} THEN 0
  ELSE CHOOSE i \in set : \A j \in set : Score(i) < Score(j) \/ (Score(i) = Score(j) /\ i <= j)

\* A slip: the cross axis decides and the distance breaks ties.
pick_Across(l, from, dir) ==
  LET a == l[from]
      Score(i) == Along(a, l[i], dir) + 4 * Across(a, l[i], dir) IN
  Best({i \in Candidates(l, from, dir) : Along(a, l[i], dir) >= 4}, Score)

\* The distance travelled decides and the cross axis breaks ties.
pick(l, from, dir) ==
  LET a == l[from]
      Score(i) == 4 * Along(a, l[i], dir) + Across(a, l[i], dir) IN
  Best({i \in Candidates(l, from, dir) : Along(a, l[i], dir) >= 4}, Score)

\* To the far end, the other way.
wrap(l, from, dir) ==
  LET a == l[from]
      Back(i) == -Along(a, l[i], dir)
      Score(i) == (IF Sideways(dir) THEN 0 ELSE Abs(l[i].x - a.x)) - 2 * Back(i) IN
  Best({i \in Candidates(l, from, dir) : Back(i) >= 4}, Score)

\* ui_frame_end()'s move.
NextWidget(l, from, dir, pressed) ==
  LET to == IF pick(l, from, dir) = 0 /\ pressed THEN wrap(l, from, dir) ELSE pick(l, from, dir) IN
  IF to = 0 THEN from ELSE to

(* ------------------------------ The repeat ------------------------------ *)
repeat_rate_us(hold) ==
  LET repeating == IF hold > RepeatDelay THEN hold - RepeatDelay ELSE 0 IN
  CASE repeating > Fast2 -> Rates[3] [] repeating > Fast1 -> Rates[2] [] OTHER -> Rates[1]

Capped(t) == IF t > RepeatDelay + Fast2 + 1 THEN RepeatDelay + Fast2 + 1 ELSE t

\* A slip: rolling from a direction to another keeps the repeat of the first.
Held_Rolls(dir, pressed, dt) ==
  LET in   == repeatIn - dt
      hold == Capped(holdUs + dt) IN
  CASE pressed -> [fire |-> TRUE, hold |-> 0, in |-> RepeatDelay]
    [] ~pressed /\ dir # "none" ->
         [fire |-> in <= 0, hold |-> hold, in |-> IF in <= 0 THEN repeat_rate_us(hold) ELSE in]
    [] OTHER -> [fire |-> FALSE, hold |-> holdUs, in |-> repeatIn]

\* ui_frame_begin(): a press, a roll to another direction, or the repeat of one
\* held.
Held(dir, pressed, dt) ==
  LET in   == repeatIn - dt
      hold == Capped(holdUs + dt) IN
  CASE pressed        -> [fire |-> TRUE, hold |-> 0, in |-> RepeatDelay]
    [] ~pressed /\ dir # prevDir -> [fire |-> dir # "none", hold |-> 0, in |-> RepeatDelay]
    [] ~pressed /\ dir = prevDir /\ dir # "none" ->
         [fire |-> in <= 0, hold |-> hold, in |-> IF in <= 0 THEN repeat_rate_us(hold) ELSE in]
    [] OTHER -> [fire |-> FALSE, hold |-> holdUs, in |-> repeatIn]

(* -------------------------------- Frames -------------------------------- *)
FocusInit ==
  /\ frames \in Pages /\ layout = <<>>
  /\ focus = Unset /\ prevDir = "none" /\ holdUs = 0 /\ repeatIn = 0
  /\ lastUs = 0 /\ age = 0

\* One frame that registers l, with a direction held or "none", newly down or not,
\* when the clock reads `now`. A focus the frame did not register goes to the first
\* widget, and a page with none leaves it alone.
FocusFrame(l, dir, pressed, now) ==
  LET dt == IF lastUs = 0 THEN 0 ELSE (now - lastUs) % Clock
      r  == Held(dir, pressed, dt) IN
  /\ pressed => dir # "none"
  /\ layout' = l
  /\ focus' = CASE l = <<>> -> focus
                [] l # <<>> /\ focus \notin Touched(l) -> l[1].id
                [] focus \in Touched(l) /\ r.fire /\ dir # "none" ->
                     l[NextWidget(l, find(l, focus), dir, pressed)].id
                [] OTHER -> focus
  /\ prevDir' = dir /\ holdUs' = r.hold /\ repeatIn' = r.in
  /\ lastUs' = IF now = 0 THEN 1 ELSE now
  /\ age' = IF pressed \/ dir # prevDir THEN 0
            ELSE IF age + dt > RepeatDelay THEN RepeatDelay ELSE age + dt
  /\ UNCHANGED frames

FocusNext ==
  \E l \in frames, dir \in Dirs \cup {"none"}, pressed \in BOOLEAN, gap \in Gaps :
    FocusFrame(l, dir, pressed, (lastUs + gap) % Clock)

FocusSpec == FocusInit /\ [][FocusNext]_focusVars

(* ------------------------------ Properties ------------------------------ *)
\* "Rolling from up to down repeats down at full speed": while its widget stays
\* on the page, whatever fills in around it, only a direction moves the focus, and
\* one held moves it again only when the delay since it went down or changed is
\* over.
RepeatWaits ==
  [][(focus \in Touched(layout') /\ focus' # focus)
       => prevDir' # "none" /\ (age' = 0 \/ age' >= RepeatDelay)]_focusVars

\* Where presses lead to from a widget, in a number of them.
Steps(l, is) == is \cup {NextWidget(l, i, d, TRUE) : i \in is, d \in Dirs}
Reach(l, from) ==
  LET After[n \in 0 .. Len(l)] == IF n = 0 THEN {from} ELSE Steps(l, After[n - 1])
  IN  After[Len(l)]
Reached == [l \in UNION Pages |-> [from \in DOMAIN l |-> Reach(l, from)]]

\* "A settings row with an inset control gets stepped over": from the widget that
\* has the focus, wherever rows that came, went or scrolled have left it, presses
\* of the directions reach every widget of the page as it is.
EveryWidgetIsReached ==
  layout # <<>> => /\ focus \in Touched(layout)
                   /\ Reached[layout][find(layout, focus)] = DOMAIN layout
=============================================================================
