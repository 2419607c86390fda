------------------------------- MODULE Stack -------------------------------
(* view/stack.c: the pages on top of one another.  The stack is a value and   *)
(* the operations are operators on it, so that a page's frame, which may ask  *)
(* for a navigation and has it applied when the frame is over, is one step of *)
(* the module that uses them.                                                 *)
EXTENDS Naturals, Sequences, Functions

CONSTANTS
  StackMax,    \* SCREEN_STACK_MAX: levels
  ArenaBytes,  \* SCREEN_ARENA_BYTES: what the levels' states share
  StateBytes,  \* of a page: what its state takes of them, already aligned
  ArgBytes     \* of a page: the one size of argument it takes; 0: none

ASSUME StackAssumption == StackMax \in Nat \ {0} /\ ArenaBytes \in Nat

\* No focus: what a page that was just pushed has.
NoFocus == 0

\* A level keeps its page's state, which is the page's alone (`state`), and
\* the focus it had when it was covered.  `live` is the one focus in use.
Level(page, state) == [page |-> page, state |-> state, focus |-> NoFocus]
NoScreens == [levels |-> <<>>, live |-> NoFocus]

depth(s)    == Len(s.levels)
Top(s)      == s.levels[depth(s)]
SetTop(s, state) == [s EXCEPT !.levels[depth(s)].state = state]
OnStack(s, page) == \E i \in 1..depth(s) : s.levels[i].page = page

g_arena_used(s) ==
  FoldFunction(+, 0, [i \in 1..depth(s) |-> StateBytes[s.levels[i].page]])

\* What push_now refuses: a full stack, a full arena, an argument of a size
\* the page does not take.
Refused(s, page, given) ==
  \/ depth(s) >= StackMax
  \/ g_arena_used(s) + StateBytes[page] > ArenaBytes
  \/ given # 0 /\ given # ArgBytes[page]

Covered(s) ==
  IF depth(s) = 0 THEN s.levels
  ELSE [s.levels EXCEPT ![depth(s)].focus = s.live]

\* A slip: the covered level does not keep its focus.
push_now_FocusLost(s, page, state, given) ==
  IF Refused(s, page, given) THEN s
  ELSE [levels |-> Append(s.levels, Level(page, state)), live |-> NoFocus]

push_now(s, page, state, given) ==
  IF Refused(s, page, given) THEN s
  ELSE [levels |-> Append(Covered(s), Level(page, state)), live |-> NoFocus]

\* Never the last one.
pop_now(s) ==
  IF depth(s) <= 1 THEN s
  ELSE [levels |-> SubSeq(s.levels, 1, depth(s) - 1),
        live   |-> s.levels[depth(s) - 1].focus]

reset_now(page, state) == push_now(NoScreens, page, state, 0)

(* ------------------------------ Navigation ------------------------------ *)
\* What a frame asked for: the first ask is kept, the others refused.
NoNav == [what |-> "none"]
PushAsk(page, state, given) ==
  [what |-> "push", page |-> page, state |-> state, given |-> given]
PopAsk == [what |-> "pop"]
ResetAsk(page, state) == [what |-> "reset", page |-> page, state |-> state]

nav_ask(nav, ask) == IF nav.what = "none" THEN ask ELSE nav

nav_now(s, ask) ==
  CASE ask.what = "push"  -> push_now(s, ask.page, ask.state, ask.given)
    [] ask.what = "pop"   -> pop_now(s)
    [] ask.what = "reset" -> reset_now(ask.page, ask.state)
    [] OTHER              -> s

\* screen_run_frame's end: circle is looked at while the frame still counts
\* as running, behind what the page asked, and not if the page took it.
\* `handled`: the page's own back() says it is not to be popped.
screen_back(nav, handled) == IF handled THEN nav ELSE nav_ask(nav, PopAsk)
EndOfFrame(s, nav, circle, took, handled) ==
  nav_now(s, IF circle /\ ~took THEN screen_back(nav, handled) ELSE nav)
=============================================================================
