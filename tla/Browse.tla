------------------------------- MODULE Browse -------------------------------
(* page/home.c and page/listing.c on the stack of pages: the rails, folders   *)
(* within folders, and what covers them.  The library holds one listing, so   *)
(* every level asks again for its own, and the levels share one copy of rows  *)
(* to draw.  The two wants are those of Slot.tla and Listing.tla, whose steps *)
(* are here whole; rows are the ask they answer.                              *)
EXTENDS Stack, FiniteSets

CONSTANTS
  Parents,     \* folders
  Sorts,       \* of a listing: its sort, its direction and its filter
  Changes      \* bound: Reloads, changes of sort, and what overtakes an answer

VARIABLES
  stack,    \* the stack of pages, with the focus of each level
  items,    \* the want of the listing: its slot, its rows and the stash
  home,     \* the want of the front page, and if there are rails to draw
  fetch,      \* the worker: what it fetches and if its answer counts
  drawn,    \* listing.c's statics: g_items, if g_taken is their generation, `was`
  changes,     \* of Changes
  onPanel,  \* history: the listing that was drawn last, and the rows it drew
  leftAt,   \* history: the focus each covered level was left at
  early   \* history: the answer for a listing just uncovered went before its
            \* first frame could take it

browseVars == <<stack, items, home, fetch, drawn, changes, onPanel, leftAt, early>>

FirstSort == CHOOSE s \in Sorts : \A t \in Sorts : s <= t

\* The front page alone fits the stack.
ASSUME BrowseAssumption ==
  /\ Sorts \subseteq Nat /\ FirstSort \in Sorts /\ Changes \in Nat
  /\ ~Refused(NoScreens, "home", 0)

Nothing == [parent |-> "none", sort |-> 0]
Asks == [parent : Parents, sort : Sorts]

\* Focus ids: a row or a card, and the button of a notice.
Cards == {1, 2}
Retry == 9

NoFetch == [kind |-> "none", ask |-> Nothing, current |-> FALSE]
Shelf == [items |-> items, home |-> home, current |-> fetch.current, drawn |-> drawn]
Clear(l) == [l EXCEPT !.drawn.rows = Nothing, !.drawn.taken = FALSE]

(* ------------------------------ The catalog ----------------------------- *)
\* library_home(): idempotent.
library_home(l) ==
  IF l.home.state \in {"BUSY", "READY"} THEN l
  ELSE [l EXCEPT !.home.state = "BUSY", !.home.pending = TRUE]

forget_home(l) ==
  [l EXCEPT !.home.state = "IDLE", !.home.pending = FALSE,
            !.current = @ /\ fetch.kind # "home"]

Answers(l, a) == l.items.state = "READY" /\ l.items.have = a

\* want_items(): the listing before comes back for free; the one at hand is put
\* away; then the want is posted.
want_items(l, a) ==
  LET quiet == fetch.kind # "items"
      kept  == IF quiet /\ l.items.state = "READY" /\ l.items.rows # Nothing
               THEN [l EXCEPT !.items.stash = l.items.have] ELSE l IN
  IF Answers(l, a) THEN l
  ELSE IF quiet /\ l.items.stash = a
  THEN [l EXCEPT !.items = [state |-> "READY", want |-> a, have |-> a, pending |-> FALSE,
                            rows |-> a, stash |-> Nothing],
                 !.current = FALSE, !.drawn.taken = FALSE]
  ELSE IF kept.items.want = a /\ kept.items.state = "BUSY" THEN kept
  ELSE [kept EXCEPT !.items.want = a, !.items.pending = TRUE, !.items.state = "BUSY"]

forget_items(l) ==
  [l EXCEPT !.items.state = "IDLE", !.items.pending = FALSE, !.items.have = Nothing,
            !.items.stash = Nothing, !.current = @ /\ fetch.kind # "items"]

(* ---------------------------- The listing page -------------------------- *)
\* take(): the rows are copied when their generation is not the one at hand.
take(l, a) ==
  LET q == want_items(l, a) IN
  IF Answers(q, a) /\ q.items.rows # Nothing /\ ~q.drawn.taken
  THEN [q EXCEPT !.drawn.rows = q.items.rows, !.drawn.taken = TRUE] ELSE q

\* A slip: the rows of before stay under the new ask.
reask_Uncleared(l, a) == want_items([l EXCEPT !.drawn.taken = FALSE], a)

reask(l, a) == want_items(Clear(l), a)
refetch(l, a) == want_items(forget_items([l EXCEPT !.drawn.taken = FALSE]), a)

\* resumed(): dropped if the library holds someone else's answer.
listing_resumed(l, a) ==
  LET q == want_items(l, a) IN
  [q EXCEPT !.drawn.rows = IF Answers(q, a) /\ q.items.rows # Nothing THEN @ ELSE Nothing,
            !.drawn.taken = FALSE]

(* ------------------------------- Frames --------------------------------- *)
\* ui_frame_end(): a focus that no longer is anywhere goes to the first.
Landed(focus, entries) ==
  IF entries = {} \/ focus \in entries THEN focus
  ELSE CHOOSE e \in entries : \A f \in entries : e <= f
Moved(focus, entries) == {f \in entries : Landed(focus, entries) = focus /\ f # focus}

\* Where the frame leaves the focus, before what it asked for happens.
Focused(s, to) == [s EXCEPT !.live = to]

\* After the navigation: enter() of a page that is new, resumed() of one that
\* is uncovered.  Returns the library's part.
Entered(l, s) ==
  IF s.levels = stack.levels \/ depth(s) = 0 THEN l
  ELSE CASE Top(s).page = "listing" /\ depth(s) > depth(stack) -> reask(l, Top(s).state)
         [] Top(s).page = "listing" /\ depth(s) < depth(stack) -> listing_resumed(l, Top(s).state)
         [] Top(s).page = "home" -> library_home(l)
         [] OTHER -> l

\* `at`: the stack as the page's frame leaves it, with what it then asks of it.
Applied(l, at, nav, circle, took) ==
  LET s == EndOfFrame(at, nav, circle, took, FALSE)
      n == Entered(l, s) IN
  /\ stack' = s
  /\ items' = n.items /\ home' = n.home /\ drawn' = n.drawn
  /\ fetch' = [fetch EXCEPT !.current = n.current]
  /\ leftAt' = IF depth(s) > depth(stack) THEN Append(leftAt, at.live)
               ELSE IF depth(s) < depth(stack) THEN SubSeq(leftAt, 1, depth(s) - 1) ELSE leftAt

\* The rows are still those of the listing above, that is gone.
Listings == {i \in 1..depth(stack) : stack.levels[i].page = "listing"}
RowsOfAnother ==
  /\ Listings # {}
  /\ LET top == CHOOSE i \in Listings : \A j \in Listings : j <= i
     IN  drawn.rows \notin {Nothing, stack.levels[top].state}
TooEarly(when) == early' = (early \/ (when /\ RowsOfAnother))

SpendChange == changes > 0 /\ changes' = changes - 1

OpenFolder(p) == PushAsk("listing", [parent |-> p, sort |-> FirstSort], ArgBytes["listing"])
OpenItem      == PushAsk("detail", Nothing, ArgBytes["detail"])

\* One frame of the front page: Reload unless it is loading, a card opened, a
\* notice with its button while there is nothing to draw.
HomeFrame(press) ==
  LET l  == library_home(Shelf)
      l1 == IF press = "triangle" /\ l.home.state # "BUSY" THEN library_home(forget_home(l)) ELSE l
      entries == IF l1.home.rails THEN Cards ELSE IF l1.home.state = "BUSY" THEN {} ELSE {Retry}
      again   == press = "cross" /\ ~l1.home.rails /\ entries # {} /\ stack.live = Retry
      l2 == IF again THEN forget_home(l1) ELSE l1
      at == Focused(stack, Landed(stack.live, entries)) IN
  /\ Top(stack).page = "home"
  /\ IF press = "triangle" \/ again THEN SpendChange ELSE UNCHANGED changes
  /\ \/ /\ press = "cross" /\ l1.home.rails /\ stack.live \in Cards
        /\ \E p \in Parents : Applied(l2, at, OpenFolder(p), FALSE, FALSE)
     \/ press = "start" /\ l1.home.rails /\ Applied(l2, at, PushAsk("settings", Nothing, 0), FALSE, FALSE)
     \/ /\ press = "move"
        /\ \E f \in Moved(stack.live, entries) : Applied(l2, Focused(stack, f), NoNav, FALSE, FALSE)
     \/ press \in {"none", "triangle", "circle"} /\ Applied(l2, at, NoNav, press = "circle", FALSE)
     \/ again /\ Applied(l2, at, NoNav, FALSE, FALSE)
  /\ UNCHANGED <<onPanel, early>>

\* One frame of a listing.  Square held is a modifier: its presses change the
\* ask and belong to it, circle included.
ListingFrame(press, sort) ==
  LET a0 == Top(stack).state
      a  == IF press = "square" THEN [a0 EXCEPT !.sort = sort] ELSE a0
      s0 == SetTop(stack, a)
      l0 == IF a # a0 THEN reask(Shelf, a) ELSE Shelf
      l1 == IF press = "triangle" /\ drawn.was # "BUSY" THEN refetch(l0, a) ELSE l0
      l2 == take(l1, a)
      rows == l2.drawn.rows
      again == press = "cross" /\ rows = Nothing /\ l2.items.state = "FAILED" /\ stack.live = Retry
      l3 == [(IF again THEN refetch(l2, a) ELSE l2) EXCEPT !.drawn.was = l2.items.state]
      entries == IF rows # Nothing THEN Cards
                 ELSE IF l2.items.state \in {"FAILED", "READY"} THEN {Retry} ELSE {}
      at == Focused(s0, Landed(stack.live, entries)) IN
  /\ Top(stack).page = "listing"
  /\ (press = "square") = (sort # a0.sort)
  /\ TooEarly(press = "triangle")
  /\ IF press \in {"triangle", "square"} \/ again THEN SpendChange ELSE UNCHANGED changes
  /\ IF press = "start"
     THEN \* Before anything is taken or drawn.
          /\ Applied(l1, stack, PushAsk("settings", Nothing, 0), FALSE, FALSE)
          /\ UNCHANGED onPanel
     ELSE /\ onPanel' = [ask |-> a, rows |-> rows]
          /\ \/ /\ press = "cross" /\ rows # Nothing /\ stack.live \in Cards
                /\ \E nav \in {OpenFolder(p) : p \in Parents} \cup {OpenItem} :
                     Applied(l3, at, nav, FALSE, FALSE)
             \/ /\ press = "move"
                /\ \E f \in Moved(stack.live, entries) : Applied(l3, Focused(s0, f), NoNav, FALSE, FALSE)
             \/ /\ press \in {"none", "triangle", "square", "circle"}
                /\ Applied(l3, at, NoNav, press = "circle", FALSE)
             \/ again /\ Applied(l3, at, NoNav, FALSE, FALSE)

\* Square and circle together: the circle is the modifier's.
SquareCircle ==
  LET a == Top(stack).state
      l == take(Shelf, a) IN
  /\ Top(stack).page = "listing"
  /\ onPanel' = [ask |-> a, rows |-> l.drawn.rows]
  /\ Applied([l EXCEPT !.drawn.was = l.items.state], stack, NoNav, TRUE, TRUE)
  /\ UNCHANGED <<changes, early>>

\* A page above, that asks the library for nothing here, until circle.
CoverFrame ==
  /\ Top(stack).page \in {"detail", "settings"}
  /\ Applied(Shelf, Focused(stack, 1), NoNav, TRUE, FALSE)
  /\ UNCHANGED <<changes, onPanel, early>>

(* --------------------------- The other threads -------------------------- *)
FetchTakes ==
  /\ fetch = NoFetch
  /\ \/ /\ items.pending
        /\ fetch' = [kind |-> "items", ask |-> items.want, current |-> TRUE]
        /\ items' = [items EXCEPT !.pending = FALSE] /\ UNCHANGED home
     \/ /\ home.pending
        /\ fetch' = [kind |-> "home", ask |-> Nothing, current |-> TRUE]
        /\ home' = [home EXCEPT !.pending = FALSE] /\ UNCHANGED items
  /\ UNCHANGED <<stack, drawn, changes, onPanel, leftAt, early>>

After(pending, ok) == IF pending THEN "BUSY" ELSE IF ok THEN "READY" ELSE "FAILED"

\* The rows are written whoever waits for them; the rails alone may be copied
\* of an answer nobody waits for.
FetchAnswers(ok) ==
  /\ fetch # NoFetch /\ fetch' = NoFetch
  /\ IF fetch.kind = "items"
     THEN /\ items' = [items EXCEPT !.rows = IF ok THEN fetch.ask ELSE Nothing,
                         !.have = IF ok /\ fetch.current THEN fetch.ask ELSE @,
                         !.state = IF fetch.current THEN After(items.pending, ok) ELSE @]
          /\ drawn' = [drawn EXCEPT !.taken = @ /\ ~(ok /\ fetch.current)]
          /\ UNCHANGED home
     ELSE /\ home' = [home EXCEPT !.rails = ok,
                        !.state = IF fetch.current THEN After(home.pending, ok) ELSE @]
          /\ UNCHANGED <<items, drawn>>
  /\ UNCHANGED <<stack, changes, onPanel, leftAt, early>>

\* watch() of the listing: given up, and still being written.
WatchItems ==
  /\ items.state = "BUSY" /\ SpendChange
  /\ items' = [items EXCEPT !.pending = FALSE, !.state = "FAILED"]
  /\ fetch' = [fetch EXCEPT !.current = @ /\ fetch.kind # "items"]
  /\ UNCHANGED <<stack, home, drawn, onPanel, leftAt, early>>

\* A mark or a stop has landed: the lists are stale, the stash is kept.
ListsOvertaken ==
  /\ SpendChange
  /\ items' = [items EXCEPT !.state = "IDLE", !.pending = FALSE, !.have = Nothing]
  /\ home' = [home EXCEPT !.state = "IDLE", !.pending = FALSE]
  /\ fetch' = [fetch EXCEPT !.current = FALSE]
  /\ TooEarly(TRUE)
  /\ UNCHANGED <<stack, drawn, onPanel, leftAt>>

BrowseInit ==
  /\ stack = reset_now("home", Nothing)
  /\ items = [state |-> "IDLE", want |-> Nothing, have |-> Nothing, pending |-> FALSE,
              rows |-> Nothing, stash |-> Nothing]
  /\ home = [state |-> "IDLE", pending |-> FALSE, rails |-> FALSE]
  /\ fetch = NoFetch /\ changes = Changes
  /\ drawn = [rows |-> Nothing, taken |-> FALSE, was |-> "IDLE"]
  /\ onPanel = [ask |-> Nothing, rows |-> Nothing] /\ leftAt = <<>> /\ early = FALSE

BrowseNext ==
  \/ \E press \in {"none", "triangle", "cross", "move", "start", "circle"} :
       HomeFrame(press) \/ (depth(stack) > 1 /\ ListingFrame(press, Top(stack).state.sort))
  \/ \E sort \in Sorts : depth(stack) > 1 /\ ListingFrame("square", sort)
  \/ SquareCircle \/ CoverFrame
  \/ FetchTakes \/ WatchItems \/ ListsOvertaken
  \/ \E ok \in BOOLEAN : FetchAnswers(ok)

BrowseSpec == BrowseInit /\ [][BrowseNext]_browseVars

(* ------------------------------ Properties ------------------------------ *)
\* "Old order under a new sort label is worse than an empty page": rows that are
\* drawn are of the folder and the order the page is of, whatever of it the
\* levels above and below have asked the one listing for.  Not so where the
\* answer of a listing just uncovered is overtaken, or a Reload pressed, before
\* its first frame: the rows of the listing above are kept for it.
DrawnAreThePages == ~early => onPanel.rows \in {Nothing, onPanel.ask}

\* "Per push, so a covered level comes back exactly where it was": a level that
\* is uncovered has the focus it was left at, through any pages in between.
FocusReturns ==
  [][depth(stack') < depth(stack) => stack'.live = leftAt[depth(stack')]]_browseVars
=============================================================================
