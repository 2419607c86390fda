----------------------------- MODULE MCScreens -----------------------------
(***************************************************************************)
(* What is drawn and walked over, each part by itself and side by side: an *)
(* item's page (Detail), the listing's (Browse), the player's band (Band), *)
(* the focus (Focus), the boxes a page is laid out in and its scrolling    *)
(* (Layout). A behaviour is of one of them, which `part` names, and the    *)
(* others stand where they began.                                          *)
(***************************************************************************)
EXTENDS Detail, Browse, Band, Focus, Layout

VARIABLE part

Bytes    == [home |-> 1, listing |-> 1, detail |-> 1, settings |-> 1]
Argument == [home |-> 0, listing |-> 1, detail |-> 2, settings |-> 0]

\* Films one after the other; marks; a page opened after another's; a run
\* whose item could not be fetched.
Budget(v, p, r, f) == [visits |-> v, presses |-> p, runs |-> r, faults |-> f]
ItemBudgets == {Budget(2, 0, 1, 0), Budget(1, 2, 0, 0), Budget(1, 0, 2, 0),
                Budget(1, 1, 0, 1)}

Box(id, x, y, w, h) == [id |-> id, x |-> x, y |-> y, w |-> w, h |-> h]

\* The home page: a rail of libraries, and of what is watched `n` cards, of a
\* width their pictures give once they are there, scrolled by `off`; or nothing.
Rail(id, n, w, off, y) == [i \in 1 .. n |-> Box(id + i - 1, (w + 2) * (i - 1) - off, y, w, 8)]
HomePage ==
  {<<>>} \cup
    {Rail(0, 2, 10, 0, 0) \o Rail(20, n[1], n[2], n[3], 20) :
       n \in {<<0, 10, 0>>, <<2, 10, 0>>, <<3, 10, 12>>, <<3, 5, 9>>}}

\* Settings: rows with an inset control. A listing: rows that come.
SettingsPage == {<< Box(0, 0, 0, 30, 8), Box(1, 20, 10, 8, 8), Box(2, 0, 20, 30, 8), Box(3, 0, 30, 30, 8) >>}
ListingPage  == {[i \in 1 .. n |-> Box(i, 0, 10 * i, 30, 8)] : n \in {2, 3}}
AllPages == {HomePage, SettingsPage, ListingPage}
RepeatRates == <<3, 2, 1>>

\* A film that plays once.
OneRun == {Budget(1, 0, 1, 0)}

\* A page that fits, two that nearly do, the cards of a rail with the gaps
\* between them, and a list of many.
Item(from, to) == [from |-> from, to |-> to]
Lists ==
  { <<Item(0, 2)>>,
    <<Item(0, 3), Item(3, 5), Item(5, 7)>>,
    <<Item(0, 4), Item(5, 8), Item(9, 13), Item(14, 18)>>,
    [i \in 1..8 |-> Item(2 * i - 2, 2 * i)] }

ScreensInit ==
  /\ DetailInit /\ BrowseInit /\ BandInit /\ FocusInit /\ LayoutInit /\ ScrollInit
  /\ part \in {"item", "browse", "band", "focus", "layout", "scroll"}
  /\ part # "item"   => left = CHOOSE b \in Budgets : TRUE
  /\ part # "band"   => there = {}
  /\ part # "focus"  => frames = ListingPage
  /\ part # "scroll" => content = <<Item(0, 2)>> /\ view = CHOOSE v \in View : TRUE

\* One part moves.
ItemMoves(step) ==
  part = "item" /\ step
  /\ UNCHANGED <<part, browseVars, bandVars, focusVars, layoutVars, scrollVars>>
BrowseMoves(step) ==
  part = "browse" /\ step
  /\ UNCHANGED <<part, detailVars, bandVars, focusVars, layoutVars, scrollVars>>
BandMoves(step) ==
  part = "band" /\ step
  /\ UNCHANGED <<part, detailVars, browseVars, focusVars, layoutVars, scrollVars>>
FocusMoves(step) ==
  part = "focus" /\ step
  /\ UNCHANGED <<part, detailVars, browseVars, bandVars, layoutVars, scrollVars>>
LayoutMoves(step) ==
  part = "layout" /\ step
  /\ UNCHANGED <<part, detailVars, browseVars, bandVars, focusVars, scrollVars>>
ScrollMoves(step) ==
  part = "scroll" /\ step
  /\ UNCHANGED <<part, detailVars, browseVars, bandVars, focusVars, layoutVars>>

ScreensNext ==
  \/ ItemMoves(DetailNext) \/ BrowseMoves(BrowseNext) \/ BandMoves(BandNext)
  \/ FocusMoves(FocusNext) \/ LayoutMoves(LayoutNext) \/ ScrollMoves(ScrollNext)

ScreensSpec ==
  ScreensInit
  /\ [][ScreensNext]_<<part, detailVars, browseVars, bandVars, focusVars, layoutVars, scrollVars>>

\* What plays is what the item's page says, and ends (see UnaskedRunsEnd and
\* TracksAreTheirs).
RunsAreTheItems == UnaskedRunsEnd /\ TracksAreTheirs

\* The directions reach every widget of a page, what they reach is scrolled
\* into view, an aim of the player's band is one the viewer sees, and nothing
\* is laid out over anything else (see EveryWidgetIsReached, FocusIsInView,
\* AimIsSeen and SlotsApart).
KeysReachAndShow ==
  (part = "focus" => EveryWidgetIsReached) /\ FocusIsInView /\ AimIsSeen /\ SlotsApart

\* The focus moves by what the viewer did: back where it was after a page is
\* left, and a direction held waits before it repeats (see FocusReturns and
\* RepeatWaits).
FocusIsTheViewers == FocusReturns /\ RepeatWaits

=============================================================================
