------------------------------- MODULE Detail -------------------------------
(* page/detail.c, the page of one film or episode, on the three wants of       *)
(* model/catalog.c it lives from: the mark, the item and its neighbours.  The  *)
(* page runs a frame at a time; the library's one worker fetches without a     *)
(* lock, and the player above takes the panel and hands it back with a result. *)
(* Text and tracks are the item they are of.  The server is reachable all      *)
(* along: the pages of Connection.tla are up when it is not.                   *)
EXTENDS Naturals, FiniteSets

CONSTANTS
  Episodes,    \* of a series, in order: 1..n
  MaxInARow,   \* MAX_IN_A_ROW
  Budgets      \* bounds: how many pages are opened, marks pressed, films
               \* started, and fetches that fail, are given up or forgotten

ASSUME DetailAssumption ==
  /\ Episodes \subseteq Nat \ {0} /\ MaxInARow \in Nat
  /\ Budgets \subseteq [visits : Nat, presses : Nat, runs : Nat, faults : Nat]

None == 0
Marks == {"played", "favorite"}

VARIABLES
  server,   \* episode -> what the server holds of it
  slot,     \* want -> g_slot
  job,      \* the worker: what it took, how far it is and if it still counts
  held,     \* g_item_now, with its id
  text,     \* g_over and g_tracks: of which episode
  over,     \* g_over_id
  near,     \* g_adjacent: the rows, by id
  page,     \* detail_state; shut: the page is not on the stack
  player,   \* the run on top, "id" None when there is none
  report,   \* the stop that is on its way to the server
  left,     \* of the budget
  unasked,  \* history: runs begun since the viewer last asked for one
  spoilt,   \* history: something g_item_now does not know of has landed
  crossed,  \* history: a page was opened over another's kept text
  seen      \* history: the page's item was just seen to its end

libVars  == <<slot, job, held, text, over, near>>
histVars == <<left, unasked, spoilt, crossed, seen>>
detailVars == <<server, libVars, page, player, report, histVars>>

Fresh == [played |-> FALSE, favorite |-> FALSE, resume |-> FALSE]
NoAsk == [id |-> None, mark |-> "played", on |-> FALSE]
AskOf(id) == [NoAsk EXCEPT !.id = id]
Wants == {"MARK", "ITEM", "ADJACENT"}
NoJob == [kind |-> "none", ask |-> NoAsk, current |-> FALSE, landed |-> FALSE]
NoRun == [id |-> None, by |-> None, has |-> {}]
NoReport == [id |-> None, ended |-> FALSE]
Shut == [id |-> None, marks |-> Fresh, writing |-> NoAsk, from |-> FALSE,
         start |-> FALSE, picking |-> FALSE, row |-> 0, kept |-> <<>>]

DetailInit ==
  /\ server = [e \in Episodes |-> Fresh]
  /\ slot = [w \in Wants |-> [state |-> "IDLE", want |-> NoAsk, have |-> NoAsk, pending |-> FALSE]]
  /\ job = NoJob /\ held = [id |-> None, marks |-> Fresh]
  /\ text = None /\ over = None /\ near = <<>>
  /\ page = Shut /\ player = NoRun /\ report = NoReport
  /\ left \in Budgets /\ unasked = 0 /\ spoilt = FALSE /\ crossed = FALSE /\ seen = FALSE

Spend(what) == left[what] > 0 /\ left' = [left EXCEPT ![what] = @ - 1]

(* ------------------------- The catalog's operations --------------------- *)
\* What of the catalog a frame changes: the slots, if the worker's job counts,
\* and g_over_id.
Lib == [slot |-> slot, current |-> job.current, over |-> over]

post(l, w, ask, due) ==
  LET s == l.slot[w] IN
  IF /\ s.want = ask
     /\ s.state = "BUSY" \/ (s.state = "READY" /\ s.have = ask) \/ (s.state = "FAILED" /\ ~due)
  THEN l
  ELSE [l EXCEPT !.slot[w] = [@ EXCEPT !.want = ask, !.pending = TRUE, !.state = "BUSY"]]

forget(l, w) ==
  [l EXCEPT !.slot[w] = [@ EXCEPT !.pending = FALSE, !.state = "IDLE", !.have = NoAsk],
            !.current = @ /\ job.kind # w]

library_item(l, id, due) == post(post(l, "ITEM", AskOf(id), due), "ADJACENT", AskOf(id), due)
library_forget_item(l)   == [forget(l, "ITEM") EXCEPT !.over = None]

\* out->item, and out->tracks, which the id alone is the key of.
li_item(l, id)   == l.slot["ITEM"].state = "READY" /\ held.id = id
li_tracks(l, id) == IF l.over = id THEN text ELSE None

\* A mark in flight refuses another; the same mark twice is two presses.
library_mark(l, ask) ==
  IF l.slot["MARK"].state = "BUSY" THEN l
  ELSE post([l EXCEPT !.slot["MARK"].state = "IDLE"], "MARK", ask, TRUE)

\* The row before or after an episode, if the rows at hand hold both.
adjacent(l, id, step) ==
  IF l.slot["ADJACENT"].state = "READY" /\ id \in DOMAIN near
  THEN {e \in DOMAIN near : e = IF step = "next" THEN id + 1 ELSE id - 1}
  ELSE {}

(* ------------------------------ The page -------------------------------- *)
\* The answer to a press of a mark: the server's, so the page changes now.
take_mark(d) ==
  LET st == slot["MARK"].state
      w  == d.writing
      d1 == [d EXCEPT !.writing = NoAsk] IN
  IF w = NoAsk \/ st = "BUSY" THEN d
  ELSE IF st # "READY" THEN d1
  ELSE [d1 EXCEPT !.marks[w.mark] = w.on,
                  !.marks.resume = @ /\ w.mark # "played"]

Row(e) == [id |-> e, marks |-> near[e]]
On(d, row) == [d EXCEPT !.id = row.id, !.marks = row.marks]

\* A slip: what the shown item has of its own stays asked for and kept.
StepTo_Keeps(l, id, due) == library_item(l, id, due)

\* To a neighbour: what was known of the item left is put aside.
StepTo(l, id, due) == library_item(library_forget_item(l), id, due)

Keep(l) ==
  /\ slot' = l.slot /\ over' = l.over
  /\ job' = [job EXCEPT !.current = l.current]
  /\ UNCHANGED <<held, text, near>>

\* The item that is on its way, or asked for.
Coming == IF slot["ITEM"].pending THEN slot["ITEM"].want.id
          ELSE IF job.kind = "ITEM" THEN job.ask.id ELSE None

\* page_open_item, of a list's row, which may be as old as the list is.
Enter(id) ==
  /\ page = Shut /\ player = NoRun
  /\ \E old \in {Fresh, server[id]} : page' = [Shut EXCEPT !.id = id, !.marks = old]
  /\ Spend("visits")
  /\ crossed' = (crossed \/ over \notin {None, id} \/ Coming \notin {None, id})
  /\ UNCHANGED <<server, libVars, player, report, unasked, spoilt, seen>>

\* back(): an open list of tracks first.
Back ==
  /\ page # Shut /\ player = NoRun
  /\ page' = IF page.picking THEN [page EXCEPT !.picking = FALSE] ELSE Shut
  /\ seen' = (seen /\ page.picking)
  /\ UNCHANGED <<server, libVars, player, report, left, unasked, spoilt, crossed>>

\* What a frame of the page has before it looks at the start and the buttons:
\* the mark's answer, the item asked for and copied, a step to a neighbour.
Begun(press, due) ==
  LET d1 == take_mark(page)
      l1 == library_item(Lib, d1.id, due)
      d2 == IF li_item(l1, d1.id) /\ d1.writing = NoAsk THEN [d1 EXCEPT !.marks = held.marks] ELSE d1
      to == IF press \in {"next", "prev"} /\ ~d2.picking THEN adjacent(l1, d2.id, press) ELSE {} IN
  IF to = {} THEN [d |-> d2, l |-> l1]
  ELSE LET e == CHOOSE x \in to : TRUE IN [d |-> On(d2, Row(e)), l |-> StepTo(l1, e, due)]

\* play_this(): the neighbours are taken now, since when the player returns the
\* one request they come by is often in flight.
play_this(b) ==
  LET d    == b.d
      kept == [s \in {x \in {"prev", "next"} : adjacent(b.l, d.id, x) # {}} |->
                 Row(CHOOSE e \in adjacent(b.l, d.id, s) : TRUE)] IN
  /\ Spend("runs")
  /\ page' = [d EXCEPT !.start = FALSE, !.from = TRUE, !.kept = kept]
  /\ player' = [id |-> d.id, by |-> li_tracks(b.l, d.id),
                has |-> DOMAIN kept]
  /\ UNCHANGED <<unasked>>

\* ask_mark(): refused while one of the page's own is in flight.
ask_mark(b, mark) ==
  LET ask == [id |-> b.d.id, mark |-> mark, on |-> ~b.d.marks[mark]]
      l   == library_mark(b.l, ask) IN
  /\ b.d.writing = NoAsk /\ Spend("presses")
  /\ page' = [b.d EXCEPT !.writing = IF l # b.l THEN ask ELSE NoAsk]
  /\ Keep(l)
  /\ UNCHANGED <<player, unasked>>

\* A failed fetch plays the defaults rather than never starting.
Starts(b) ==
  b.d.start /\ (li_tracks(b.l, b.d.id) # None \/ b.l.slot["ITEM"].state = "FAILED")

Buttons(b, press) ==
  \/ /\ press \in {"none", "next", "prev"}
     /\ page' = [b.d EXCEPT !.picking = @ /\ li_tracks(b.l, b.d.id) # None]
     /\ Keep(b.l)
     /\ UNCHANGED <<player, left, unasked>>
  \/ \* Play, Resume, From start: the count of runs in a row starts again.
     /\ press = "play" /\ ~b.d.picking
     /\ page' = [b.d EXCEPT !.start = TRUE, !.row = 0]
     /\ unasked' = 0
     /\ Keep(b.l)
     /\ UNCHANGED <<player, left>>
  \/ press \in Marks /\ ~b.d.picking /\ ask_mark(b, press)
  \/ \* The list of tracks is opened, or a row of it chosen and the list closed.
     /\ press = "pick" /\ li_tracks(b.l, b.d.id) # None
     /\ page' = [b.d EXCEPT !.picking = ~@]
     /\ Keep(b.l)
     /\ UNCHANGED <<player, left, unasked>>

Frame(press, due) ==
  LET b == Begun(press, due) IN
  /\ page # Shut /\ player = NoRun
  /\ seen' = /\ seen /\ b.d.id = page.id /\ press # "played"
              /\ (page.writing = NoAsk \/ page.writing.mark # "played")
  /\ IF Starts(b) THEN play_this(b) /\ Keep(b.l) ELSE Buttons(b, press)
  /\ UNCHANGED <<server, report, spoilt, crossed>>

\* A slip: the step the viewer asked for is the one counted.
Counted_Asked(r) == r # "ENDED"

\* Prev and Next are the viewer asking, and are not counted.
Counted(r) == r = "ENDED"

\* resumed(): the player hands back a result.
PlayerReturns(r) ==
  LET d0   == [page EXCEPT !.from = FALSE,
                 !.marks = CASE r = "ENDED"  -> [@ EXCEPT !.played = TRUE, !.resume = FALSE]
                             [] r = "FAILED" -> @
                             [] OTHER        -> [@ EXCEPT !.resume = TRUE]]
      way  == CASE r = "NEXT" -> "next" [] r = "PREV" -> "prev"
                [] r = "ENDED" /\ page.row < MaxInARow -> "next" [] OTHER -> "stay"
      fresh == IF way = "stay" THEN {} ELSE adjacent(Lib, page.id, way)
      step == IF fresh # {} THEN {Row(CHOOSE e \in fresh : TRUE)}
              ELSE IF way \in DOMAIN page.kept THEN {page.kept[way]} ELSE {} IN
  /\ player # NoRun
  /\ r \in {"NEXT", "PREV"} =>
       way \in player.has \/ adjacent(Lib, page.id, way) # {}
  /\ IF step = {}
     THEN /\ page' = [d0 EXCEPT !.row = 0]
          /\ seen' = (r = "ENDED" \/ seen)
          /\ UNCHANGED <<libVars, unasked>>
     ELSE LET to == CHOOSE x \in step : TRUE IN
          /\ page' = [On(d0, to) EXCEPT !.start = TRUE, !.row = IF Counted(r) THEN @ + 1 ELSE @]
          /\ Keep(StepTo(Lib, to.id, FALSE))
          /\ seen' = FALSE
          /\ unasked' = IF r = "ENDED" THEN unasked + 1 ELSE 0
  /\ player' = NoRun
  /\ report' = [id |-> player.id, ended |-> r = "ENDED"]
  /\ UNCHANGED <<server, left, spoilt, crossed>>

(* ------------------------------ The worker ------------------------------ *)
\* serve(): the pass may be at any want when one is posted.
Take(w) ==
  /\ job = NoJob /\ slot[w].pending
  /\ job' = [kind |-> w, ask |-> slot[w].want, current |-> TRUE, landed |-> FALSE]
  /\ slot' = [slot EXCEPT ![w].pending = FALSE]
  /\ UNCHANGED <<server, held, text, over, near, page, player, report, histVars>>

\* The answer is written where it goes while it is read, counted or not.
ItemLands ==
  /\ job.kind = "ITEM" /\ ~job.landed
  /\ held' = [id |-> job.ask.id, marks |-> server[job.ask.id]]
  /\ text' = job.ask.id
  /\ job' = [job EXCEPT !.landed = TRUE]
  /\ spoilt' = FALSE
  /\ UNCHANGED <<server, slot, over, near, page, player, report, left, unasked, crossed, seen>>

\* Three rows: the one before, the one asked about and the one after.
AdjacentLands ==
  /\ job.kind = "ADJACENT" /\ ~job.landed
  /\ near' = [e \in Episodes \cap {job.ask.id - 1, job.ask.id, job.ask.id + 1} |-> server[e]]
  /\ job' = [job EXCEPT !.landed = TRUE]
  /\ UNCHANGED <<server, slot, held, text, over, page, player, report, histVars>>

\* The server takes the mark, and drops the resume point with the played one.
MarkLands ==
  /\ job.kind = "MARK" /\ ~job.landed
  /\ server' = [server EXCEPT ![job.ask.id][job.ask.mark] = job.ask.on,
                              ![job.ask.id].resume = @ /\ job.ask.mark # "played"]
  /\ job' = [job EXCEPT !.landed = TRUE]
  /\ UNCHANGED <<slot, held, text, over, near, page, player, report, histVars>>

\* A slip: the held copy is left to the next fetch of the item.
HeldMark_Stale(ask) == held

\* A mark that landed is written into the held copy too.
HeldMark(ask) ==
  IF held.id = ask.id
  THEN [held EXCEPT !.marks[ask.mark] = ask.on, !.marks.resume = @ /\ ask.mark # "played"]
  ELSE held

\* fetch()'s end and done(): nothing is kept of an answer overtaken, but what
\* it has written.  Nobody looks at what a mark's slot has.
Done(ok) ==
  LET w == job.kind IN
  /\ job # NoJob /\ ok = job.landed
  /\ IF ok THEN UNCHANGED left ELSE Spend("faults")
  /\ over' = IF w = "ITEM" /\ ok /\ job.current THEN job.ask.id ELSE over
  /\ held' = IF w = "MARK" /\ ok /\ job.current THEN HeldMark(job.ask) ELSE held
  /\ spoilt' = (spoilt \/ (w = "MARK" /\ ok /\ ~job.current))
  /\ near' = IF w = "ADJACENT" /\ ~ok THEN <<>> ELSE near
  /\ slot' = IF ~job.current THEN slot
             ELSE [slot EXCEPT ![w] = [slot[w] EXCEPT
                     !.have = IF ok /\ w # "MARK" THEN job.ask ELSE @,
                     !.state = IF slot[w].pending THEN "BUSY" ELSE IF ok THEN "READY" ELSE "FAILED"]]
  /\ job' = NoJob
  /\ UNCHANGED <<server, text, page, player, report, unasked, crossed, seen>>

\* watch(): a request is given up, and goes on.
Watch(w) ==
  /\ slot[w].state = "BUSY" /\ Spend("faults")
  /\ slot' = [slot EXCEPT ![w] = [@ EXCEPT !.pending = FALSE, !.state = "FAILED"]]
  /\ job' = [job EXCEPT !.current = @ /\ job.kind # w]
  /\ UNCHANGED <<server, held, text, over, near, page, player, report, unasked, spoilt, crossed, seen>>

\* The stop is told: the server keeps where the film was, or that it was seen,
\* and library_note_stopped() the resume point.
Told ==
  /\ report # NoReport
  /\ server' = [server EXCEPT ![report.id] =
       IF report.ended THEN [@ EXCEPT !.played = TRUE, !.resume = FALSE]
       ELSE [@ EXCEPT !.resume = TRUE]]
  /\ held' = IF held.id = report.id THEN [held EXCEPT !.marks.resume = TRUE] ELSE held
  /\ report' = NoReport
  /\ spoilt' = TRUE
  /\ UNCHANGED <<slot, job, text, over, near, page, player, left, unasked, crossed, seen>>

\* library_watch_link(): what is in hand predates the outage.
LinkReturns ==
  /\ Spend("faults")
  /\ Keep(library_forget_item(Lib))
  /\ UNCHANGED <<server, page, player, report, unasked, spoilt, crossed, seen>>

DetailNext ==
  \/ \E e \in Episodes : Enter(e)
  \/ Back
  \/ \E press \in {"none", "next", "prev", "play", "pick"} \cup Marks, due \in BOOLEAN : Frame(press, due)
  \/ \E r \in {"ENDED", "STOPPED", "PREV", "NEXT", "FAILED"} : PlayerReturns(r)
  \/ \E w \in Wants : Take(w) \/ Watch(w)
  \/ ItemLands \/ AdjacentLands \/ MarkLands
  \/ \E ok \in BOOLEAN : Done(ok)
  \/ Told \/ LinkReturns

DetailSpec == DetailInit /\ [][DetailNext]_detailVars

(* ------------------------------ Properties ------------------------------ *)
\* "A stream that ends the moment it starts would otherwise walk a whole season
\* in seconds, marking every episode watched": the runs begun with nobody asking
\* come to an end, through steps, failures and whatever the player hands back.
UnaskedRunsEnd == unasked <= MaxInARow

\* "An index resolved without them plays the wrong track, or none": a track is
\* looked up among the tracks of the film that is to play, as long as no page
\* asks for its item over the text another's page left.
TracksAreTheirs == ~crossed => player.by \in {None, player.id}

\* "A stale 'not watched' turned a press of Unwatch back into Watched and sent a
\* second POST": a press of a mark on the item the server has answered for turns
\* over what the server has, unless something has landed there, or is
\* landing, that nobody waits for.
PressTurnsOver ==
  [][(slot'["MARK"].pending /\ ~slot["MARK"].pending /\ ~spoilt /\ job.kind # "MARK"
        /\ slot["ITEM"].state = "READY" /\ held.id = page.id /\ page'.id = page.id)
      => LET ask == slot'["MARK"].want IN ask.on # server[ask.id][ask.mark]]_detailVars

\* "Getting 'was it watched' wrong damages the viewer's library": an item just
\* seen to its end shows as watched until a mark or a step.
SeenIsShown == seen => page.marks.played
=============================================================================
