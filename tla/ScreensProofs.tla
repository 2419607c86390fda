--------------------------- MODULE ScreensProofs ---------------------------
(***************************************************************************)
(* The proofs about what is drawn and walked over: an item's page (Detail),*)
(* the listing's (Browse), the focus under a held direction (Focus), the   *)
(* boxes a page is laid out in and its scroll (Layout), and all of them    *)
(* side by side (MCScreens). The player's band is with its page, in        *)
(* PlayerProofs.                                                           *)
(*                                                                         *)
(* Each part has an inductive invariant. An item's page and the one want   *)
(* of the library that it asks with are of the same item, whatever job is  *)
(* under way for a page before it (DetailInv). What is drawn of a listing  *)
(* is of the topmost listing of the stack or not drawn again before it is, *)
(* and every covered level has the focus it was left at (BrowseInv). What  *)
(* is left of a repeat's delay covers what is left of the wait (WaitInv).  *)
(* And what is left of the open boxes, with what was handed out of them,   *)
(* is never one over another (LayoutInv). What is left of a scroll's way   *)
(* is no more than the frames still to come leave nothing of (ScrollInv).  *)
(***************************************************************************)
EXTENDS MCScreens, SequenceTheorems, WellFoundedInduction, TLAPS

-----------------------------------------------------------------------------
(* The item's page (Detail). *)

Ids     == Episodes \cup {None}
MarkSet == [played : BOOLEAN, favorite : BOOLEAN, resume : BOOLEAN]
AskSet  == [id : Ids, mark : Marks, on : BOOLEAN]
WantSet == [state : {"IDLE", "BUSY", "READY", "FAILED"}, want : AskSet, have : AskSet, pending : BOOLEAN]
RowSet  == [id : Episodes, marks : MarkSet]
KeptSet == UNION {[D -> RowSet] : D \in SUBSET {"prev", "next"}}
PageSet == [id : Ids, marks : MarkSet, writing : AskSet, from : BOOLEAN, start : BOOLEAN,
            picking : BOOLEAN, row : Nat, kept : KeptSet]
JobSet  == [kind : Wants \cup {"none"}, ask : AskSet, current : BOOLEAN, landed : BOOLEAN]
NearSet == UNION {[D -> MarkSet] : D \in SUBSET Episodes}
LibSet  == [slot : [Wants -> WantSet], current : BOOLEAN, over : Ids]

DetailTypeOK ==
  /\ server \in [Episodes -> MarkSet]
  /\ slot \in [Wants -> WantSet] /\ job \in JobSet
  /\ held \in [id : Ids, marks : MarkSet] /\ text \in Ids /\ over \in Ids /\ near \in NearSet
  /\ page \in PageSet /\ (page # Shut => page.id # None)
  /\ player = [id |-> player.id, by |-> player.by, has |-> player.has]
  /\ player.id \in Ids /\ player.by \in Ids /\ player.has \subseteq {"prev", "next"}
  /\ (player # NoRun => player.id # None /\ page.id # None)
  /\ report \in [id : Ids, ended : BOOLEAN]
  /\ (report # NoReport => report.id # None)
  /\ IF job.kind = "none" THEN job.ask = NoAsk /\ ~job.landed ELSE job.ask.id # None
  /\ \A w \in Wants : slot[w].pending => slot[w].want.id # None
  /\ left \in [visits : Nat, presses : Nat, runs : Nat, faults : Nat]
  /\ unasked \in Nat /\ spoilt \in BOOLEAN /\ crossed \in BOOLEAN /\ seen \in BOOLEAN

\* What one film's page, which is p's, has asked of the library stands in the
\* slot, in the worker's hands or in the text: an answer that is ready is for
\* the want and is the one that is held; and, as long as no page was opened over
\* another's, the text that counts, what is asked for and what is fetched and
\* counts are of one film.
SlotInv(sl, cur) ==
  /\ \A w \in Wants : sl[w].pending => sl[w].state = "BUSY" /\ sl[w].want.id # None
  /\ cur => job.kind # "none"
  /\ job.kind = "ITEM" /\ cur /\ ~sl["ITEM"].pending => sl["ITEM"].want = job.ask
  /\ sl["ITEM"].want = AskOf(sl["ITEM"].want.id)
  /\ job.kind = "ITEM" => job.ask = AskOf(job.ask.id)
  /\ sl["ITEM"].state = "READY" => /\ job.kind # "ITEM" /\ sl["ITEM"].want = sl["ITEM"].have
                                   /\ sl["ITEM"].have = AskOf(held.id)

TextInv(sl, cur, ov, p) ==
  /\ ov # None => /\ text = ov
                  /\ job.kind = "ITEM" => job.ask.id = ov
                  /\ sl["ITEM"].pending => sl["ITEM"].want.id = ov
  /\ job.kind = "ITEM" /\ cur /\ sl["ITEM"].pending => sl["ITEM"].want.id = job.ask.id
  /\ p # None => /\ ov \in {None, p}
                 /\ job.kind = "ITEM" /\ cur => job.ask.id = p
                 /\ sl["ITEM"].pending => sl["ITEM"].want.id = p

LibInv(l, p) == SlotInv(l.slot, l.current) /\ (~crossed => TextInv(l.slot, l.current, l.over, p))

\* The runs nobody asked for are counted on the page, while one is on or about
\* to begin; and a mark that the held copy has otherwise than the server is on
\* its way, by a job that will tell.
RunInv ==
  /\ unasked <= MaxInARow /\ page.row <= MaxInARow
  /\ page.start \/ player # NoRun => unasked <= page.row
  /\ player # NoRun => ~page.start

HeldInv ==
  /\ job.kind = "ITEM" /\ job.landed => held.id = job.ask.id /\ text = job.ask.id
  /\ ~spoilt /\ job.kind = "MARK" /\ job.landed => server[job.ask.id][job.ask.mark] = job.ask.on
  /\ ~spoilt /\ held.id # None =>
       \A mark \in Marks :
          \/ held.marks[mark] = server[held.id][mark]
          \/ job.kind = "MARK" /\ job.landed /\ job.ask.id = held.id /\ job.ask.mark = mark

DetailInv ==
  /\ DetailTypeOK
  /\ LibInv(Lib, page.id)
  /\ RunInv /\ HeldInv /\ TracksAreTheirs

\* The ids, and the ask that is for an item alone.
LEMMA IdFacts == None \in Ids /\ Episodes \subseteq Ids /\ None \notin Episodes /\ NoAsk \in AskSet
                 /\ \A id \in Ids : AskOf(id) \in AskSet /\ AskOf(id).id = id
BY DetailAssumption DEF Ids, None, NoAsk, AskSet, AskOf, Marks

\* The library as its requests see it.
LEMMA PartsAre ==
    ASSUME DetailTypeOK
    PROVE  /\ Lib \in LibSet /\ Lib.slot = slot /\ Lib.current = job.current /\ Lib.over = over
           /\ job.kind \in Wants \cup {"none"} /\ job.ask \in AskSet
BY DEF DetailTypeOK, Lib, LibSet, JobSet

\* A request leaves the want alone that is for the same, or asks anew.
LEMMA PostSlot ==
    ASSUME NEW l \in LibSet, NEW w \in Wants, NEW ask \in AskSet, NEW due \in BOOLEAN,
           NEW n, n = post(l, w, ask, due)
    PROVE  /\ n \in LibSet /\ n.current = l.current /\ n.over = l.over
           /\ \A v \in Wants : v # w => n.slot[v] = l.slot[v]
           /\ \/ n = l /\ l.slot[w].want = ask /\ l.slot[w].state # "IDLE"
                 /\ (l.slot[w].state = "READY" => l.slot[w].have = ask)
              \/ /\ n.slot[w].want = ask /\ n.slot[w].pending /\ n.slot[w].state = "BUSY"
                 /\ n.slot[w].have = l.slot[w].have
                 /\ ~(l.slot[w].want = ask /\ l.slot[w].state = "READY" /\ l.slot[w].have = ask)
<1>1. PICK s \in WantSet : s = l.slot[w]
    BY DEF LibSet
<1>2. CASE s.want = ask /\ (s.state = "BUSY" \/ (s.state = "READY" /\ s.have = ask) \/ (s.state = "FAILED" /\ ~due))
    <2>1. n = l
        BY <1>1, <1>2 DEF post
    <2> QED BY <1>1, <1>2, <2>1
<1>3. CASE ~(s.want = ask /\ (s.state = "BUSY" \/ (s.state = "READY" /\ s.have = ask) \/ (s.state = "FAILED" /\ ~due)))
    <2>1. PICK t : t = [s EXCEPT !.want = ask, !.pending = TRUE, !.state = "BUSY"]
        OBVIOUS
    <2>2. /\ t \in WantSet /\ t.want = ask /\ t.pending /\ t.state = "BUSY" /\ t.have = s.have
        BY <1>1, <2>1 DEF WantSet
    <2>3. n = [l EXCEPT !.slot[w] = t]
        BY <1>1, <1>3, <2>1 DEF post
    <2>4. PICK m : m = [l.slot EXCEPT ![w] = t]
        OBVIOUS
    <2>5. m \in [Wants -> WantSet] /\ m[w] = t /\ \A v \in Wants : v # w => m[v] = l.slot[v]
        BY <2>2, <2>4 DEF LibSet
    <2>6. n = [l EXCEPT !.slot = m]
        BY <2>3, <2>4 DEF LibSet
    <2>7. n \in LibSet /\ n.slot = m /\ n.current = l.current /\ n.over = l.over
        BY <2>5, <2>6 DEF LibSet
    <2> QED BY <1>1, <1>3, <2>2, <2>5, <2>7
<1> QED BY <1>2, <1>3

\* A post of the item's want, by the page that is up.
LEMMA ItemPosted ==
    ASSUME DetailTypeOK, NEW l \in LibSet, NEW id \in Episodes, NEW due \in BOOLEAN, LibInv(l, id),
           NEW n, n = post(l, "ITEM", AskOf(id), due)
    PROVE  /\ n \in LibSet /\ LibInv(n, id) /\ n.current = l.current /\ n.over = l.over
           /\ \A v \in Wants : v # "ITEM" => n.slot[v] = l.slot[v]
           /\ l.slot["ITEM"].state = "READY" /\ l.slot["ITEM"].have = AskOf(id) => n = l
<1>1. /\ "ITEM" \in Wants /\ id # None /\ AskOf(id) \in AskSet /\ AskOf(id).id = id
    BY IdFacts DEF Wants
<1>2. /\ n \in LibSet /\ n.current = l.current /\ n.over = l.over
      /\ \A v \in Wants : v # "ITEM" => n.slot[v] = l.slot[v]
      /\ \/ n = l /\ l.slot["ITEM"].want = AskOf(id) /\ l.slot["ITEM"].state # "IDLE"
            /\ (l.slot["ITEM"].state = "READY" => l.slot["ITEM"].have = AskOf(id))
         \/ /\ n.slot["ITEM"].want = AskOf(id) /\ n.slot["ITEM"].pending /\ n.slot["ITEM"].state = "BUSY"
            /\ n.slot["ITEM"].have = l.slot["ITEM"].have
            /\ ~(l.slot["ITEM"].want = AskOf(id) /\ l.slot["ITEM"].state = "READY"
                 /\ l.slot["ITEM"].have = AskOf(id))
    BY <1>1, PostSlot
<1>3. CASE n = l
    BY <1>2, <1>3
<1>4. CASE n # l
    <2>1. /\ n.slot["ITEM"].want = AskOf(id) /\ n.slot["ITEM"].pending /\ n.slot["ITEM"].state = "BUSY"
          /\ ~(l.slot["ITEM"].want = AskOf(id) /\ l.slot["ITEM"].state = "READY"
                 /\ l.slot["ITEM"].have = AskOf(id))
        BY <1>2, <1>4
    <2>2. SlotInv(l.slot, l.current) /\ (~crossed => TextInv(l.slot, l.current, l.over, id))
        BY DEF LibInv
    <2>3. SlotInv(n.slot, n.current)
        <3>1. \A w \in Wants : n.slot[w].pending => n.slot[w].state = "BUSY" /\ n.slot[w].want.id # None
            BY <1>1, <1>2, <2>1, <2>2 DEF SlotInv
        <3> QED BY <1>1, <1>2, <2>1, <2>2, <3>1 DEF SlotInv
    <2>4. ASSUME ~crossed PROVE TextInv(n.slot, n.current, n.over, id)
        BY <1>1, <1>2, <2>1, <2>2, <2>4 DEF TextInv
    <2>5. ~(l.slot["ITEM"].state = "READY" /\ l.slot["ITEM"].have = AskOf(id))
        BY <2>1, <2>2 DEF SlotInv
    <2> QED BY <1>2, <2>3, <2>4, <2>5 DEF LibInv
<1> QED BY <1>3, <1>4

\* A post of another want is nothing to the item's.
LEMMA OtherPosted ==
    ASSUME DetailTypeOK, NEW l \in LibSet, NEW p \in Ids, NEW due \in BOOLEAN, LibInv(l, p),
           NEW w \in Wants \ {"ITEM"}, NEW ask \in AskSet, ask.id # None,
           NEW n, n = post(l, w, ask, due)
    PROVE  /\ n \in LibSet /\ LibInv(n, p) /\ n.current = l.current /\ n.over = l.over
           /\ \A v \in Wants : v # w => n.slot[v] = l.slot[v]
           /\ n = l \/ (n.slot[w].pending /\ n.slot[w].want = ask)
           /\ l.slot[w].state = "IDLE" => n.slot[w].pending /\ n.slot[w].want = ask
<1>1. /\ n \in LibSet /\ n.current = l.current /\ n.over = l.over
      /\ \A v \in Wants : v # w => n.slot[v] = l.slot[v]
      /\ \/ n = l /\ l.slot[w].want = ask /\ l.slot[w].state # "IDLE"
            /\ (l.slot[w].state = "READY" => l.slot[w].have = ask)
         \/ /\ n.slot[w].want = ask /\ n.slot[w].pending /\ n.slot[w].state = "BUSY"
            /\ n.slot[w].have = l.slot[w].have
            /\ ~(l.slot[w].want = ask /\ l.slot[w].state = "READY" /\ l.slot[w].have = ask)
    BY PostSlot
<1>2. n.slot["ITEM"] = l.slot["ITEM"]
    BY <1>1 DEF Wants
<1>3. SlotInv(l.slot, l.current) /\ (~crossed => TextInv(l.slot, l.current, l.over, p))
    BY DEF LibInv
<1>4. \A v \in Wants : n.slot[v].pending => n.slot[v].state = "BUSY" /\ n.slot[v].want.id # None
    BY <1>1, <1>3 DEF SlotInv
<1>5. SlotInv(n.slot, n.current)
    BY ONLY <1>1, <1>2, <1>3, <1>4 DEF SlotInv
<1>6. ~crossed => TextInv(n.slot, n.current, n.over, p)
    BY ONLY <1>1, <1>2, <1>3 DEF TextInv
<1> QED BY <1>1, <1>5, <1>6 DEF LibInv

\* The page's item asked for, and its neighbours.
LEMMA ItemAsked ==
    ASSUME DetailTypeOK, NEW l \in LibSet, NEW id \in Episodes, NEW due \in BOOLEAN, LibInv(l, id),
           NEW n, n = library_item(l, id, due)
    PROVE  /\ n \in LibSet /\ LibInv(n, id) /\ n.current = l.current /\ n.over = l.over
           /\ n.slot["MARK"] = l.slot["MARK"]
           /\ l.slot["ITEM"].state = "READY" /\ l.slot["ITEM"].have = AskOf(id) =>
                n.slot["ITEM"] = l.slot["ITEM"]
<1>1. PICK m : m = post(l, "ITEM", AskOf(id), due)
    OBVIOUS
<1>2. /\ m \in LibSet /\ LibInv(m, id) /\ m.current = l.current /\ m.over = l.over
      /\ \A v \in Wants : v # "ITEM" => m.slot[v] = l.slot[v]
      /\ l.slot["ITEM"].state = "READY" /\ l.slot["ITEM"].have = AskOf(id) => m = l
    BY <1>1, ItemPosted
<1>3. n = post(m, "ADJACENT", AskOf(id), due)
    BY <1>1 DEF library_item
<1>4. "ADJACENT" \in Wants \ {"ITEM"} /\ AskOf(id) \in AskSet /\ AskOf(id).id # None /\ id \in Ids
    BY IdFacts DEF Wants
<1>5. /\ n \in LibSet /\ LibInv(n, id) /\ n.current = m.current /\ n.over = m.over
      /\ \A v \in Wants : v # "ADJACENT" => n.slot[v] = m.slot[v]
    BY ONLY DetailTypeOK, <1>2, <1>3, <1>4, due \in BOOLEAN, OtherPosted
<1>6. "MARK" \in Wants /\ "ITEM" \in Wants
    BY DEF Wants
<1> QED BY <1>2, <1>5, <1>6

\* What is forgotten is nobody's: neither asked for nor kept.
LEMMA ItemForgotten ==
    ASSUME DetailTypeOK, NEW l \in LibSet, NEW p \in Ids, NEW q \in Ids, LibInv(l, p),
           NEW n, n = library_forget_item(l)
    PROVE  /\ n \in LibSet /\ LibInv(n, q) /\ n.slot["MARK"] = l.slot["MARK"]
<1>1. PICK s \in WantSet : s = l.slot["ITEM"]
    BY DEF LibSet, Wants
<1>2. PICK t : t = [s EXCEPT !.pending = FALSE, !.state = "IDLE", !.have = NoAsk]
    OBVIOUS
<1>3. t \in WantSet /\ ~t.pending /\ t.state = "IDLE" /\ t.want = s.want
    BY <1>1, <1>2, IdFacts DEF WantSet
<1>4. PICK m : m = [l.slot EXCEPT !["ITEM"] = t]
    OBVIOUS
<1>5. m \in [Wants -> WantSet] /\ m["ITEM"] = t /\ \A v \in Wants : v # "ITEM" => m[v] = l.slot[v]
    BY <1>3, <1>4 DEF LibSet, Wants
<1>6. PICK c : c = (l.current /\ job.kind # "ITEM")
    OBVIOUS
<1>7. n = [slot |-> m, current |-> c, over |-> None]
    BY <1>1, <1>2, <1>4, <1>6 DEF library_forget_item, forget, LibSet
<1>8. n \in LibSet /\ n.slot = m /\ n.current = c /\ n.over = None
    BY <1>5, <1>6, <1>7, IdFacts DEF LibSet
<1>9. SlotInv(l.slot, l.current)
    BY DEF LibInv
<1>10. SlotInv(m, c)
    <2>1. \A w \in Wants : m[w].pending => m[w].state = "BUSY" /\ m[w].want.id # None
        BY <1>3, <1>5, <1>9 DEF SlotInv
    <2>2. m["ITEM"].want = AskOf(m["ITEM"].want.id)
        BY <1>1, <1>3, <1>5, <1>9 DEF SlotInv
    <2>3. job.kind = "ITEM" => job.ask = AskOf(job.ask.id)
        BY <1>9 DEF SlotInv
    <2>4. c => job.kind # "none"
        BY <1>6, <1>9 DEF SlotInv
    <2> QED BY ONLY <1>3, <1>5, <1>6, <2>1, <2>2, <2>3, <2>4 DEF SlotInv
<1>11. TextInv(m, c, None, q)
    BY <1>3, <1>5, <1>6 DEF TextInv
<1> QED BY <1>5, <1>8, <1>10, <1>11 DEF LibInv, Wants

\* A step to another row: the item left is put aside, the new one asked for.
LEMMA Stepped ==
    ASSUME DetailTypeOK, NEW l \in LibSet, NEW p \in Ids, NEW id \in Episodes, NEW due \in BOOLEAN,
           LibInv(l, p), NEW n, n = StepTo(l, id, due)
    PROVE  /\ n \in LibSet /\ LibInv(n, id) /\ n.slot["MARK"] = l.slot["MARK"]
<1>1. PICK m : m = library_forget_item(l)
    OBVIOUS
<1>2. id \in Ids
    BY IdFacts
<1>3. m \in LibSet /\ LibInv(m, id) /\ m.slot["MARK"] = l.slot["MARK"]
    BY <1>1, <1>2, ItemForgotten
<1>4. n = library_item(m, id, due)
    BY <1>1 DEF StepTo
<1> QED BY ONLY DetailTypeOK, <1>3, <1>4, id \in Episodes, due \in BOOLEAN, ItemAsked

\* A mark is asked for unless one is in flight.
LEMMA MarkAsked ==
    ASSUME DetailTypeOK, NEW l \in LibSet, NEW p \in Ids, LibInv(l, p),
           NEW ask \in AskSet, ask.id # None, NEW n, n = library_mark(l, ask)
    PROVE  /\ n \in LibSet /\ LibInv(n, p)
           /\ n = l \/ (n.slot["MARK"].pending /\ n.slot["MARK"].want = ask)
<1>1. CASE l.slot["MARK"].state = "BUSY"
    BY <1>1 DEF library_mark
<1>2. CASE l.slot["MARK"].state # "BUSY"
    <2>1. PICK s \in WantSet : s = l.slot["MARK"]
        BY DEF LibSet, Wants
    <2>2. PICK t : t = [s EXCEPT !.state = "IDLE"]
        OBVIOUS
    <2>3. t \in WantSet /\ t.state = "IDLE" /\ t.pending = s.pending /\ t.want = s.want
        BY <2>1, <2>2 DEF WantSet
    <2>4. PICK m : m = [l.slot EXCEPT !["MARK"] = t]
        OBVIOUS
    <2>5. m \in [Wants -> WantSet] /\ m["MARK"] = t /\ \A v \in Wants : v # "MARK" => m[v] = l.slot[v]
        BY <2>3, <2>4 DEF LibSet, Wants
    <2>6. PICK k : k = [l EXCEPT !.slot = m]
        OBVIOUS
    <2>7. k \in LibSet /\ k.slot = m /\ k.current = l.current /\ k.over = l.over
        BY <2>5, <2>6 DEF LibSet
    <2> PICK due \in BOOLEAN : due = TRUE
        OBVIOUS
    <2>8. n = post(k, "MARK", ask, due)
        BY <1>2, <2>1, <2>2, <2>4, <2>6 DEF library_mark, LibSet
    <2>9. SlotInv(l.slot, l.current) /\ (~crossed => TextInv(l.slot, l.current, l.over, p))
        BY DEF LibInv
    <2>10. ~s.pending
        BY <1>2, <2>1, <2>9 DEF SlotInv, Wants
    <2>11. m["ITEM"] = l.slot["ITEM"]
        BY <2>5 DEF Wants
    <2>12. \A v \in Wants : m[v].pending => m[v].state = "BUSY" /\ m[v].want.id # None
        BY <2>3, <2>5, <2>9, <2>10 DEF SlotInv
    <2>13. SlotInv(k.slot, k.current)
        BY ONLY <2>7, <2>9, <2>11, <2>12 DEF SlotInv
    <2>14. ~crossed => TextInv(k.slot, k.current, k.over, p)
        BY ONLY <2>7, <2>9, <2>11 DEF TextInv
    <2>15. LibInv(k, p)
        BY <2>13, <2>14 DEF LibInv
    <2>16. "MARK" \in Wants \ {"ITEM"} /\ k.slot["MARK"].state = "IDLE"
        BY <2>3, <2>5, <2>7 DEF Wants
    <2>17. n \in LibSet /\ LibInv(n, p) /\ n.slot["MARK"].pending /\ n.slot["MARK"].want = ask
        BY ONLY DetailTypeOK, <2>7, <2>8, <2>15, <2>16, p \in Ids, ask \in AskSet, ask.id # None,
                due \in BOOLEAN, OtherPosted
    <2> QED BY <2>17
<1> QED BY <1>1, <1>2

\* What a frame keeps of the library is the library.
LEMMA Kept ==
    ASSUME DetailTypeOK, NEW l \in LibSet, NEW p \in Ids, LibInv(l, p), Keep(l), crossed' = crossed
    PROVE  /\ slot' = l.slot /\ over' = l.over /\ held' = held /\ text' = text /\ near' = near
           /\ slot' \in [Wants -> WantSet] /\ job' \in JobSet /\ over' \in Ids
           /\ job'.kind = job.kind /\ job'.ask = job.ask /\ job'.landed = job.landed
           /\ SlotInv(slot, job.current)' /\ (~crossed' => TextInv(slot, job.current, over, p)')
<1>1. slot' = l.slot /\ over' = l.over /\ held' = held /\ text' = text /\ near' = near
      /\ job' = [job EXCEPT !.current = l.current]
    BY DEF Keep
<1>2. /\ job' \in JobSet /\ job'.kind = job.kind /\ job'.ask = job.ask /\ job'.landed = job.landed
      /\ job'.current = l.current
    BY <1>1 DEF DetailTypeOK, JobSet, LibSet
<1>3. SlotInv(l.slot, l.current) /\ (~crossed => TextInv(l.slot, l.current, l.over, p))
    BY DEF LibInv
<1>4. SlotInv(slot, job.current)'
    BY ONLY <1>1, <1>2, <1>3 DEF SlotInv
<1>5. ~crossed' => TextInv(slot, job.current, over, p)'
    BY ONLY <1>1, <1>2, <1>3, crossed' = crossed DEF TextInv
<1> QED BY <1>1, <1>2, <1>4, <1>5 DEF LibSet

\* An answer to a mark changes the marks that are shown, and nothing else.
Turned(mk, mark, v, w) == [mk EXCEPT ![mark] = v, !.resume = w]

IsTurned(n, mk, mark, v) ==
  n \in MarkSet /\ n[mark] = v /\ \A other \in Marks : other # mark => n[other] = mk[other]

\* What a mark that is turned over is worth.
LEMMA Marked ==
    ASSUME NEW mk \in MarkSet, NEW mark \in Marks, NEW v \in BOOLEAN, NEW w \in BOOLEAN,
           NEW n, n = Turned(mk, mark, v, w)
    PROVE  IsTurned(n, mk, mark, v)
<1>1. CASE mark = "played"
    BY <1>1 DEF MarkSet, Marks, Turned, IsTurned
<1>2. CASE mark = "favorite"
    BY <1>2 DEF MarkSet, Marks, Turned, IsTurned
<1> QED BY <1>1, <1>2 DEF Marks

\* A page that has the answer to its mark stays on its item.
LEMMA MarkTaken ==
    ASSUME NEW d \in PageSet, NEW n, n = take_mark(d)
    PROVE  /\ n \in PageSet /\ n.id = d.id /\ n.start = d.start /\ n.row = d.row
           /\ n.picking = d.picking /\ n.kept = d.kept
<1>1. PICK d1 : d1 = [d EXCEPT !.writing = NoAsk]
    OBVIOUS
<1>2. /\ d1 \in PageSet /\ d1.id = d.id /\ d1.start = d.start /\ d1.row = d.row
      /\ d1.picking = d.picking /\ d1.kept = d.kept
    BY <1>1, IdFacts DEF PageSet
<1>3. PICK w \in AskSet : w = d.writing
    BY DEF PageSet
<1>4. w.mark \in Marks /\ w.on \in BOOLEAN
    BY DEF AskSet
<1>5. PICK mk \in MarkSet : mk = d1.marks
    BY <1>2 DEF PageSet
<1>6. PICK res \in BOOLEAN : res = (mk.resume /\ w.mark # "played")
    BY DEF MarkSet
<1>7. PICK mn : mn = Turned(mk, w.mark, w.on, res)
    OBVIOUS
<1>8. mn \in MarkSet
    BY <1>4, <1>7, Marked DEF IsTurned
<1>9. PICK d2 : d2 = [d1 EXCEPT !.marks = mn]
    OBVIOUS
<1>10. /\ d2 \in PageSet /\ d2.id = d.id /\ d2.start = d.start /\ d2.row = d.row
       /\ d2.picking = d.picking /\ d2.kept = d.kept
    BY <1>2, <1>8, <1>9 DEF PageSet
<1>11. CASE ~(w = NoAsk \/ slot["MARK"].state = "BUSY") /\ slot["MARK"].state = "READY"
    <2>1. n = [d1 EXCEPT !.marks[w.mark] = w.on, !.marks.resume = @ /\ w.mark # "played"]
        BY <1>1, <1>3, <1>11 DEF take_mark
    <2>2. n = [d1 EXCEPT !.marks = mn]
        <3>1. CASE w.mark = "played"
            BY <3>1, <2>1, <1>2, <1>5, <1>6, <1>7 DEF PageSet, MarkSet, Turned
        <3>2. CASE w.mark = "favorite"
            BY <3>2, <2>1, <1>2, <1>5, <1>6, <1>7 DEF PageSet, MarkSet, Turned
        <3> QED BY <3>1, <3>2, <1>4 DEF Marks
    <2> QED BY <1>9, <1>10, <2>2
<1>12. CASE w = NoAsk \/ slot["MARK"].state = "BUSY"
    BY <1>3, <1>12 DEF take_mark
<1>13. CASE ~(w = NoAsk \/ slot["MARK"].state = "BUSY") /\ slot["MARK"].state # "READY"
    BY <1>1, <1>2, <1>3, <1>13 DEF take_mark
<1> QED BY <1>11, <1>12, <1>13

\* What lies beside an episode is one of the rows at hand.
LEMMA Beside ==
    ASSUME DetailTypeOK, NEW l, NEW id, NEW step, NEW e \in adjacent(l, id, step)
    PROVE  /\ e \in Episodes /\ Row(e) \in RowSet /\ Row(e).id = e
<1>1. e \in DOMAIN near
    BY DEF adjacent
<1>2. PICK D \in SUBSET Episodes : near \in [D -> MarkSet]
    BY DEF DetailTypeOK, NearSet
<1>3. e \in Episodes /\ near[e] \in MarkSet
    BY <1>1, <1>2
<1> QED BY <1>3 DEF Row, RowSet

\* A page moved to a neighbour keeps its runs and its neighbours.
LEMMA OnIs ==
    ASSUME NEW d \in PageSet, NEW r \in RowSet
    PROVE  /\ On(d, r) \in PageSet /\ On(d, r).id = r.id /\ On(d, r).start = d.start
           /\ On(d, r).row = d.row /\ On(d, r).picking = d.picking /\ On(d, r).kept = d.kept
<1>1. r.id \in Ids /\ r.marks \in MarkSet
    BY IdFacts DEF RowSet
<1> QED BY <1>1 DEF On, PageSet

\* What a frame has before it looks at the start and the buttons.
LEMMA Begins ==
    ASSUME DetailInv, page # Shut, NEW press, NEW due \in BOOLEAN, NEW b, b = Begun(press, due)
    PROVE  /\ b.d \in PageSet /\ b.d.id \in Episodes /\ b.d.start = page.start /\ b.d.row = page.row
           /\ b.l \in LibSet /\ LibInv(b.l, b.d.id) /\ b.l.slot["MARK"] = slot["MARK"]
           /\ press \in Marks =>
                /\ b.d.id = page.id
                /\ b.d.writing = NoAsk /\ slot["ITEM"].state = "READY" /\ held.id = page.id =>
                     b.d.marks = held.marks
<1>1. DetailTypeOK /\ LibInv(Lib, page.id) /\ page \in PageSet /\ page.id # None
    BY DEF DetailInv, DetailTypeOK
<1>2. page.id \in Episodes
    BY <1>1 DEF PageSet, Ids
<1>3. PICK d1 : d1 = take_mark(page)
    OBVIOUS
<1>4. /\ d1 \in PageSet /\ d1.id = page.id /\ d1.start = page.start /\ d1.row = page.row
    BY <1>1, <1>3, MarkTaken
<1>5. PICK l1 : l1 = library_item(Lib, page.id, due)
    OBVIOUS
<1>6. /\ l1 \in LibSet /\ LibInv(l1, page.id) /\ l1.slot["MARK"] = slot["MARK"]
      /\ slot["ITEM"].state = "READY" /\ slot["ITEM"].have = AskOf(page.id) =>
           l1.slot["ITEM"] = slot["ITEM"]
    BY <1>1, <1>2, <1>5, PartsAre, ItemAsked
<1>7. PICK d2 : d2 = IF li_item(l1, d1.id) /\ d1.writing = NoAsk THEN [d1 EXCEPT !.marks = held.marks] ELSE d1
    OBVIOUS
<1>8. held.marks \in MarkSet
    BY <1>1 DEF DetailTypeOK
<1>9. /\ d2 \in PageSet /\ d2.id = page.id /\ d2.start = page.start /\ d2.row = page.row
      /\ d2.writing = d1.writing
      /\ li_item(l1, page.id) /\ d1.writing = NoAsk => d2.marks = held.marks
    BY <1>4, <1>7, <1>8 DEF PageSet
<1>10. PICK to : to = IF press \in {"next", "prev"} /\ ~d2.picking THEN adjacent(l1, d2.id, press) ELSE {}
    OBVIOUS
<1>11. b = IF to = {} THEN [d |-> d2, l |-> l1]
           ELSE LET e == CHOOSE x \in to : TRUE IN [d |-> On(d2, Row(e)), l |-> StepTo(l1, e, due)]
    BY <1>3, <1>4, <1>5, <1>7, <1>10 DEF Begun
<1>12. CASE to = {}
    <2>1. b.d = d2 /\ b.l = l1
        BY <1>11, <1>12
    <2>2. ASSUME slot["ITEM"].state = "READY", held.id = page.id
          PROVE  li_item(l1, page.id)
        <3>1. slot["ITEM"].have = AskOf(held.id)
            BY <1>1, <2>2, PartsAre DEF LibInv, SlotInv
        <3> QED BY <1>6, <2>2, <3>1 DEF li_item
    <2> QED BY <1>2, <1>6, <1>9, <2>1, <2>2
<1>13. CASE to # {}
    <2>1. PICK e : e = CHOOSE x \in to : TRUE
        OBVIOUS
    <2>2. e \in to
        BY <1>13, <2>1
    <2>3. press \notin Marks /\ e \in adjacent(l1, d2.id, press)
        BY <1>10, <2>2 DEF Marks
    <2>4. e \in Episodes /\ Row(e) \in RowSet /\ Row(e).id = e
        BY <1>1, <2>3, Beside
    <2>5. b = [d |-> On(d2, Row(e)), l |-> StepTo(l1, e, due)]
        BY <1>11, <1>13, <2>1
    <2>6. b.d = On(d2, Row(e)) /\ b.l = StepTo(l1, e, due)
        BY <2>5
    <2>7. b.d \in PageSet /\ b.d.id = e /\ b.d.start = page.start /\ b.d.row = page.row
        BY <1>9, <2>4, <2>6, OnIs
    <2>8. page.id \in Ids
        BY <1>2, IdFacts
    <2>9. b.l \in LibSet /\ LibInv(b.l, e) /\ b.l.slot["MARK"] = slot["MARK"]
        BY <1>1, <1>6, <2>4, <2>6, <2>8, Stepped
    <2> QED BY <2>3, <2>4, <2>7, <2>9
<1> QED BY <1>12, <1>13

\* What the requests leave is what the invariant says of the state.
LEMMA LibPrime ==
    ASSUME SlotInv(slot, job.current)', ~crossed' => TextInv(slot, job.current, over, page.id)'
    PROVE  LibInv(Lib, page.id)'
<1>1. Lib' = [slot |-> slot', current |-> job'.current, over |-> over']
    BY DEF Lib
<1>2. Lib'.slot = slot' /\ Lib'.current = job'.current /\ Lib'.over = over'
    BY <1>1
<1> QED BY <1>2 DEF LibInv

\* And the other way around.
LEMMA LibNow ==
    ASSUME DetailInv
    PROVE  SlotInv(slot, job.current) /\ (~crossed => TextInv(slot, job.current, over, page.id))
BY PartsAre DEF DetailInv, LibInv

\* No page is a page of no item.
LEMMA ShutIs == Shut \in PageSet /\ Shut.id = None /\ Shut.row = 0 /\ Shut.start = FALSE
<1>1. <<>> \in KeptSet
    <2>1. PICK D \in SUBSET {"prev", "next"} : D = {}
        OBVIOUS
    <2>2. <<>> \in [D -> RowSet]
        BY <2>1
    <2> QED BY <2>2 DEF KeptSet
<1>2. Fresh \in MarkSet
    BY DEF Fresh, MarkSet
<1> QED BY <1>1, <1>2, IdFacts DEF Shut, PageSet

\* The start.
LEMMA DetailBegins == DetailInit => DetailInv
<1> SUFFICES ASSUME DetailInit PROVE DetailInv
    OBVIOUS
<1> USE DEF DetailInit
<1>1. Fresh \in MarkSet
    BY DEF Fresh, MarkSet
<1>2. page \in PageSet /\ page.row = 0 /\ ~page.start /\ page.id = None
    BY ShutIs
<1>3. player = [id |-> player.id, by |-> player.by, has |-> player.has]
      /\ player.id = None /\ player.by = None /\ player.has = {}
    BY DEF NoRun
<1>4. /\ slot \in [Wants -> WantSet] /\ \A w \in Wants : ~slot[w].pending
      /\ slot["ITEM"].want = NoAsk /\ slot["ITEM"].state = "IDLE"
    BY IdFacts DEF Wants, WantSet
<1>5. job \in JobSet /\ job.kind = "none" /\ job.ask = NoAsk /\ ~job.landed /\ ~job.current
    BY IdFacts DEF NoJob, JobSet
<1>6. /\ held \in [id : Ids, marks : MarkSet] /\ held.id = None
      /\ server \in [Episodes -> MarkSet] /\ report \in [id : Ids, ended : BOOLEAN]
    BY <1>1, IdFacts DEF NoReport
<1>7. near \in NearSet
    <2>1. PICK D \in SUBSET Episodes : D = {}
        OBVIOUS
    <2>2. near \in [D -> MarkSet]
        BY <2>1
    <2> QED BY <2>2 DEF NearSet
<1>8. left \in [visits : Nat, presses : Nat, runs : Nat, faults : Nat]
    BY DetailAssumption
<1>9. DetailTypeOK
    BY <1>2, <1>3, <1>4, <1>5, <1>6, <1>7, <1>8, IdFacts DEF DetailTypeOK
<1>10. LibInv(Lib, page.id)
    <2>1. slot["ITEM"].want = AskOf(slot["ITEM"].want.id)
        BY <1>4 DEF NoAsk, AskOf
    <2>2. SlotInv(slot, job.current)
        BY ONLY <1>4, <1>5, <2>1 DEF SlotInv
    <2>3. TextInv(slot, job.current, over, page.id)
        BY ONLY <1>2, <1>4, <1>5, over = None DEF TextInv
    <2> QED BY <1>9, <2>2, <2>3, PartsAre DEF LibInv
<1>11. RunInv
    BY <1>2, DetailAssumption DEF RunInv
<1>12. HeldInv
    BY <1>5, <1>6 DEF HeldInv
<1> QED BY <1>3, <1>9, <1>10, <1>11, <1>12 DEF DetailInv, TracksAreTheirs

\* Nothing the page and the library have of the item changes: neither has what
\* is held against the server.
LEMMA HeldStays ==
    ASSUME HeldInv, UNCHANGED <<server, held, text, spoilt>>,
           job'.kind = job.kind, job'.ask = job.ask, job'.landed = job.landed
    PROVE  HeldInv'
BY DEF HeldInv

\* A budget that is spent from is one.
LEMMA SpendIs ==
    ASSUME DetailTypeOK, NEW what \in {"visits", "presses", "runs", "faults"}, Spend(what)
    PROVE  left' \in [visits : Nat, presses : Nat, runs : Nat, faults : Nat]
<1>1. PICK lf \in [visits : Nat, presses : Nat, runs : Nat, faults : Nat] : lf = left
    BY DEF DetailTypeOK
<1>2. lf[what] \in Nat /\ lf[what] > 0 /\ left' = [lf EXCEPT ![what] = @ - 1]
    BY <1>1 DEF Spend
<1>3. PICK n \in Nat : n = lf[what] - 1
    BY <1>2
<1>4. left' = [lf EXCEPT ![what] = n]
    BY <1>2, <1>3
<1>5. CASE what = "visits"
    BY <1>1, <1>4, <1>5
<1>6. CASE what = "presses"
    BY <1>1, <1>4, <1>6
<1>7. CASE what = "runs"
    BY <1>1, <1>4, <1>7
<1>8. CASE what = "faults"
    BY <1>1, <1>4, <1>8
<1> QED BY <1>5, <1>6, <1>7, <1>8

\* A page is opened: what is asked for and kept is its item's, or another's
\* has been crossed.
LEMMA EnterKeeps == ASSUME DetailInv, NEW id \in Episodes, Enter(id) PROVE DetailInv'
<1> USE DEF Enter
<1>1. PICK old \in {Fresh, server[id]} : page' = [Shut EXCEPT !.id = id, !.marks = old]
    OBVIOUS
<1>2. DetailTypeOK /\ RunInv /\ HeldInv
    BY DEF DetailInv
<1>3. old \in MarkSet
    <2>1. server[id] \in MarkSet
        BY <1>2 DEF DetailTypeOK
    <2>2. Fresh \in MarkSet
        BY DEF Fresh, MarkSet
    <2> QED BY <1>1, <2>1, <2>2
<1>4. page' \in PageSet /\ page'.id = id /\ page'.row = 0 /\ ~page'.start /\ id \in Ids /\ id # None
    BY <1>1, <1>3, ShutIs, IdFacts DEF PageSet
<1>5. left' \in [visits : Nat, presses : Nat, runs : Nat, faults : Nat]
    BY <1>2, SpendIs
<1>6. crossed \in BOOLEAN /\ crossed' \in BOOLEAN
    BY <1>2 DEF DetailTypeOK
<1>7. DetailTypeOK'
    BY <1>2, <1>4, <1>5, <1>6 DEF DetailTypeOK, libVars
<1>8. SlotInv(slot, job.current) /\ (~crossed => TextInv(slot, job.current, over, page.id))
    BY LibNow
<1>9. LibInv(Lib, page.id)'
    <2>1. SlotInv(slot, job.current)'
        BY <1>8 DEF SlotInv, libVars
    <2>2. ASSUME ~crossed' PROVE TextInv(slot, job.current, over, page.id)'
        <3>1. ~crossed /\ over \in {None, id} /\ Coming \in {None, id}
            BY <2>2, <1>6
        <3>2. TextInv(slot, job.current, over, page.id)
            BY <1>8, <3>1
        <3>3. slot["ITEM"].pending => slot["ITEM"].want.id = id
            BY <1>2, <3>1 DEF Coming, DetailTypeOK, Wants
        <3>4. job.kind = "ITEM" /\ job.current => job.ask.id = id
            BY <1>2, <3>1, <3>2, <3>3 DEF Coming, DetailTypeOK, TextInv
        <3> QED BY <1>4, <3>1, <3>2, <3>3, <3>4 DEF TextInv, libVars
    <2> QED BY <2>1, <2>2, LibPrime
<1>10. RunInv'
    BY <1>2, <1>4, DetailAssumption DEF RunInv, DetailTypeOK
<1>11. HeldInv'
    BY <1>2, HeldStays DEF libVars
<1> QED BY <1>7, <1>9, <1>10, <1>11 DEF DetailInv, TracksAreTheirs, NoRun

\* The page is left.
LEMMA BackKeeps == ASSUME DetailInv, Back PROVE DetailInv'
<1> USE DEF Back
<1>1. DetailTypeOK /\ RunInv /\ HeldInv
    BY DEF DetailInv
<1>2. /\ page' \in PageSet /\ page'.id \in {None, page.id} /\ page'.row \in {0, page.row}
      /\ page'.start \in {FALSE, page.start}
    BY <1>1, ShutIs DEF PageSet, DetailTypeOK
<1>3. page' # Shut => page'.id # None
    BY <1>1 DEF DetailTypeOK, PageSet
<1>4. DetailTypeOK'
    <2>1. seen' \in BOOLEAN
        OBVIOUS
    <2> QED BY <1>1, <1>2, <1>3, <2>1 DEF DetailTypeOK, libVars
<1>5. LibInv(Lib, page.id)'
    <2>1. SlotInv(slot, job.current) /\ (~crossed => TextInv(slot, job.current, over, page.id))
        BY LibNow
    <2>2. SlotInv(slot, job.current)'
        BY <2>1 DEF SlotInv, libVars
    <2>3. ~crossed' => TextInv(slot, job.current, over, page.id)'
        BY <1>2, <2>1 DEF TextInv, libVars
    <2> QED BY <2>2, <2>3, LibPrime
<1>6. RunInv'
    <2>1. page'.start => page' # Shut /\ page'.row = page.row
        BY <1>1, ShutIs DEF DetailTypeOK, PageSet
    <2> QED BY <1>1, <1>2, <2>1, DetailAssumption DEF RunInv, DetailTypeOK
<1>7. HeldInv'
    BY <1>1, HeldStays DEF libVars
<1> QED BY <1>1, <1>4, <1>5, <1>6, <1>7 DEF DetailInv, TracksAreTheirs

\* Play begins what the page shows, with the tracks that are its own.
LEMMA PlayKeeps ==
    ASSUME DetailInv, NEW b, b.d \in PageSet, b.d.id \in Episodes, b.d.start, b.d.row = page.row,
           page.start, b.l \in LibSet, LibInv(b.l, b.d.id), crossed' = crossed, spoilt' = spoilt,
           server' = server, report' = report, seen' \in BOOLEAN,
           play_this(b), Keep(b.l)
    PROVE  DetailInv'
<1>1. DetailTypeOK /\ RunInv /\ HeldInv
    BY DEF DetailInv
<1>2. PICK kept : kept = [s \in {x \in {"prev", "next"} : adjacent(b.l, b.d.id, x) # {}} |->
                            Row(CHOOSE e \in adjacent(b.l, b.d.id, s) : TRUE)]
    OBVIOUS
<1>3. kept \in KeptSet /\ DOMAIN kept \subseteq {"prev", "next"}
    <2>1. PICK D : D = {x \in {"prev", "next"} : adjacent(b.l, b.d.id, x) # {}}
        OBVIOUS
    <2>2. D \in SUBSET {"prev", "next"}
        BY <2>1
    <2>3. ASSUME NEW s \in D PROVE Row(CHOOSE e \in adjacent(b.l, b.d.id, s) : TRUE) \in RowSet
        <3>1. PICK e : e = CHOOSE x \in adjacent(b.l, b.d.id, s) : TRUE
            OBVIOUS
        <3>2. e \in adjacent(b.l, b.d.id, s)
            BY <2>1, <2>3, <3>1
        <3> QED BY <1>1, <3>1, <3>2, Beside
    <2>4. kept \in [D -> RowSet]
        BY <1>2, <2>1, <2>3
    <2> QED BY <2>2, <2>4 DEF KeptSet
<1>4. /\ page' = [b.d EXCEPT !.start = FALSE, !.from = TRUE, !.kept = kept]
      /\ player' = [id |-> b.d.id, by |-> li_tracks(b.l, b.d.id), has |-> DOMAIN kept]
      /\ Spend("runs") /\ unasked' = unasked
    BY <1>2 DEF play_this
<1>5. page' \in PageSet /\ page'.id = b.d.id /\ page'.row = page.row /\ ~page'.start
    BY <1>3, <1>4 DEF PageSet
<1>6. b.d.id \in Ids /\ b.d.id # None
    BY IdFacts
<1>7. /\ slot' = b.l.slot /\ over' = b.l.over /\ held' = held /\ text' = text /\ near' = near
      /\ slot' \in [Wants -> WantSet] /\ job' \in JobSet /\ over' \in Ids
      /\ job'.kind = job.kind /\ job'.ask = job.ask /\ job'.landed = job.landed
      /\ SlotInv(slot, job.current)' /\ (~crossed' => TextInv(slot, job.current, over, b.d.id)')
    BY <1>1, <1>6, Kept
<1>8. li_tracks(b.l, b.d.id) \in Ids
    BY <1>1, IdFacts DEF li_tracks, DetailTypeOK
<1>9. /\ player' = [id |-> player'.id, by |-> player'.by, has |-> player'.has]
      /\ player'.id = b.d.id /\ player'.by \in Ids /\ player'.has \subseteq {"prev", "next"}
    BY <1>3, <1>4, <1>6, <1>8
<1>10. \A w \in Wants : slot'[w].pending => slot'[w].want.id # None
    BY <1>7 DEF SlotInv
<1>11. left' \in [visits : Nat, presses : Nat, runs : Nat, faults : Nat]
    BY <1>1, <1>4, SpendIs
<1>12. DetailTypeOK'
    <2>1. /\ server' \in [Episodes -> MarkSet] /\ held' \in [id : Ids, marks : MarkSet] /\ text' \in Ids
          /\ near' \in NearSet /\ report' \in [id : Ids, ended : BOOLEAN]
          /\ (report' # NoReport => report'.id # None)
          /\ unasked' \in Nat /\ spoilt' \in BOOLEAN /\ crossed' \in BOOLEAN /\ seen' \in BOOLEAN
        BY <1>1, <1>4, <1>7 DEF DetailTypeOK
    <2>2. IF job'.kind = "none" THEN job'.ask = NoAsk /\ ~job'.landed ELSE job'.ask.id # None
        BY <1>1, <1>7 DEF DetailTypeOK
    <2> QED BY ONLY <1>5, <1>6, <1>7, <1>9, <1>10, <1>11, <2>1, <2>2 DEF DetailTypeOK
<1>13. LibInv(Lib, page.id)'
    <2>1. ~crossed' => TextInv(slot, job.current, over, page.id)'
        BY <1>5, <1>7 DEF TextInv
    <2> QED BY <1>7, <2>1, LibPrime
<1>14. RunInv'
    BY <1>1, <1>4, <1>5 DEF RunInv
<1>15. HeldInv'
    BY <1>1, <1>7, HeldStays
<1>16. TracksAreTheirs'
    <2>1. ~crossed => TextInv(b.l.slot, b.l.current, b.l.over, b.d.id)
        BY DEF LibInv
    <2>2. player'.by = li_tracks(b.l, b.d.id) /\ player'.id = b.d.id
        BY <1>4
    <2>3. ~crossed => li_tracks(b.l, b.d.id) \in {None, b.d.id}
        BY <1>6, <2>1 DEF li_tracks, TextInv
    <2> QED BY <2>2, <2>3 DEF TracksAreTheirs
<1> QED BY <1>12, <1>13, <1>14, <1>15, <1>16 DEF DetailInv

\* What a frame does that begins no run: the page and the library move, the
\* player does not.
LEMMA PageMoves ==
    ASSUME DetailInv, player = NoRun, player' = player, NEW l \in LibSet, NEW p \in Ids, p # None, LibInv(l, p),
           Keep(l), page' \in PageSet, page'.id = p, page'.row \in {0, page.row},
           UNCHANGED <<server, report, spoilt, crossed>>, seen' \in BOOLEAN, unasked' \in {0, unasked},
           left' \in [visits : Nat, presses : Nat, runs : Nat, faults : Nat],
           page'.start => unasked' <= page'.row
    PROVE  DetailInv'
<1>1. DetailTypeOK /\ RunInv /\ HeldInv
    BY DEF DetailInv
<1>2. /\ slot' = l.slot /\ over' = l.over /\ held' = held /\ text' = text /\ near' = near
      /\ slot' \in [Wants -> WantSet] /\ job' \in JobSet /\ over' \in Ids
      /\ job'.kind = job.kind /\ job'.ask = job.ask /\ job'.landed = job.landed
      /\ SlotInv(slot, job.current)' /\ (~crossed' => TextInv(slot, job.current, over, p)')
    BY <1>1, Kept
<1>3. \A w \in Wants : slot'[w].pending => slot'[w].want.id # None
    BY <1>2 DEF SlotInv
<1>4. DetailTypeOK'
    <2>1. /\ server' \in [Episodes -> MarkSet] /\ held' \in [id : Ids, marks : MarkSet] /\ text' \in Ids
          /\ near' \in NearSet /\ report' \in [id : Ids, ended : BOOLEAN]
          /\ (report' # NoReport => report'.id # None)
          /\ unasked' \in Nat /\ spoilt' \in BOOLEAN /\ crossed' \in BOOLEAN
        BY <1>1, <1>2 DEF DetailTypeOK
    <2>2. IF job'.kind = "none" THEN job'.ask = NoAsk /\ ~job'.landed ELSE job'.ask.id # None
        BY <1>1, <1>2 DEF DetailTypeOK
    <2>3. /\ player' = [id |-> player'.id, by |-> player'.by, has |-> player'.has]
          /\ player'.id \in Ids /\ player'.by \in Ids /\ player'.has \subseteq {"prev", "next"}
        BY <1>1 DEF DetailTypeOK
    <2>4. page'.id # None /\ player' = NoRun
        OBVIOUS
    <2> QED BY ONLY page' \in PageSet, seen' \in BOOLEAN, <1>2, <1>3, <2>1, <2>2, <2>3, <2>4,
                left' \in [visits : Nat, presses : Nat, runs : Nat, faults : Nat] DEF DetailTypeOK
<1>5. LibInv(Lib, page.id)'
    <2>1. ~crossed' => TextInv(slot, job.current, over, page.id)'
        BY <1>2 DEF TextInv
    <2> QED BY <1>2, <2>1, LibPrime
<1>6. RunInv'
    <2>1. unasked' <= MaxInARow /\ page'.row <= MaxInARow
        BY <1>1, DetailAssumption DEF RunInv
    <2> QED BY <2>1 DEF RunInv
<1>7. HeldInv'
    BY <1>1, <1>2, HeldStays
<1>8. TracksAreTheirs'
    BY DEF TracksAreTheirs, NoRun
<1> QED BY <1>4, <1>5, <1>6, <1>7, <1>8 DEF DetailInv

\* The page's buttons, after what its frame has made of the library.
LEMMA ButtonsKeep ==
    ASSUME DetailInv, player = NoRun, NEW press, NEW b, b.d \in PageSet, b.d.id \in Episodes,
           b.d.start = page.start, b.d.row = page.row, b.l \in LibSet, LibInv(b.l, b.d.id),
           UNCHANGED <<server, report, spoilt, crossed>>, seen' \in BOOLEAN, Buttons(b, press)
    PROVE  DetailInv'
<1>1. DetailTypeOK /\ RunInv
    BY DEF DetailInv
<1>2. /\ unasked \in Nat /\ left \in [visits : Nat, presses : Nat, runs : Nat, faults : Nat]
      /\ page.row \in Nat /\ (page.start => unasked <= page.row)
    BY <1>1 DEF DetailTypeOK, RunInv, PageSet
<1>3. b.d.id \in Ids /\ b.d.id # None
    BY IdFacts
<1>4. CASE /\ page' = [b.d EXCEPT !.picking = @ /\ li_tracks(b.l, b.d.id) # None]
           /\ Keep(b.l) /\ UNCHANGED <<player, left, unasked>>
    <2>1. PICK v \in BOOLEAN : v = (b.d.picking /\ li_tracks(b.l, b.d.id) # None)
        BY DEF PageSet
    <2>2. page' = [b.d EXCEPT !.picking = v]
        BY <1>4, <2>1
    <2>3. page' \in PageSet /\ page'.id = b.d.id /\ page'.row = page.row /\ page'.start = page.start
        BY <2>2 DEF PageSet
    <2> QED BY <1>2, <1>3, <1>4, <2>3, PageMoves
<1>5. CASE /\ page' = [b.d EXCEPT !.start = TRUE, !.row = 0] /\ unasked' = 0
           /\ Keep(b.l) /\ UNCHANGED <<player, left>>
    <2>1. page' \in PageSet /\ page'.id = b.d.id /\ page'.row = 0
        BY <1>5 DEF PageSet
    <2> QED BY <1>2, <1>3, <1>5, <2>1, PageMoves
<1>6. CASE /\ page' = [b.d EXCEPT !.picking = ~@]
           /\ Keep(b.l) /\ UNCHANGED <<player, left, unasked>>
    <2>1. PICK v \in BOOLEAN : v = ~b.d.picking
        BY DEF PageSet
    <2>2. page' = [b.d EXCEPT !.picking = v]
        BY <1>6, <2>1
    <2>3. page' \in PageSet /\ page'.id = b.d.id /\ page'.row = page.row /\ page'.start = page.start
        BY <2>2 DEF PageSet
    <2> QED BY <1>2, <1>3, <1>6, <2>3, PageMoves
<1>7. CASE press \in Marks /\ ask_mark(b, press)
    <2>1. PICK ask : ask = [id |-> b.d.id, mark |-> press, on |-> ~b.d.marks[press]]
        OBVIOUS
    <2>2. ask \in AskSet /\ ask.id # None
        BY <1>3, <1>7, <2>1 DEF AskSet
    <2>3. PICK l : l = library_mark(b.l, ask)
        OBVIOUS
    <2>4. l \in LibSet /\ LibInv(l, b.d.id)
        BY <1>1, <1>3, <2>2, <2>3, MarkAsked
    <2>5. /\ Spend("presses") /\ Keep(l) /\ UNCHANGED <<player, unasked>>
          /\ page' = [b.d EXCEPT !.writing = IF l # b.l THEN ask ELSE NoAsk]
        BY <1>7, <2>1, <2>3 DEF ask_mark
    <2>6. PICK w \in AskSet : w = IF l # b.l THEN ask ELSE NoAsk
        BY <2>2, IdFacts
    <2>7. page' = [b.d EXCEPT !.writing = w]
        BY <2>5, <2>6
    <2>8. page' \in PageSet /\ page'.id = b.d.id /\ page'.row = page.row /\ page'.start = page.start
        BY <2>7 DEF PageSet
    <2>9. left' \in [visits : Nat, presses : Nat, runs : Nat, faults : Nat]
        BY <1>1, <2>5, SpendIs
    <2>10. UNCHANGED <<player, unasked>> /\ (page'.start => unasked' <= page'.row)
        BY <1>2, <2>5, <2>8
    <2> QED BY ONLY DetailInv, player = NoRun, UNCHANGED <<server, report, spoilt, crossed>>, seen' \in BOOLEAN,
                <1>3, <2>4, <2>5, <2>8, <2>9, <2>10, PageMoves
<1> QED BY <1>4, <1>5, <1>6, <1>7 DEF Buttons

\* A frame of the page, with or without a refresh that is due.
LEMMA FrameKeeps == ASSUME DetailInv, NEW press, NEW due \in BOOLEAN, Frame(press, due) PROVE DetailInv'
<1>1. PICK b : b = Begun(press, due)
    OBVIOUS
<1>2. /\ page # Shut /\ player = NoRun /\ seen' \in BOOLEAN
      /\ IF Starts(b) THEN play_this(b) /\ Keep(b.l) ELSE Buttons(b, press)
      /\ UNCHANGED <<server, report, spoilt, crossed>>
    BY <1>1 DEF Frame
<1>3. /\ b.d \in PageSet /\ b.d.id \in Episodes /\ b.d.start = page.start /\ b.d.row = page.row
      /\ b.l \in LibSet /\ LibInv(b.l, b.d.id)
    BY <1>1, <1>2, Begins
<1>4. CASE Starts(b)
    BY <1>2, <1>3, <1>4, PlayKeeps DEF Starts
<1>5. CASE ~Starts(b)
    BY <1>2, <1>3, <1>5, ButtonsKeep
<1> QED BY <1>4, <1>5

\* The player hands back a result: the page stays, or goes on with a neighbour.
LEMMA ReturnsKeep ==
    ASSUME DetailInv, NEW r \in {"ENDED", "STOPPED", "PREV", "NEXT", "FAILED"}, PlayerReturns(r)
    PROVE  DetailInv' /\ slot'["MARK"] = slot["MARK"]
<1>1. DetailTypeOK /\ RunInv /\ HeldInv
    BY DEF DetailInv
<1>2. PICK mk : mk = CASE r = "ENDED"  -> [page.marks EXCEPT !.played = TRUE, !.resume = FALSE]
                       [] r = "FAILED" -> page.marks
                       [] OTHER        -> [page.marks EXCEPT !.resume = TRUE]
    OBVIOUS
<1>3. PICK d0 : d0 = [page EXCEPT !.from = FALSE, !.marks = mk]
    OBVIOUS
<1>4. PICK way : way = CASE r = "NEXT" -> "next" [] r = "PREV" -> "prev"
                         [] r = "ENDED" /\ page.row < MaxInARow -> "next" [] OTHER -> "stay"
    OBVIOUS
<1>5. PICK fresh : fresh = IF way = "stay" THEN {} ELSE adjacent(Lib, page.id, way)
    OBVIOUS
<1>6. PICK step : step = IF fresh # {} THEN {Row(CHOOSE e \in fresh : TRUE)}
                         ELSE IF way \in DOMAIN page.kept THEN {page.kept[way]} ELSE {}
    OBVIOUS
<1>7. /\ player # NoRun /\ player' = NoRun
      /\ report' = [id |-> player.id, ended |-> r = "ENDED"]
      /\ UNCHANGED <<server, left, spoilt, crossed>>
      /\ IF step = {}
         THEN /\ page' = [d0 EXCEPT !.row = 0]
              /\ seen' = (r = "ENDED" \/ seen)
              /\ UNCHANGED <<libVars, unasked>>
         ELSE LET to == CHOOSE x \in step : TRUE IN
              /\ page' = [On(d0, to) EXCEPT !.start = TRUE, !.row = IF Counted(r) THEN @ + 1 ELSE @]
              /\ Keep(StepTo(Lib, to.id, FALSE))
              /\ seen' = FALSE
              /\ unasked' = IF r = "ENDED" THEN unasked + 1 ELSE 0
    <2>1. d0 = [page EXCEPT !.from = FALSE,
                 !.marks = CASE r = "ENDED"  -> [@ EXCEPT !.played = TRUE, !.resume = FALSE]
                             [] r = "FAILED" -> @
                             [] OTHER        -> [@ EXCEPT !.resume = TRUE]]
        BY <1>2, <1>3
    <2> QED BY <1>4, <1>5, <1>6, <2>1 DEF PlayerReturns
<1>8. /\ page \in PageSet /\ page.marks \in MarkSet /\ page.id \in Ids /\ page.row \in Nat /\ page.kept \in KeptSet
      /\ unasked \in Nat /\ page.id # None /\ player.id \in Ids
    BY <1>1, <1>7 DEF DetailTypeOK, PageSet
<1>9. mk \in MarkSet
    <2>1. [page.marks EXCEPT !.played = TRUE, !.resume = FALSE] \in MarkSet
        BY <1>8 DEF MarkSet
    <2>2. [page.marks EXCEPT !.resume = TRUE] \in MarkSet
        BY <1>8 DEF MarkSet
    <2> QED BY <1>2, <1>8, <2>1, <2>2
<1>10. d0 \in PageSet /\ d0.id = page.id /\ d0.start = page.start /\ d0.row = page.row
    BY <1>3, <1>8, <1>9 DEF PageSet
<1>11. /\ player' = [id |-> player'.id, by |-> player'.by, has |-> player'.has]
       /\ player'.id = None /\ player'.by = None /\ player'.has = {}
    BY <1>7 DEF NoRun
<1>12. player.id # None
    BY <1>1, <1>7 DEF DetailTypeOK
<1>13. report' \in [id : Ids, ended : BOOLEAN] /\ report'.id # None
    BY <1>7, <1>8, <1>12
<1>14. TracksAreTheirs'
    BY <1>11 DEF TracksAreTheirs
<1>15. ~page.start /\ unasked <= page.row /\ page.row <= MaxInARow
    BY <1>1, <1>7 DEF RunInv
<1>16. CASE step = {}
    <2>1. page' \in PageSet /\ page'.id = page.id /\ page'.row = 0 /\ ~page'.start
        BY <1>7, <1>10, <1>15, <1>16 DEF PageSet
    <2>2. UNCHANGED <<libVars, unasked>> /\ seen' \in BOOLEAN
        <3>1. seen' = (r = "ENDED" \/ seen) /\ UNCHANGED <<libVars, unasked>>
            BY <1>7, <1>16
        <3> QED BY <3>1
    <2>3. DetailTypeOK'
        <3>1. page'.id # None
            BY <1>8, <2>1
        <3>2. /\ player'.id \in Ids /\ player'.by \in Ids /\ player'.has \subseteq {"prev", "next"}
            BY <1>11, IdFacts
        <3>3. player' = NoRun
            BY <1>7
        <3> QED BY <1>1, <1>7, <1>11, <1>13, <2>1, <2>2, <3>1, <3>2, <3>3 DEF DetailTypeOK, libVars
    <2>4. LibInv(Lib, page.id)'
        <3>1. SlotInv(slot, job.current) /\ (~crossed => TextInv(slot, job.current, over, page.id))
            BY LibNow
        <3>2. SlotInv(slot, job.current)'
            BY <2>2, <3>1 DEF SlotInv, libVars
        <3>3. ~crossed' => TextInv(slot, job.current, over, page.id)'
            BY <1>7, <2>1, <2>2, <3>1 DEF TextInv, libVars
        <3> QED BY <3>2, <3>3, LibPrime
    <2>5. RunInv'
        BY <1>1, <1>7, <2>1, <2>2, DetailAssumption DEF RunInv
    <2>6. HeldInv'
        BY <1>1, <1>7, <2>2, HeldStays DEF libVars
    <2> QED BY <1>14, <2>2, <2>3, <2>4, <2>5, <2>6 DEF DetailInv, libVars
<1>17. CASE step # {}
    <2>1. PICK to : to = CHOOSE x \in step : TRUE
        OBVIOUS
    <2>2. to \in step
        BY <1>17, <2>1
    <2>3. PICK D \in SUBSET {"prev", "next"} : page.kept \in [D -> RowSet]
        BY <1>8 DEF KeptSet
    <2>4. to \in RowSet
        <3>1. CASE fresh # {}
            <4>1. PICK e : e = CHOOSE x \in fresh : TRUE
                OBVIOUS
            <4>2. e \in fresh /\ step = {Row(e)}
                BY <1>6, <3>1, <4>1
            <4>3. e \in adjacent(Lib, page.id, way)
                BY <1>5, <4>2
            <4> QED BY <1>1, <2>2, <4>2, <4>3, Beside
        <3>2. CASE fresh = {}
            <4>1. way \in DOMAIN page.kept /\ to = page.kept[way]
                BY <1>6, <1>17, <2>2, <3>2
            <4> QED BY <2>3, <4>1
        <3> QED BY <3>1, <3>2
    <2>5. way # "stay"
        BY <1>5, <1>6, <1>17, <2>3
    <2>6. r = "ENDED" => page.row < MaxInARow
        BY <1>4, <2>5
    <2>7. to.id \in Episodes /\ to.id \in Ids /\ to.id # None
        BY <2>4, IdFacts DEF RowSet
    <2>8. PICK d1 : d1 = On(d0, to)
        OBVIOUS
    <2>9. d1 \in PageSet /\ d1.id = to.id /\ d1.row = page.row
        BY <1>10, <2>4, <2>8, OnIs
    <2>10. PICK n : n = IF r = "ENDED" THEN page.row + 1 ELSE page.row
        OBVIOUS
    <2>11. n \in Nat /\ n <= MaxInARow
        BY <1>8, <1>15, <2>6, <2>10, DetailAssumption
    <2>12. page' = [d1 EXCEPT !.start = TRUE, !.row = n]
        BY <1>7, <1>17, <2>1, <2>8, <2>9, <2>10 DEF Counted
    <2>13. page' \in PageSet /\ page'.id = to.id /\ page'.row = n
        BY <2>9, <2>11, <2>12 DEF PageSet
    <2>14. PICK due \in BOOLEAN : due = FALSE
        OBVIOUS
    <2>15. PICK l : l = StepTo(Lib, to.id, due)
        OBVIOUS
    <2>16. Lib \in LibSet /\ LibInv(Lib, page.id)
        BY <1>1, PartsAre DEF DetailInv
    <2>17. l \in LibSet /\ LibInv(l, to.id) /\ l.slot["MARK"] = slot["MARK"]
        <3>1. Lib.slot = slot
            BY <1>1, PartsAre
        <3> QED BY ONLY <1>1, <1>8, <2>7, <2>15, <2>16, <3>1, due \in BOOLEAN, Stepped
    <2>18. Keep(l) /\ seen' = FALSE /\ unasked' = IF r = "ENDED" THEN unasked + 1 ELSE 0
        BY <1>7, <1>17, <2>1, <2>14, <2>15
    <2>19. /\ slot' = l.slot /\ over' = l.over /\ held' = held /\ text' = text /\ near' = near
           /\ slot' \in [Wants -> WantSet] /\ job' \in JobSet /\ over' \in Ids
           /\ job'.kind = job.kind /\ job'.ask = job.ask /\ job'.landed = job.landed
           /\ SlotInv(slot, job.current)' /\ (~crossed' => TextInv(slot, job.current, over, to.id)')
        <3>1. crossed' = crossed
            BY <1>7
        <3> QED BY ONLY <1>1, <2>7, <2>17, <2>18, <3>1, Kept
    <2>20. \A w \in Wants : slot'[w].pending => slot'[w].want.id # None
        BY <2>19 DEF SlotInv
    <2>21. unasked' \in Nat /\ unasked' <= n
        BY <1>8, <1>15, <2>10, <2>18
    <2>22. DetailTypeOK'
        <3>1. /\ server' \in [Episodes -> MarkSet] /\ held' \in [id : Ids, marks : MarkSet] /\ text' \in Ids
              /\ near' \in NearSet /\ spoilt' \in BOOLEAN /\ crossed' \in BOOLEAN /\ seen' \in BOOLEAN
              /\ left' \in [visits : Nat, presses : Nat, runs : Nat, faults : Nat]
            BY <1>1, <1>7, <2>18, <2>19 DEF DetailTypeOK
        <3>2. IF job'.kind = "none" THEN job'.ask = NoAsk /\ ~job'.landed ELSE job'.ask.id # None
            BY <1>1, <2>19 DEF DetailTypeOK
        <3>3. player'.id \in Ids /\ player'.by \in Ids /\ player'.has \subseteq {"prev", "next"}
            BY <1>11, IdFacts
        <3>4. page'.id # None
            BY <2>7, <2>13
        <3> QED BY ONLY <1>7, <1>11, <1>13, <2>13, <2>19, <2>20, <2>21, <3>1, <3>2, <3>3, <3>4 DEF DetailTypeOK
    <2>23. LibInv(Lib, page.id)'
        <3>1. ~crossed' => TextInv(slot, job.current, over, page.id)'
            BY <2>13, <2>19 DEF TextInv
        <3> QED BY <2>19, <3>1, LibPrime
    <2>24. RunInv'
        <3>1. unasked' <= MaxInARow
            BY <2>11, <2>21, DetailAssumption
        <3> QED BY <1>7, <2>11, <2>13, <2>21, <3>1 DEF RunInv
    <2>25. HeldInv'
        BY <1>1, <1>7, <2>19, HeldStays
    <2> QED BY <1>14, <2>17, <2>19, <2>22, <2>23, <2>24, <2>25 DEF DetailInv
<1> QED BY <1>16, <1>17

\* The worker takes what is asked for.
LEMMA TakeKeeps == ASSUME DetailInv, NEW w \in Wants, Take(w) PROVE DetailInv'
<1> USE DEF Take
<1>1. DetailTypeOK /\ RunInv /\ HeldInv
    BY DEF DetailInv
<1>2. SlotInv(slot, job.current) /\ (~crossed => TextInv(slot, job.current, over, page.id))
    BY LibNow
<1>3. PICK s \in WantSet : s = slot[w]
    BY <1>1 DEF DetailTypeOK
<1>4. PICK t : t = [s EXCEPT !.pending = FALSE]
    OBVIOUS
<1>5. t \in WantSet /\ ~t.pending /\ t.state = s.state /\ t.want = s.want /\ t.have = s.have
    BY <1>3, <1>4 DEF WantSet
<1>6. slot' = [slot EXCEPT ![w] = t]
    BY <1>1, <1>3, <1>4 DEF DetailTypeOK
<1>7. /\ slot' \in [Wants -> WantSet] /\ slot'[w] = t
      /\ \A v \in Wants : v # w => slot'[v] = slot[v]
    BY <1>1, <1>5, <1>6 DEF DetailTypeOK
<1>8. s.pending /\ s.state = "BUSY" /\ s.want.id # None /\ s.want \in AskSet
    BY <1>2, <1>3 DEF SlotInv, WantSet
<1>9. /\ job' = [kind |-> w, ask |-> s.want, current |-> TRUE, landed |-> FALSE]
      /\ job.kind = "none"
    BY <1>3 DEF NoJob
<1>10. /\ job' \in JobSet /\ job'.kind = w /\ job'.ask = s.want /\ job'.current = TRUE
       /\ job'.landed = FALSE /\ w # "none"
    BY <1>8, <1>9 DEF JobSet, Wants
<1>11. \A v \in Wants : slot'[v].pending => slot'[v].state = "BUSY" /\ slot'[v].want.id # None
    BY <1>2, <1>5, <1>7 DEF SlotInv
<1>12. DetailTypeOK'
    <2>1. \A v \in Wants : slot'[v].pending => slot'[v].want.id # None
        BY <1>11
    <2> QED BY <1>1, <1>7, <1>8, <1>10, <2>1 DEF DetailTypeOK, histVars
<1>13. LibInv(Lib, page.id)'
    <2>1. CASE w = "ITEM"
        <3>1. SlotInv(slot, job.current)'
            BY ONLY <1>2, <1>3, <1>5, <1>7, <1>8, <1>10, <1>11, <2>1, held' = held DEF SlotInv, Wants
        <3>2. ASSUME ~crossed' PROVE TextInv(slot, job.current, over, page.id)'
            <4>1. TextInv(slot, job.current, over, page.id)
                BY <1>2, <3>2 DEF histVars
            <4> QED BY ONLY <1>3, <1>5, <1>7, <1>8, <1>10, <2>1, <4>1, UNCHANGED <<text, over, page>> DEF TextInv
        <3> QED BY <3>1, <3>2, LibPrime
    <2>2. CASE w # "ITEM"
        <3>1. slot'["ITEM"] = slot["ITEM"]
            BY <1>7, <2>2 DEF Wants
        <3>2. SlotInv(slot, job.current)'
            BY ONLY <1>2, <1>10, <1>11, <2>2, <3>1, held' = held DEF SlotInv, Wants
        <3>3. ASSUME ~crossed' PROVE TextInv(slot, job.current, over, page.id)'
            <4>1. TextInv(slot, job.current, over, page.id)
                BY <1>2, <3>3 DEF histVars
            <4> QED BY ONLY <1>10, <2>2, <3>1, <4>1, UNCHANGED <<text, over, page>> DEF TextInv
        <3> QED BY <3>2, <3>3, LibPrime
    <2> QED BY <2>1, <2>2
<1>14. RunInv'
    BY <1>1 DEF RunInv, histVars
<1>15. HeldInv'
    BY <1>1, <1>9, <1>10 DEF HeldInv, histVars
<1> QED BY <1>12, <1>13, <1>14, <1>15 DEF DetailInv, TracksAreTheirs, histVars

\* What the worker reads is written where it goes.
LEMMA LandedIs ==
    ASSUME DetailTypeOK, job.kind # "none", NEW j, j = [job EXCEPT !.landed = TRUE]
    PROVE  /\ j \in JobSet /\ j.kind = job.kind /\ j.ask = job.ask /\ j.current = job.current /\ j.landed
           /\ job.ask.id \in Episodes /\ job.ask.mark \in Marks /\ job.ask.on \in BOOLEAN
<1>1. job \in JobSet /\ job.ask \in AskSet /\ job.ask.id # None
    BY DEF DetailTypeOK, JobSet
<1>2. /\ j \in JobSet /\ j.kind = job.kind /\ j.ask = job.ask /\ j.current = job.current /\ j.landed
    BY <1>1 DEF JobSet
<1> QED BY <1>1, <1>2 DEF AskSet, Ids

\* The server answers for an item.
LEMMA ItemLandsKeeps == ASSUME DetailInv, ItemLands PROVE DetailInv'
<1> USE DEF ItemLands
<1>1. DetailTypeOK /\ RunInv /\ HeldInv
    BY DEF DetailInv
<1>2. SlotInv(slot, job.current) /\ (~crossed => TextInv(slot, job.current, over, page.id))
    BY LibNow
<1>3. /\ job' \in JobSet /\ job'.kind = job.kind /\ job'.ask = job.ask /\ job'.current = job.current /\ job'.landed
      /\ job.ask.id \in Episodes
    BY <1>1, LandedIs
<1>4. server[job.ask.id] \in MarkSet
    BY <1>1, <1>3 DEF DetailTypeOK
<1>5. /\ held' \in [id : Ids, marks : MarkSet] /\ held'.id = job.ask.id
      /\ held'.marks = server[job.ask.id]
    BY <1>3, <1>4, IdFacts
<1>6. DetailTypeOK'
    <2>1. text' \in Ids /\ spoilt' \in BOOLEAN
        BY <1>3, IdFacts
    <2> QED BY <1>1, <1>3, <1>5, <2>1 DEF DetailTypeOK
<1>7. LibInv(Lib, page.id)'
    <2>1. SlotInv(slot, job.current)'
        BY <1>2, <1>3 DEF SlotInv
    <2>2. ~crossed' => TextInv(slot, job.current, over, page.id)'
        BY <1>2, <1>3 DEF TextInv
    <2> QED BY <2>1, <2>2, LibPrime
<1>8. RunInv'
    BY <1>1 DEF RunInv
<1>9. HeldInv'
    BY <1>3, <1>5 DEF HeldInv
<1> QED BY <1>6, <1>7, <1>8, <1>9 DEF DetailInv, TracksAreTheirs

\* The server answers for the neighbours.
LEMMA AdjacentLandsKeeps == ASSUME DetailInv, AdjacentLands PROVE DetailInv'
<1> USE DEF AdjacentLands, histVars
<1>1. DetailTypeOK /\ RunInv /\ HeldInv
    BY DEF DetailInv
<1>2. SlotInv(slot, job.current) /\ (~crossed => TextInv(slot, job.current, over, page.id))
    BY LibNow
<1>3. /\ job' \in JobSet /\ job'.kind = job.kind /\ job'.ask = job.ask /\ job'.current = job.current /\ job'.landed
    BY <1>1, LandedIs
<1>4. near' \in NearSet
    <2>1. PICK D \in SUBSET Episodes : D = Episodes \cap {job.ask.id - 1, job.ask.id, job.ask.id + 1}
        OBVIOUS
    <2>2. \A e \in D : server[e] \in MarkSet
        BY <1>1 DEF DetailTypeOK
    <2>3. near' = [e \in D |-> server[e]]
        BY <2>1
    <2>4. near' \in [D -> MarkSet]
        BY <2>2, <2>3
    <2> QED BY <2>4 DEF NearSet
<1>5. DetailTypeOK'
    BY <1>1, <1>3, <1>4 DEF DetailTypeOK
<1>6. LibInv(Lib, page.id)'
    <2>1. SlotInv(slot, job.current)'
        BY <1>2, <1>3 DEF SlotInv
    <2>2. ~crossed' => TextInv(slot, job.current, over, page.id)'
        BY <1>2, <1>3 DEF TextInv
    <2> QED BY <2>1, <2>2, LibPrime
<1>7. RunInv'
    BY <1>1 DEF RunInv
<1>8. HeldInv'
    BY <1>1, <1>3 DEF HeldInv
<1> QED BY <1>5, <1>6, <1>7, <1>8 DEF DetailInv, TracksAreTheirs

\* The server takes a mark.
LEMMA MarkLandsKeeps == ASSUME DetailInv, MarkLands PROVE DetailInv'
<1> USE DEF MarkLands, histVars
<1>1. DetailTypeOK /\ RunInv /\ HeldInv
    BY DEF DetailInv
<1>2. SlotInv(slot, job.current) /\ (~crossed => TextInv(slot, job.current, over, page.id))
    BY LibNow
<1>3. /\ job' \in JobSet /\ job'.kind = job.kind /\ job'.ask = job.ask /\ job'.current = job.current /\ job'.landed
      /\ job.ask.id \in Episodes /\ job.ask.mark \in Marks /\ job.ask.on \in BOOLEAN
    BY <1>1, LandedIs
<1>4. PICK id \in Episodes, mark \in Marks, on \in BOOLEAN : id = job.ask.id /\ mark = job.ask.mark /\ on = job.ask.on
    BY <1>3
<1>5. PICK mk \in MarkSet : mk = server[id]
    BY <1>1 DEF DetailTypeOK
<1>6. PICK res \in BOOLEAN : res = (mk.resume /\ mark # "played")
    BY DEF MarkSet
<1>7. PICK mn : mn = Turned(mk, mark, on, res)
    OBVIOUS
<1>8. mn \in MarkSet /\ mn[mark] = on /\ \A other \in Marks : other # mark => mn[other] = mk[other]
    <2>1. IsTurned(mn, mk, mark, on)
        BY ONLY mk \in MarkSet, mark \in Marks, on \in BOOLEAN, res \in BOOLEAN, <1>7, Marked
    <2> QED BY <2>1 DEF IsTurned
<1>9. server \in [Episodes -> MarkSet]
    BY <1>1 DEF DetailTypeOK
<1>10. server' = [server EXCEPT ![id] = mn]
    <2>1. server' = [server EXCEPT ![id][mark] = on, ![id].resume = @ /\ mark # "played"]
        BY <1>4
    <2>2. CASE mark = "played"
        BY <1>5, <1>6, <1>7, <1>9, <2>1, <2>2 DEF MarkSet, Turned
    <2>3. CASE mark = "favorite"
        BY <1>5, <1>6, <1>7, <1>9, <2>1, <2>3 DEF MarkSet, Turned
    <2> QED BY <2>2, <2>3 DEF Marks
<1>11. /\ server' \in [Episodes -> MarkSet] /\ server'[id] = mn
       /\ \A e \in Episodes : e # id => server'[e] = server[e]
    BY <1>8, <1>9, <1>10
<1>12. DetailTypeOK'
    BY <1>1, <1>3, <1>11 DEF DetailTypeOK
<1>13. LibInv(Lib, page.id)'
    <2>1. SlotInv(slot, job.current)'
        BY <1>2, <1>3 DEF SlotInv
    <2>2. ~crossed' => TextInv(slot, job.current, over, page.id)'
        BY <1>2, <1>3 DEF TextInv
    <2> QED BY <2>1, <2>2, LibPrime
<1>14. RunInv'
    BY <1>1 DEF RunInv
<1>15. HeldInv'
    <2>1. job'.kind # "ITEM"
        BY <1>3
    <2>2. server'[job'.ask.id][job'.ask.mark] = job'.ask.on
        BY <1>3, <1>4, <1>8, <1>11
    <2>3. ASSUME ~spoilt', held'.id # None, NEW other \in Marks
          PROVE  \/ held'.marks[other] = server'[held'.id][other]
                 \/ /\ job'.kind = "MARK" /\ job'.landed /\ job'.ask.id = held'.id
                    /\ job'.ask.mark = other
        <3>1. held.id \in Episodes /\ held' = held
            BY <1>1, <2>3 DEF DetailTypeOK, Ids
        <3>2. held.marks[other] = server[held.id][other]
            BY <1>1, <2>3 DEF HeldInv
        <3>3. CASE held.id = id /\ other = mark
            BY <1>3, <1>4, <3>1, <3>3
        <3>4. CASE held.id = id /\ other # mark
            <4>1. server'[id][other] = mk[other] /\ server[id][other] = mk[other]
                BY <1>5, <1>8, <1>11, <3>4
            <4> QED BY ONLY <3>1, <3>2, <3>4, <4>1
        <3>5. CASE held.id # id
            BY <1>11, <3>1, <3>2, <3>5
        <3> QED BY <3>3, <3>4, <3>5
    <2> QED BY <2>1, <2>2, <2>3 DEF HeldInv
<1> QED BY <1>12, <1>13, <1>14, <1>15 DEF DetailInv, TracksAreTheirs

\* The mark that landed is what the held copy has of it.
LEMMA HeldMarkIs ==
    ASSUME DetailTypeOK, job.kind # "none", NEW h, h = HeldMark(job.ask)
    PROVE  /\ h \in [id : Ids, marks : MarkSet] /\ h.id = held.id
           /\ held.id = job.ask.id =>
                /\ h.marks[job.ask.mark] = job.ask.on
                /\ \A other \in Marks : other # job.ask.mark => h.marks[other] = held.marks[other]
           /\ held.id # job.ask.id => h = held
<1>1. job.ask.mark \in Marks /\ job.ask.on \in BOOLEAN
    BY DEF DetailTypeOK, JobSet, AskSet
<1>2. PICK mark \in Marks, on \in BOOLEAN : mark = job.ask.mark /\ on = job.ask.on
    BY <1>1
<1>3. PICK hd \in [id : Ids, marks : MarkSet] : hd = held
    BY DEF DetailTypeOK
<1>4. PICK mk \in MarkSet : mk = hd.marks
    BY <1>3
<1>5. PICK res \in BOOLEAN : res = (mk.resume /\ mark # "played")
    BY DEF MarkSet
<1>6. PICK mn : mn = Turned(mk, mark, on, res)
    OBVIOUS
<1>7. mn \in MarkSet /\ mn[mark] = on /\ \A other \in Marks : other # mark => mn[other] = mk[other]
    <2>1. IsTurned(mn, mk, mark, on)
        BY ONLY mk \in MarkSet, mark \in Marks, on \in BOOLEAN, res \in BOOLEAN, <1>6, Marked
    <2> QED BY <2>1 DEF IsTurned
<1>8. CASE held.id = job.ask.id
    <2>1. h = [hd EXCEPT !.marks[mark] = on, !.marks.resume = @ /\ mark # "played"]
        BY <1>2, <1>3, <1>8 DEF HeldMark
    <2>2. h = [hd EXCEPT !.marks = mn]
        <3>1. CASE mark = "played"
            BY <2>1, <3>1, <1>3, <1>4, <1>5, <1>6 DEF MarkSet, Turned
        <3>2. CASE mark = "favorite"
            BY <2>1, <3>2, <1>3, <1>4, <1>5, <1>6 DEF MarkSet, Turned
        <3> QED BY <3>1, <3>2 DEF Marks
    <2>3. h \in [id : Ids, marks : MarkSet] /\ h.id = hd.id /\ h.marks = mn
        BY <1>3, <1>7, <2>2
    <2> QED BY <1>2, <1>3, <1>4, <1>7, <1>8, <2>3
<1>9. CASE held.id # job.ask.id
    BY <1>3, <1>9 DEF HeldMark
<1> QED BY <1>8, <1>9

\* The end of a fetch: what landed and counts is the answer.
LEMMA DoneKeeps == ASSUME DetailInv, NEW ok \in BOOLEAN, Done(ok) PROVE DetailInv'
<1>1. DetailTypeOK /\ RunInv /\ HeldInv
    BY DEF DetailInv
<1>2. SlotInv(slot, job.current) /\ (~crossed => TextInv(slot, job.current, over, page.id))
    BY LibNow
<1>3. PICK w : w = job.kind
    OBVIOUS
<1>4. /\ job # NoJob /\ ok = job.landed
      /\ (ok /\ UNCHANGED left) \/ (~ok /\ Spend("faults"))
      /\ over' = IF w = "ITEM" /\ ok /\ job.current THEN job.ask.id ELSE over
      /\ held' = IF w = "MARK" /\ ok /\ job.current THEN HeldMark(job.ask) ELSE held
      /\ spoilt' = (spoilt \/ (w = "MARK" /\ ok /\ ~job.current))
      /\ near' = IF w = "ADJACENT" /\ ~ok THEN <<>> ELSE near
      /\ slot' = IF ~job.current THEN slot
                 ELSE [slot EXCEPT ![w] = [slot[w] EXCEPT
                     !.have = IF ok /\ w # "MARK" THEN job.ask ELSE @,
                     !.state = IF slot[w].pending THEN "BUSY" ELSE IF ok THEN "READY" ELSE "FAILED"]]
      /\ job' = NoJob
      /\ UNCHANGED <<server, text, page, player, report, unasked, crossed, seen>>
    BY <1>3 DEF Done
<1>5. w \in Wants
    <2>1. job \in JobSet /\ job = [kind |-> job.kind, ask |-> job.ask, current |-> job.current, landed |-> job.landed]
        BY <1>1 DEF DetailTypeOK, JobSet
    <2>2. job.kind = "none" => job = NoJob
        <3>1. ASSUME job.kind = "none" PROVE job.ask = NoAsk /\ job.current = FALSE /\ job.landed = FALSE
            BY <1>1, <1>2, <2>1, <3>1 DEF DetailTypeOK, SlotInv, JobSet
        <3> QED BY <2>1, <3>1 DEF NoJob
    <2> QED BY <1>3, <1>4, <2>1, <2>2 DEF JobSet
<1>6. PICK s \in WantSet : s = slot[w]
    BY <1>1, <1>5 DEF DetailTypeOK
<1>7. job.kind # "none" /\ job.ask \in AskSet /\ job.ask.id \in Episodes /\ job.current \in BOOLEAN
    BY <1>1, <1>3, <1>5, LandedIs DEF DetailTypeOK, JobSet, Wants
<1>8. PICK hv \in AskSet : hv = IF ok /\ w # "MARK" THEN job.ask ELSE s.have
    BY <1>6, <1>7 DEF WantSet
<1>9. PICK st \in {"BUSY", "READY", "FAILED"} :
          st = IF s.pending THEN "BUSY" ELSE IF ok THEN "READY" ELSE "FAILED"
    OBVIOUS
<1>10. PICK t : t = [s EXCEPT !.have = hv, !.state = st]
    OBVIOUS
<1>11. t \in WantSet /\ t.pending = s.pending /\ t.want = s.want /\ t.have = hv /\ t.state = st
    BY <1>6, <1>8, <1>9, <1>10 DEF WantSet
<1>12. slot' = IF ~job.current THEN slot ELSE [slot EXCEPT ![w] = t]
    <2>1. CASE ~job.current
        BY <1>4, <2>1
    <2>2. CASE job.current
        <3>1. slot' = [slot EXCEPT ![w] = [slot[w] EXCEPT
                         !.have = IF ok /\ w # "MARK" THEN job.ask ELSE @,
                         !.state = IF slot[w].pending THEN "BUSY" ELSE IF ok THEN "READY" ELSE "FAILED"]]
            BY <1>4, <2>2
        <3>2. [s EXCEPT !.have = IF ok /\ w # "MARK" THEN job.ask ELSE @,
                        !.state = IF slot[w].pending THEN "BUSY" ELSE IF ok THEN "READY" ELSE "FAILED"] = t
            BY <1>6, <1>8, <1>9, <1>10
        <3>3. [slot EXCEPT ![w] = [slot[w] EXCEPT
                         !.have = IF ok /\ w # "MARK" THEN job.ask ELSE @,
                         !.state = IF slot[w].pending THEN "BUSY" ELSE IF ok THEN "READY" ELSE "FAILED"]]
              = [slot EXCEPT ![w] = t]
            BY <1>1, <1>5, <1>6, <3>2 DEF DetailTypeOK
        <3> QED BY <2>2, <3>1, <3>3
    <2> QED BY <2>1, <2>2
<1>13. /\ slot' \in [Wants -> WantSet] /\ \A v \in Wants : v # w => slot'[v] = slot[v]
       /\ IF job.current THEN slot'[w] = t ELSE slot' = slot
    BY <1>1, <1>5, <1>11, <1>12 DEF DetailTypeOK
<1>14. \A v \in Wants : slot'[v].pending => slot'[v].state = "BUSY" /\ slot'[v].want.id # None
    BY <1>2, <1>5, <1>6, <1>9, <1>11, <1>13 DEF SlotInv
<1>15. /\ job' \in JobSet /\ job'.kind = "none" /\ job'.ask = NoAsk /\ ~job'.landed /\ job'.current = FALSE
    BY <1>4, IdFacts DEF NoJob, JobSet
<1>16. PICK h : h = HeldMark(job.ask)
    OBVIOUS
<1>17. /\ h \in [id : Ids, marks : MarkSet] /\ h.id = held.id
       /\ held.id = job.ask.id =>
            /\ h.marks[job.ask.mark] = job.ask.on
            /\ \A other \in Marks : other # job.ask.mark => h.marks[other] = held.marks[other]
       /\ held.id # job.ask.id => h = held
    BY <1>1, <1>7, <1>16, HeldMarkIs
<1>18. held' \in [id : Ids, marks : MarkSet] /\ held'.id = held.id
    BY <1>1, <1>4, <1>16, <1>17 DEF DetailTypeOK
<1>19. left' \in [visits : Nat, presses : Nat, runs : Nat, faults : Nat]
    <2>1. CASE ok /\ UNCHANGED left
        BY <1>1, <2>1 DEF DetailTypeOK
    <2>2. CASE Spend("faults")
        BY <1>1, <2>2, SpendIs
    <2> QED BY <1>4, <2>1, <2>2
<1>20. DetailTypeOK'
    <2>1. near' \in NearSet
        <3>1. <<>> \in NearSet
            <4>1. PICK D \in SUBSET Episodes : D = {}
                OBVIOUS
            <4>2. <<>> \in [D -> MarkSet]
                BY <4>1
            <4> QED BY <4>2 DEF NearSet
        <3> QED BY <1>1, <1>4, <3>1 DEF DetailTypeOK
    <2>2. over' \in Ids
        BY <1>1, <1>4, <1>7, IdFacts DEF DetailTypeOK
    <2>3. spoilt' \in BOOLEAN
        BY <1>1, <1>4 DEF DetailTypeOK
    <2>4. \A v \in Wants : slot'[v].pending => slot'[v].want.id # None
        BY <1>14
    <2>5. /\ server' \in [Episodes -> MarkSet] /\ text' \in Ids
          /\ page' \in PageSet /\ (page' # Shut => page'.id # None)
          /\ player' = [id |-> player'.id, by |-> player'.by, has |-> player'.has]
          /\ player'.id \in Ids /\ player'.by \in Ids /\ player'.has \subseteq {"prev", "next"}
          /\ (player' # NoRun => player'.id # None /\ page'.id # None)
          /\ report' \in [id : Ids, ended : BOOLEAN]
          /\ (report' # NoReport => report'.id # None)
          /\ unasked' \in Nat /\ crossed' \in BOOLEAN /\ seen' \in BOOLEAN
        BY <1>1, <1>4 DEF DetailTypeOK
    <2> QED BY ONLY <1>13, <1>15, <1>18, <1>19, <2>1, <2>2, <2>3, <2>4, <2>5 DEF DetailTypeOK
<1>21. HeldInv'
    <2>1. UNCHANGED server
        BY <1>4
    <2>2. ASSUME ~spoilt', held'.id # None, NEW mark \in Marks
          PROVE  held'.marks[mark] = server[held'.id][mark]
        <3>1. ~spoilt /\ ~(w = "MARK" /\ ok /\ ~job.current)
            BY <1>4, <2>2
        <3>2. \/ held.marks[mark] = server[held.id][mark]
              \/ job.kind = "MARK" /\ job.landed /\ job.ask.id = held.id /\ job.ask.mark = mark
            BY <1>1, <1>18, <2>2, <3>1 DEF HeldInv
        <3>3. CASE w = "MARK" /\ ok /\ job.current
            <4>1. held' = h
                BY <1>4, <1>16, <3>3
            <4>2. CASE held.id = job.ask.id /\ mark = job.ask.mark
                <5>1. server[job.ask.id][job.ask.mark] = job.ask.on
                    BY <1>1, <1>3, <1>4, <3>1, <3>3 DEF HeldInv
                <5> QED BY <1>17, <4>1, <4>2, <5>1
            <4>3. CASE ~(held.id = job.ask.id /\ mark = job.ask.mark)
                <5>1. held.marks[mark] = server[held.id][mark]
                    BY <3>2, <4>3
                <5>2. h.marks[mark] = held.marks[mark]
                    BY <1>17, <4>3
                <5> QED BY <1>17, <4>1, <5>1, <5>2
            <4> QED BY <4>2, <4>3
        <3>4. CASE ~(w = "MARK" /\ ok /\ job.current)
            <4>1. held' = held
                BY <1>4, <3>4
            <4> QED BY <1>3, <1>4, <3>1, <3>2, <3>4, <4>1
        <3> QED BY <3>3, <3>4
    <2> QED BY <1>15, <2>1, <2>2 DEF HeldInv
<1>22. SlotInv(slot, job.current)'
    <2>1. CASE w = "ITEM" /\ job.current
        <3>1. slot["ITEM"] = s /\ slot'["ITEM"] = t /\ held' = held
            BY <1>4, <1>6, <1>13, <2>1
        <3>2. t.want = AskOf(t.want.id)
            BY <1>2, <1>11, <3>1 DEF SlotInv
        <3>3. ASSUME t.state = "READY" PROVE t.want = t.have /\ t.have = AskOf(held.id)
            <4>1. ~s.pending /\ ok /\ hv = job.ask
                BY <1>8, <1>9, <1>11, <2>1, <3>3
            <4>2. s.want = job.ask /\ job.ask = AskOf(job.ask.id)
                BY <1>2, <1>3, <2>1, <3>1, <4>1 DEF SlotInv
            <4>3. held.id = job.ask.id
                BY <1>1, <1>3, <1>4, <2>1, <4>1 DEF HeldInv
            <4> QED BY <1>11, <4>1, <4>2, <4>3
        <3> QED BY ONLY <1>14, <1>15, <3>1, <3>2, <3>3 DEF SlotInv
    <2>2. CASE ~(w = "ITEM" /\ job.current)
        <3>1. slot'["ITEM"] = slot["ITEM"]
            BY <1>13, <2>2 DEF Wants
        <3> QED BY ONLY <1>2, <1>14, <1>15, <1>18, <3>1 DEF SlotInv
    <2> QED BY <2>1, <2>2
<1>23. ASSUME ~crossed' PROVE TextInv(slot, job.current, over, page.id)'
    <2>1. TextInv(slot, job.current, over, page.id)
        BY <1>2, <1>4, <1>23
    <2>2. slot'["ITEM"].pending = slot["ITEM"].pending /\ slot'["ITEM"].want = slot["ITEM"].want
        <3>1. CASE w = "ITEM" /\ job.current
            BY <1>6, <1>11, <1>13, <3>1
        <3>2. CASE ~(w = "ITEM" /\ job.current)
            BY <1>13, <3>2 DEF Wants
        <3> QED BY <3>1, <3>2
    <2>3. CASE w = "ITEM" /\ ok /\ job.current
        <3>1. over' = job.ask.id /\ text' = text /\ page' = page
            BY <1>4, <2>3
        <3>2. text = job.ask.id
            BY <1>1, <1>3, <1>4, <2>3 DEF HeldInv
        <3> QED BY ONLY <1>3, <1>15, <2>1, <2>2, <2>3, <3>1, <3>2 DEF TextInv
    <2>4. CASE ~(w = "ITEM" /\ ok /\ job.current)
        <3>1. over' = over /\ text' = text /\ page' = page
            BY <1>4, <2>4
        <3> QED BY ONLY <1>15, <2>1, <2>2, <3>1 DEF TextInv
    <2> QED BY <2>3, <2>4
<1>24. LibInv(Lib, page.id)'
    BY <1>22, <1>23, LibPrime
<1>25. RunInv'
    BY <1>1, <1>4 DEF RunInv
<1>26. TracksAreTheirs'
    BY <1>4 DEF DetailInv, TracksAreTheirs
<1> QED BY <1>20, <1>21, <1>24, <1>25, <1>26 DEF DetailInv

\* A request is given up: what is asked for waits no more.
LEMMA WatchKeeps == ASSUME DetailInv, NEW w \in Wants, Watch(w) PROVE DetailInv'
<1> USE DEF Watch
<1>1. DetailTypeOK /\ RunInv /\ HeldInv
    BY DEF DetailInv
<1>2. SlotInv(slot, job.current) /\ (~crossed => TextInv(slot, job.current, over, page.id))
    BY LibNow
<1>3. PICK s \in WantSet : s = slot[w]
    BY <1>1 DEF DetailTypeOK
<1>4. PICK t : t = [s EXCEPT !.pending = FALSE, !.state = "FAILED"]
    OBVIOUS
<1>5. t \in WantSet /\ ~t.pending /\ t.want = s.want /\ t.state = "FAILED"
    BY <1>3, <1>4 DEF WantSet
<1>6. slot' = [slot EXCEPT ![w] = t]
    BY <1>1, <1>3, <1>4 DEF DetailTypeOK
<1>7. slot' \in [Wants -> WantSet] /\ slot'[w] = t /\ \A v \in Wants : v # w => slot'[v] = slot[v]
    BY <1>1, <1>5, <1>6 DEF DetailTypeOK
<1>8. PICK c \in BOOLEAN : c = (job.current /\ job.kind # w)
    BY <1>1 DEF DetailTypeOK, JobSet
<1>9. job' = [job EXCEPT !.current = c]
    BY <1>1, <1>8 DEF DetailTypeOK, JobSet
<1>10. /\ job' \in JobSet /\ job'.kind = job.kind /\ job'.ask = job.ask /\ job'.landed = job.landed
       /\ job'.current = c
    BY <1>1, <1>9 DEF DetailTypeOK, JobSet
<1>11. \A v \in Wants : slot'[v].pending => slot'[v].state = "BUSY" /\ slot'[v].want.id # None
    BY <1>2, <1>5, <1>7 DEF SlotInv
<1>12. left' \in [visits : Nat, presses : Nat, runs : Nat, faults : Nat]
    BY <1>1, SpendIs
<1>13. DetailTypeOK'
    <2>1. \A v \in Wants : slot'[v].pending => slot'[v].want.id # None
        BY <1>11
    <2> QED BY <1>1, <1>7, <1>10, <1>12, <2>1 DEF DetailTypeOK
<1>14. LibInv(Lib, page.id)'
    <2>1. CASE w = "ITEM"
        <3>1. slot'["ITEM"] = t /\ slot["ITEM"] = s /\ (c => job.kind # "ITEM")
            BY <1>3, <1>7, <1>8, <2>1
        <3>2. SlotInv(slot, job.current)'
            BY ONLY <1>2, <1>5, <1>8, <1>10, <1>11, <3>1, held' = held DEF SlotInv
        <3>3. ASSUME ~crossed' PROVE TextInv(slot, job.current, over, page.id)'
            <4>1. TextInv(slot, job.current, over, page.id)
                BY <1>2, <3>3
            <4> QED BY ONLY <1>5, <1>10, <3>1, <4>1, UNCHANGED <<text, over, page>> DEF TextInv
        <3> QED BY <3>2, <3>3, LibPrime
    <2>2. CASE w # "ITEM"
        <3>1. slot'["ITEM"] = slot["ITEM"] /\ (c => job.current) /\ (job.kind = "ITEM" => (c <=> job.current))
            BY <1>7, <1>8, <2>2 DEF Wants
        <3>2. SlotInv(slot, job.current)'
            BY ONLY <1>2, <1>8, <1>10, <1>11, <3>1, held' = held DEF SlotInv
        <3>3. ASSUME ~crossed' PROVE TextInv(slot, job.current, over, page.id)'
            <4>1. TextInv(slot, job.current, over, page.id)
                BY <1>2, <3>3
            <4> QED BY ONLY <1>10, <3>1, <4>1, UNCHANGED <<text, over, page>> DEF TextInv
        <3> QED BY <3>2, <3>3, LibPrime
    <2> QED BY <2>1, <2>2
<1>15. RunInv'
    BY <1>1 DEF RunInv
<1>16. HeldInv'
    BY <1>1, <1>10, HeldStays
<1> QED BY <1>13, <1>14, <1>15, <1>16 DEF DetailInv, TracksAreTheirs

\* The stop is told: what is held is behind the server, and nobody counts on it.
LEMMA ToldKeeps == ASSUME DetailInv, Told PROVE DetailInv'
<1> USE DEF Told
<1>1. DetailTypeOK /\ RunInv /\ HeldInv
    BY DEF DetailInv
<1>2. SlotInv(slot, job.current) /\ (~crossed => TextInv(slot, job.current, over, page.id))
    BY LibNow
<1>3. report.id \in Episodes
    BY <1>1 DEF DetailTypeOK, Ids
<1>4. PICK mk \in MarkSet : mk = server[report.id]
    BY <1>1, <1>3 DEF DetailTypeOK
<1>5. PICK mn : mn = IF report.ended THEN [mk EXCEPT !.played = TRUE, !.resume = FALSE]
                     ELSE [mk EXCEPT !.resume = TRUE]
    OBVIOUS
<1>6. mn \in MarkSet
    <2>1. [mk EXCEPT !.played = TRUE, !.resume = FALSE] \in MarkSet
        BY DEF MarkSet
    <2>2. [mk EXCEPT !.resume = TRUE] \in MarkSet
        BY DEF MarkSet
    <2> QED BY <1>5, <2>1, <2>2
<1>7. server' = [server EXCEPT ![report.id] = mn]
    BY <1>1, <1>3, <1>4, <1>5 DEF DetailTypeOK
<1>8. server' \in [Episodes -> MarkSet]
    BY <1>1, <1>3, <1>6, <1>7 DEF DetailTypeOK
<1>9. held' \in [id : Ids, marks : MarkSet] /\ held'.id = held.id
    <2>1. PICK hd \in [id : Ids, marks : MarkSet] : hd = held
        BY <1>1 DEF DetailTypeOK
    <2>2. PICK hm \in MarkSet : hm = hd.marks
        BY <2>1
    <2>3. [hm EXCEPT !.resume = TRUE] \in MarkSet
        BY DEF MarkSet
    <2>4. [hd EXCEPT !.marks.resume = TRUE] = [hd EXCEPT !.marks = [hm EXCEPT !.resume = TRUE]]
        BY <2>1, <2>2
    <2> QED BY <2>1, <2>3, <2>4
<1>10. DetailTypeOK'
    <2>1. report' \in [id : Ids, ended : BOOLEAN] /\ report' = NoReport
        BY IdFacts DEF NoReport
    <2> QED BY <1>1, <1>8, <1>9, <2>1 DEF DetailTypeOK
<1>11. LibInv(Lib, page.id)'
    <2>1. SlotInv(slot, job.current)'
        BY <1>2, <1>9 DEF SlotInv
    <2>2. ~crossed' => TextInv(slot, job.current, over, page.id)'
        BY <1>2 DEF TextInv
    <2> QED BY <2>1, <2>2, LibPrime
<1>12. RunInv'
    BY <1>1 DEF RunInv
<1>13. HeldInv'
    BY <1>1, <1>9 DEF HeldInv
<1> QED BY <1>10, <1>11, <1>12, <1>13 DEF DetailInv, TracksAreTheirs

\* The link is back: what is in hand is nobody's.
LEMMA LinkKeeps == ASSUME DetailInv, LinkReturns PROVE DetailInv'
<1> USE DEF LinkReturns
<1>1. DetailTypeOK /\ RunInv /\ HeldInv /\ LibInv(Lib, page.id)
    BY DEF DetailInv
<1>2. page.id \in Ids /\ Lib \in LibSet
    BY <1>1, PartsAre DEF DetailTypeOK, PageSet
<1>3. PICK p \in Ids : p = page.id
    BY <1>2
<1>4. PICK l : l = library_forget_item(Lib)
    OBVIOUS
<1>5. l \in LibSet /\ LibInv(l, p) /\ Keep(l)
    BY <1>1, <1>2, <1>3, <1>4, ItemForgotten
<1>6. /\ slot' = l.slot /\ over' = l.over /\ held' = held /\ text' = text /\ near' = near
      /\ slot' \in [Wants -> WantSet] /\ job' \in JobSet /\ over' \in Ids
      /\ job'.kind = job.kind /\ job'.ask = job.ask /\ job'.landed = job.landed
      /\ SlotInv(slot, job.current)' /\ (~crossed' => TextInv(slot, job.current, over, p)')
    BY <1>1, <1>5, Kept
<1>7. \A v \in Wants : slot'[v].pending => slot'[v].want.id # None
    BY <1>6 DEF SlotInv
<1>8. left' \in [visits : Nat, presses : Nat, runs : Nat, faults : Nat]
    BY <1>1, SpendIs
<1>9. DetailTypeOK'
    BY <1>1, <1>6, <1>7, <1>8 DEF DetailTypeOK
<1>10. LibInv(Lib, page.id)'
    <2>1. ~crossed' => TextInv(slot, job.current, over, page.id)'
        BY <1>3, <1>6 DEF TextInv
    <2> QED BY <1>6, <2>1, LibPrime
<1>11. RunInv'
    BY <1>1 DEF RunInv
<1>12. HeldInv'
    BY <1>1, <1>6, HeldStays
<1> QED BY <1>9, <1>10, <1>11, <1>12 DEF DetailInv, TracksAreTheirs

\* Every step keeps the invariant.
LEMMA DetailSteps == DetailInv /\ [DetailNext]_detailVars => DetailInv'
<1> SUFFICES ASSUME DetailInv, [DetailNext]_detailVars PROVE DetailInv'
    OBVIOUS
<1>1. CASE \E e \in Episodes : Enter(e)
    BY <1>1, EnterKeeps
<1>2. CASE Back
    BY <1>2, BackKeeps
<1>3. CASE \E press \in {"none", "next", "prev", "play", "pick"} \cup Marks, due \in BOOLEAN : Frame(press, due)
    BY <1>3, FrameKeeps
<1>4. CASE \E r \in {"ENDED", "STOPPED", "PREV", "NEXT", "FAILED"} : PlayerReturns(r)
    BY <1>4, ReturnsKeep
<1>5. CASE \E w \in Wants : Take(w) \/ Watch(w)
    BY <1>5, TakeKeeps, WatchKeeps
<1>6. CASE ItemLands \/ AdjacentLands \/ MarkLands
    BY <1>6, ItemLandsKeeps, AdjacentLandsKeeps, MarkLandsKeeps
<1>7. CASE \E ok \in BOOLEAN : Done(ok)
    BY <1>7, DoneKeeps
<1>8. CASE Told \/ LinkReturns
    BY <1>8, ToldKeeps, LinkKeeps
<1>9. CASE UNCHANGED detailVars
    <2> USE <1>9 DEF detailVars, libVars, histVars
    <2>1. SlotInv(slot, job.current) /\ (~crossed => TextInv(slot, job.current, over, page.id))
        BY LibNow
    <2>2. SlotInv(slot, job.current)'
        BY <2>1 DEF SlotInv
    <2>3. ~crossed' => TextInv(slot, job.current, over, page.id)'
        BY <2>1 DEF TextInv
    <2>4. DetailTypeOK' /\ RunInv' /\ HeldInv' /\ TracksAreTheirs'
        BY DEF DetailInv, DetailTypeOK, RunInv, HeldInv, TracksAreTheirs
    <2> QED BY <2>2, <2>3, <2>4, LibPrime DEF DetailInv
<1> QED BY <1>1, <1>2, <1>3, <1>4, <1>5, <1>6, <1>7, <1>8, <1>9 DEF DetailNext

\* Always: what the library has asked for, is fetching and keeps of an item is
\* of the page that is up, a ready answer is for its want, the held copy is
\* the server's, and the runs nobody asked for are counted.
THEOREM ItemPageInvariant == DetailSpec => []DetailInv
BY DetailBegins, DetailSteps, PTL DEF DetailSpec

\* A step that asks for a mark is the press of the button on the shown item.
LEMMA PressStep ==
    ASSUME DetailInv, [DetailNext]_detailVars,
           slot'["MARK"].pending, ~slot["MARK"].pending, ~spoilt, job.kind # "MARK",
           slot["ITEM"].state = "READY", held.id = page.id, page'.id = page.id
    PROVE  slot'["MARK"].want.on # server[slot'["MARK"].want.id][slot'["MARK"].want.mark]
<1>1. DetailTypeOK /\ HeldInv /\ LibInv(Lib, page.id) /\ "MARK" \in Wants
    BY DEF DetailInv, Wants
<1>2. CASE \E press \in {"none", "next", "prev", "play", "pick"} \cup Marks, due \in BOOLEAN : Frame(press, due)
    <2>1. PICK press \in {"none", "next", "prev", "play", "pick"} \cup Marks, due \in BOOLEAN : Frame(press, due)
        BY <1>2
    <2>2. PICK b : b = Begun(press, due)
        OBVIOUS
    <2>3. /\ page # Shut /\ player = NoRun
          /\ IF Starts(b) THEN play_this(b) /\ Keep(b.l) ELSE Buttons(b, press)
        BY <2>1, <2>2 DEF Frame
    <2>4. /\ b.d \in PageSet /\ b.d.id \in Episodes
          /\ b.l \in LibSet /\ LibInv(b.l, b.d.id) /\ b.l.slot["MARK"] = slot["MARK"]
          /\ press \in Marks =>
               /\ b.d.id = page.id
               /\ b.d.writing = NoAsk => b.d.marks = held.marks
        BY <2>2, <2>3, Begins
    <2>5. ~Keep(b.l)
        BY <2>4 DEF Keep
    <2>6. press \in Marks /\ ask_mark(b, press)
        BY <2>3, <2>5 DEF Buttons
    <2>7. PICK ask : ask = [id |-> b.d.id, mark |-> press, on |-> ~b.d.marks[press]]
        OBVIOUS
    <2>8. ask \in AskSet /\ ask.id # None /\ ask.id = b.d.id /\ ask.mark = press
          /\ ask.on = ~b.d.marks[press]
        BY <2>4, <2>6, <2>7, IdFacts DEF AskSet
    <2>9. PICK l : l = library_mark(b.l, ask)
        OBVIOUS
    <2>10. b.d.writing = NoAsk /\ Keep(l)
        BY <2>6, <2>7, <2>9 DEF ask_mark
    <2>11. l = b.l \/ (l.slot["MARK"].pending /\ l.slot["MARK"].want = ask)
        BY <1>1, <2>4, <2>8, <2>9, IdFacts, MarkAsked
    <2>12. slot'["MARK"].want = ask
        BY <2>4, <2>10, <2>11 DEF Keep
    <2>13. held.id # None /\ held.marks[press] = server[held.id][press]
        <3>1. page.id # None
            BY <1>1, <2>3 DEF DetailTypeOK
        <3> QED BY <1>1, <2>6, <3>1 DEF HeldInv
    <2>14. ask.on = ~server[held.id][press] /\ ask.id = held.id
        BY <2>4, <2>6, <2>8, <2>10, <2>13
    <2>15. server[held.id][press] \in BOOLEAN
        <3>1. server[held.id] \in MarkSet
            BY <1>1, <2>13 DEF DetailTypeOK, Ids
        <3> QED BY <2>6, <3>1 DEF MarkSet, Marks
    <2> QED BY <2>8, <2>12, <2>14, <2>15
<1>3. CASE \E r \in {"ENDED", "STOPPED", "PREV", "NEXT", "FAILED"} : PlayerReturns(r)
    BY <1>3, ReturnsKeep
<1>4. CASE \E w \in Wants : Take(w) \/ Watch(w)
    <2>1. PICK w \in Wants : Take(w) \/ Watch(w)
        BY <1>4
    <2>2. CASE w = "MARK"
        <3>1. PICK s \in WantSet : s = slot["MARK"]
            BY <1>1 DEF DetailTypeOK
        <3>2. CASE Take(w)
            <4>1. slot' = [slot EXCEPT !["MARK"].pending = FALSE]
                BY <2>2, <3>2 DEF Take
            <4>2. slot'["MARK"] = [s EXCEPT !.pending = FALSE]
                BY <1>1, <3>1, <4>1 DEF DetailTypeOK
            <4> QED BY <4>2 DEF WantSet
        <3>3. CASE Watch(w)
            <4>1. slot' = [slot EXCEPT !["MARK"] = [@ EXCEPT !.pending = FALSE, !.state = "FAILED"]]
                BY <2>2, <3>3 DEF Watch
            <4>2. slot'["MARK"] = [s EXCEPT !.pending = FALSE, !.state = "FAILED"]
                BY <1>1, <3>1, <4>1 DEF DetailTypeOK
            <4> QED BY <4>2 DEF WantSet
        <3> QED BY <2>1, <3>2, <3>3
    <2>3. CASE w # "MARK"
        <3>1. slot'["MARK"] = slot["MARK"]
            BY <1>1, <2>1, <2>3 DEF Take, Watch, DetailTypeOK
        <3> QED BY <3>1
    <2> QED BY <2>2, <2>3
<1>5. CASE \E ok \in BOOLEAN : Done(ok)
    <2>1. PICK ok \in BOOLEAN : Done(ok)
        BY <1>5
    <2>2. slot'["MARK"] = slot["MARK"]
        BY <1>1, <2>1 DEF Done, DetailTypeOK, JobSet
    <2> QED BY <2>2
<1>6. CASE LinkReturns
    <2>1. PICK l : l = library_forget_item(Lib)
        OBVIOUS
    <2>2. Keep(l)
        BY <1>6, <2>1 DEF LinkReturns
    <2>3. page.id \in Ids /\ Lib \in LibSet /\ Lib.slot = slot
        BY <1>1, PartsAre DEF DetailTypeOK, PageSet
    <2>4. l.slot["MARK"] = slot["MARK"]
        BY <1>1, <2>1, <2>3, ItemForgotten
    <2> QED BY <2>2, <2>4 DEF Keep
<1>7. CASE UNCHANGED slot
    BY <1>7
<1>8. \/ \E press \in {"none", "next", "prev", "play", "pick"} \cup Marks, due \in BOOLEAN : Frame(press, due)
      \/ \E r \in {"ENDED", "STOPPED", "PREV", "NEXT", "FAILED"} : PlayerReturns(r)
      \/ \E w \in Wants : Take(w) \/ Watch(w)
      \/ \E ok \in BOOLEAN : Done(ok)
      \/ LinkReturns \/ UNCHANGED slot
    BY DEF DetailNext, Enter, Back, ItemLands, AdjacentLands, MarkLands, Told, detailVars, libVars
<1> QED BY <1>2, <1>3, <1>4, <1>5, <1>6, <1>7, <1>8

\* What plays is what the item's page says, and the runs nobody asked for end.
THEOREM WhatPlaysIsTheItems == DetailSpec => []RunsAreTheItems
<1>1. DetailInv => RunsAreTheItems
    BY DEF DetailInv, RunInv, RunsAreTheItems, UnaskedRunsEnd
<1> QED BY <1>1, ItemPageInvariant, PTL

\* A press of a mark turns over what the server has.
THEOREM PressesTurnOver == DetailSpec => PressTurnsOver
<1>1. DetailInv /\ [DetailNext]_detailVars =>
        [(slot'["MARK"].pending /\ ~slot["MARK"].pending /\ ~spoilt /\ job.kind # "MARK"
            /\ slot["ITEM"].state = "READY" /\ held.id = page.id /\ page'.id = page.id)
         => LET ask == slot'["MARK"].want IN ask.on # server[ask.id][ask.mark]]_detailVars
    BY PressStep
<1> QED BY <1>1, ItemPageInvariant, PTL DEF DetailSpec, PressTurnsOver

-----------------------------------------------------------------------------
(* The listing's page (Browse). *)

AnyAsk    == Asks \cup {Nothing}
States    == {"IDLE", "BUSY", "READY", "FAILED"}
FocusIds  == Cards \cup {NoFocus, Retry}
LevelSet  == [page : {"home", "listing", "detail", "settings"}, state : AnyAsk, focus : FocusIds]
ItemsSet  == [state : States, want : AnyAsk, have : AnyAsk, pending : BOOLEAN, rows : AnyAsk, stash : AnyAsk]
HomeSet   == [state : States, pending : BOOLEAN, rails : BOOLEAN]
DrawnSet  == [rows : AnyAsk, taken : BOOLEAN, was : States]
ShelfSet  == [items : ItemsSet, home : HomeSet, current : BOOLEAN, drawn : DrawnSet]

\* The front page below, listings in between, and anything that is not the
\* front page on top.
StackOK(s) ==
  /\ s = [levels |-> s.levels, live |-> s.live]
  /\ s.levels \in Seq(LevelSet) /\ s.live \in FocusIds
  /\ Len(s.levels) >= 1 /\ s.levels[1].page = "home"
  /\ \A i \in 2..Len(s.levels) : s.levels[i].page # "home"
  /\ \A i \in 2..(Len(s.levels) - 1) : s.levels[i].page = "listing"
  /\ \A i \in 2..Len(s.levels) : s.levels[i].page = "listing" => s.levels[i].state \in Asks

BrowseTypeOK ==
  /\ StackOK(stack) /\ leftAt \in Seq(FocusIds)
  /\ items \in ItemsSet /\ home \in HomeSet /\ drawn \in DrawnSet
  /\ fetch \in [kind : {"none", "items", "home"}, ask : AnyAsk, current : BOOLEAN]
  /\ changes \in Nat /\ early \in BOOLEAN
  /\ onPanel \in [ask : AnyAsk, rows : AnyAsk]

\* An answer that is ready is nobody's to write any more, and the rows are its.
ItemsInv(l) ==
  /\ l.items.pending => l.items.state = "BUSY"
  /\ l.items.state = "READY" => fetch.kind # "items" /\ l.items.rows = l.items.have

\* What is drawn is of the listing that asks for a, or about to be.
DrawnInv(l, a) ==
  \/ l.drawn.rows \in {Nothing, a}
  \/ Answers(l, a) /\ l.items.rows # Nothing /\ ~l.drawn.taken

\* The listing on top, below whatever covers it.
IsTop(levels, i) ==
  /\ i \in 1..Len(levels) /\ levels[i].page = "listing"
  /\ \A j \in 1..Len(levels) : levels[j].page = "listing" => j <= i
DrawnOK(levels, l) == \A i \in 1..Len(levels) : IsTop(levels, i) => DrawnInv(l, levels[i].state)

FocusInv(s, at) ==
  /\ Len(at) = Len(s.levels) - 1
  /\ \A i \in 1..(Len(s.levels) - 1) : s.levels[i].focus = at[i]

BrowseInv ==
  /\ BrowseTypeOK /\ ItemsInv(Shelf) /\ FocusInv(stack, leftAt)
  /\ ~early => DrawnOK(stack.levels, Shelf)
  /\ DrawnAreThePages

\* Nothing is an ask, and so is what a page asks.
LEMMA AskFacts == Nothing \in AnyAsk /\ Asks \subseteq AnyAsk /\ NoFocus \in FocusIds /\ 1 \in FocusIds
                  /\ "READY" \in States /\ "BUSY" \in States /\ "IDLE" \in States /\ "FAILED" \in States
BY DEF AnyAsk, FocusIds, Cards, States

\* The library as the listing's calls see it.
LEMMA ShelfIs ==
    ASSUME BrowseTypeOK
    PROVE  /\ Shelf \in ShelfSet /\ Shelf.items = items /\ Shelf.home = home /\ Shelf.drawn = drawn
           /\ Shelf.current = fetch.current
BY DEF BrowseTypeOK, Shelf, ShelfSet

\* What a change of the front page's want leaves alone.
SameList(n, l) == n.items = l.items /\ n.drawn = l.drawn

\* The front page's calls leave the listing alone.
LEMMA HomeAsked ==
    ASSUME NEW l \in ShelfSet, NEW n, n = library_home(l)
    PROVE  n \in ShelfSet /\ SameList(n, l)
<1>1. PICK h \in HomeSet : h = l.home
    BY DEF ShelfSet
<1>2. PICK k : k = [h EXCEPT !.state = "BUSY", !.pending = TRUE]
    OBVIOUS
<1>3. k \in HomeSet
    BY <1>2, AskFacts DEF HomeSet
<1>4. [l EXCEPT !.home.state = "BUSY", !.home.pending = TRUE] = [l EXCEPT !.home = k]
    BY <1>1, <1>2 DEF ShelfSet, HomeSet
<1>5. n = l \/ n = [l EXCEPT !.home = k]
    BY <1>4 DEF library_home
<1> QED BY <1>3, <1>5 DEF ShelfSet, SameList

\* So does forgetting its rails.
LEMMA HomeForgotten ==
    ASSUME NEW l \in ShelfSet, NEW n, n = forget_home(l)
    PROVE  n \in ShelfSet /\ SameList(n, l)
<1>1. PICK h \in HomeSet : h = l.home
    BY DEF ShelfSet
<1>2. PICK k : k = [h EXCEPT !.state = "IDLE", !.pending = FALSE]
    OBVIOUS
<1>3. k \in HomeSet
    BY <1>2, AskFacts DEF HomeSet
<1>4. PICK c \in BOOLEAN : c = (l.current /\ fetch.kind # "home")
    BY DEF ShelfSet
<1>5. n = [l EXCEPT !.home = k, !.current = c]
    BY <1>1, <1>2, <1>4 DEF forget_home, ShelfSet, HomeSet
<1> QED BY <1>3, <1>4, <1>5 DEF ShelfSet, SameList

\* A listing asked for: what is drawn stays, and an answer is given as it is.
LEMMA ListAsked ==
    ASSUME NEW l \in ShelfSet, NEW a \in AnyAsk, ItemsInv(l), NEW n, n = want_items(l, a)
    PROVE  /\ n \in ShelfSet /\ ItemsInv(n) /\ n.drawn.rows = l.drawn.rows
           /\ n.drawn.taken \in {l.drawn.taken, FALSE}
           /\ Answers(l, a) => n = l
<1>1. PICK it \in ItemsSet : it = l.items
    BY DEF ShelfSet
<1>2. PICK dr \in DrawnSet : dr = l.drawn
    BY DEF ShelfSet
<1>3. PICK quiet \in BOOLEAN : quiet = (fetch.kind # "items")
    OBVIOUS
<1>4. PICK kept : kept = IF quiet /\ l.items.state = "READY" /\ l.items.rows # Nothing
                         THEN [l EXCEPT !.items.stash = l.items.have] ELSE l
    OBVIOUS
<1>5. PICK r : r = [state |-> "READY", want |-> a, have |-> a, pending |-> FALSE, rows |-> a, stash |-> Nothing]
    OBVIOUS
<1>6. n = IF Answers(l, a) THEN l
          ELSE IF quiet /\ l.items.stash = a
          THEN [l EXCEPT !.items = r, !.current = FALSE, !.drawn.taken = FALSE]
          ELSE IF kept.items.want = a /\ kept.items.state = "BUSY" THEN kept
          ELSE [kept EXCEPT !.items.want = a, !.items.pending = TRUE, !.items.state = "BUSY"]
    BY <1>3, <1>4, <1>5 DEF want_items
<1>7. PICK ks : ks = [it EXCEPT !.stash = it.have]
    OBVIOUS
<1>8. PICK ki \in {it, ks} : ki = kept.items /\ kept = [l EXCEPT !.items = ki]
    <2>1. [l EXCEPT !.items.stash = l.items.have] = [l EXCEPT !.items = ks]
        BY <1>1, <1>7 DEF ShelfSet
    <2>2. [l EXCEPT !.items = ks].items = ks /\ [l EXCEPT !.items = it] = l
        BY <1>1 DEF ShelfSet
    <2> QED BY <1>1, <1>4, <2>1, <2>2
<1>9. ki \in ItemsSet /\ ki.state = it.state /\ ki.pending = it.pending /\ ki.rows = it.rows /\ ki.have = it.have
    BY <1>1, <1>7, <1>8 DEF ItemsSet
<1>10. kept \in ShelfSet /\ kept.drawn = dr /\ kept.items = ki
    BY <1>2, <1>8, <1>9 DEF ShelfSet
<1>11. CASE Answers(l, a)
    BY <1>6, <1>11
<1>12. CASE ~Answers(l, a) /\ quiet /\ l.items.stash = a
    <2>1. PICK dn : dn = [dr EXCEPT !.taken = FALSE]
        OBVIOUS
    <2>2. dn \in DrawnSet /\ dn.rows = dr.rows /\ dn.taken = FALSE
        BY <2>1 DEF DrawnSet
    <2>3. r \in ItemsSet /\ r.state = "READY" /\ r.rows = a /\ r.have = a /\ r.pending = FALSE
        BY <1>5, AskFacts DEF ItemsSet
    <2>4. n = [l EXCEPT !.items = r, !.current = FALSE, !.drawn = dn]
        BY <1>2, <1>6, <1>12, <2>1 DEF ShelfSet
    <2>5. n \in ShelfSet /\ n.items = r /\ n.drawn = dn
        BY <2>2, <2>3, <2>4 DEF ShelfSet
    <2> QED BY <1>2, <1>3, <1>12, <2>2, <2>3, <2>5 DEF ItemsInv
<1>13. CASE ~Answers(l, a) /\ ~(quiet /\ l.items.stash = a) /\ kept.items.want = a /\ kept.items.state = "BUSY"
    <2>1. n = kept
        BY <1>6, <1>13
    <2>2. ItemsInv(kept)
        BY <1>1, <1>9, <1>10 DEF ItemsInv
    <2> QED BY <1>2, <1>10, <1>13, <2>1, <2>2
<1>14. CASE ~Answers(l, a) /\ ~(quiet /\ l.items.stash = a) /\ ~(kept.items.want = a /\ kept.items.state = "BUSY")
    <2>1. PICK kn : kn = [ki EXCEPT !.want = a, !.pending = TRUE, !.state = "BUSY"]
        OBVIOUS
    <2>2. kn \in ItemsSet /\ kn.state = "BUSY"
        BY <1>9, <2>1, AskFacts DEF ItemsSet
    <2>3. n = [kept EXCEPT !.items = kn]
        BY <1>6, <1>8, <1>10, <1>14, <2>1 DEF ShelfSet
    <2>4. n \in ShelfSet /\ n.items = kn /\ n.drawn = dr
        BY <1>10, <2>2, <2>3 DEF ShelfSet
    <2>5. ItemsInv(n)
        BY <2>2, <2>4 DEF ItemsInv
    <2> QED BY <1>2, <1>14, <2>4, <2>5
<1> QED BY <1>11, <1>12, <1>13, <1>14

\* A listing that is forgotten is nobody's, and what is drawn stays.
LEMMA ListForgotten ==
    ASSUME NEW l \in ShelfSet, ItemsInv(l), NEW n, n = forget_items(l)
    PROVE  n \in ShelfSet /\ ItemsInv(n) /\ n.drawn = l.drawn /\ n.items.state = "IDLE"
<1>1. PICK it \in ItemsSet : it = l.items
    BY DEF ShelfSet
<1>2. PICK k : k = [it EXCEPT !.state = "IDLE", !.pending = FALSE, !.have = Nothing, !.stash = Nothing]
    OBVIOUS
<1>3. k \in ItemsSet /\ k.state = "IDLE" /\ k.pending = FALSE
    BY <1>2, AskFacts DEF ItemsSet
<1>4. PICK c \in BOOLEAN : c = (l.current /\ fetch.kind # "items")
    BY DEF ShelfSet
<1>5. n = [l EXCEPT !.items = k, !.current = c]
    BY <1>1, <1>2, <1>4 DEF forget_items, ShelfSet, ItemsSet
<1>6. n \in ShelfSet /\ n.items = k /\ n.drawn = l.drawn
    BY <1>3, <1>4, <1>5 DEF ShelfSet
<1> QED BY <1>3, <1>6 DEF ItemsInv

\* What the page has to draw is given up, or counts as of before.
DrawnTo(l, rows, taken) == [l EXCEPT !.drawn.rows = rows, !.drawn.taken = taken]

\* What is drawn changes and the listing does not.
LEMMA DrawnSetTo ==
    ASSUME NEW l \in ShelfSet, NEW rows \in AnyAsk, NEW taken \in BOOLEAN,
           NEW n, n = DrawnTo(l, rows, taken)
    PROVE  /\ n \in ShelfSet /\ n.items = l.items /\ n.current = l.current
           /\ n.drawn.rows = rows /\ n.drawn.taken = taken
           /\ (ItemsInv(l) => ItemsInv(n))
<1>1. PICK dr \in DrawnSet : dr = l.drawn
    BY DEF ShelfSet
<1>2. PICK k : k = [dr EXCEPT !.rows = rows, !.taken = taken]
    OBVIOUS
<1>3. k \in DrawnSet /\ k.rows = rows /\ k.taken = taken
    BY <1>2 DEF DrawnSet
<1>4. n = [l EXCEPT !.drawn = k]
    BY <1>1, <1>2 DEF ShelfSet, DrawnTo
<1>5. n \in ShelfSet /\ n.items = l.items /\ n.current = l.current /\ n.drawn = k
    BY <1>3, <1>4 DEF ShelfSet
<1> QED BY <1>3, <1>5 DEF ItemsInv

\* A page that has to take its rows again.
LEMMA TakenSetTo ==
    ASSUME NEW l \in ShelfSet, NEW n, n = [l EXCEPT !.drawn.taken = FALSE]
    PROVE  /\ n \in ShelfSet /\ n.items = l.items /\ n.drawn.rows = l.drawn.rows /\ n.drawn.taken = FALSE
           /\ (ItemsInv(l) => ItemsInv(n))
<1>1. PICK dr \in DrawnSet : dr = l.drawn
    BY DEF ShelfSet
<1>2. PICK k : k = [dr EXCEPT !.taken = FALSE]
    OBVIOUS
<1>3. k \in DrawnSet /\ k.rows = dr.rows /\ k.taken = FALSE
    BY <1>2 DEF DrawnSet
<1>4. n = [l EXCEPT !.drawn = k]
    BY <1>1, <1>2 DEF ShelfSet
<1>5. n \in ShelfSet /\ n.items = l.items /\ n.drawn = k
    BY <1>3, <1>4 DEF ShelfSet
<1> QED BY <1>1, <1>3, <1>5 DEF ItemsInv

\* Asked and copied: nothing is drawn, or the rows asked for.
LEMMA Taken ==
    ASSUME NEW l \in ShelfSet, NEW a \in AnyAsk, ItemsInv(l), NEW n, n = take(l, a)
    PROVE  /\ n \in ShelfSet /\ ItemsInv(n)
           /\ (DrawnInv(l, a) => n.drawn.rows \in {Nothing, a})
<1>1. PICK q : q = want_items(l, a)
    OBVIOUS
<1>2. /\ q \in ShelfSet /\ ItemsInv(q) /\ q.drawn.rows = l.drawn.rows
      /\ Answers(l, a) => q = l
    BY <1>1, ListAsked
<1>3. PICK rows \in AnyAsk : rows = q.items.rows
    BY <1>2 DEF ShelfSet, ItemsSet
<1>4. PICK taken \in BOOLEAN : taken = TRUE
    OBVIOUS
<1>5. CASE Answers(q, a) /\ q.items.rows # Nothing /\ ~q.drawn.taken
    <2>1. n = DrawnTo(q, rows, taken)
        BY <1>1, <1>3, <1>4, <1>5 DEF take, DrawnTo
    <2>2. n \in ShelfSet /\ n.drawn.rows = rows /\ ItemsInv(n)
        BY <1>2, <2>1, DrawnSetTo
    <2>3. rows = a
        BY <1>2, <1>3, <1>5 DEF ItemsInv, Answers
    <2> QED BY <2>2, <2>3
<1>6. CASE ~(Answers(q, a) /\ q.items.rows # Nothing /\ ~q.drawn.taken)
    <2>1. n = q
        BY <1>1, <1>6 DEF take
    <2> QED BY <1>2, <1>6, <2>1 DEF DrawnInv
<1> QED BY <1>5, <1>6

\* Asked again: nothing is drawn until it is there.
LEMMA Reasked ==
    ASSUME NEW l \in ShelfSet, NEW a \in AnyAsk, ItemsInv(l), NEW n, n = reask(l, a)
    PROVE  n \in ShelfSet /\ ItemsInv(n) /\ n.drawn.rows = Nothing
<1>1. PICK c : c = Clear(l)
    OBVIOUS
<1>2. PICK rows \in AnyAsk, taken \in BOOLEAN : rows = Nothing /\ taken = FALSE
    BY AskFacts
<1>3. c = DrawnTo(l, rows, taken)
    BY <1>1, <1>2 DEF Clear, DrawnTo
<1>4. c \in ShelfSet /\ ItemsInv(c) /\ c.drawn.rows = Nothing
    BY <1>2, <1>3, DrawnSetTo
<1>5. n = want_items(c, a)
    BY <1>1 DEF reask
<1> QED BY ONLY <1>4, <1>5, a \in AnyAsk, ListAsked

\* A listing asked for anew keeps its rows on the screen.
LEMMA Refetched ==
    ASSUME NEW l \in ShelfSet, NEW a \in AnyAsk, ItemsInv(l), NEW n, n = refetch(l, a)
    PROVE  n \in ShelfSet /\ ItemsInv(n) /\ n.drawn.rows = l.drawn.rows
<1>1. PICK k : k = [l EXCEPT !.drawn.taken = FALSE]
    OBVIOUS
<1>2. k \in ShelfSet /\ ItemsInv(k) /\ k.drawn.rows = l.drawn.rows
    BY <1>1, TakenSetTo
<1>3. PICK f : f = forget_items(k)
    OBVIOUS
<1>4. f \in ShelfSet /\ ItemsInv(f) /\ f.drawn = k.drawn
    BY <1>2, <1>3, ListForgotten
<1>5. n = want_items(f, a)
    BY <1>1, <1>3 DEF refetch
<1>6. n \in ShelfSet /\ ItemsInv(n) /\ n.drawn.rows = f.drawn.rows
    BY <1>4, <1>5, ListAsked
<1> QED BY <1>2, <1>4, <1>6

\* Uncovered: what is drawn stays only for the first frame to replace it.
LEMMA Resumed ==
    ASSUME NEW l \in ShelfSet, NEW a \in AnyAsk, ItemsInv(l), NEW n, n = listing_resumed(l, a)
    PROVE  n \in ShelfSet /\ ItemsInv(n) /\ DrawnInv(n, a)
<1>1. PICK q : q = want_items(l, a)
    OBVIOUS
<1>2. q \in ShelfSet /\ ItemsInv(q)
    BY <1>1, ListAsked
<1>3. PICK dr \in DrawnSet : dr = q.drawn
    BY <1>2 DEF ShelfSet
<1>4. PICK rows \in AnyAsk, taken \in BOOLEAN :
          /\ rows = IF Answers(q, a) /\ q.items.rows # Nothing THEN dr.rows ELSE Nothing
          /\ taken = FALSE
    BY AskFacts DEF DrawnSet
<1>5. n = DrawnTo(q, rows, taken)
    <2>1. n = [q EXCEPT !.drawn.rows = IF Answers(q, a) /\ q.items.rows # Nothing THEN @ ELSE Nothing,
                        !.drawn.taken = FALSE]
        BY <1>1 DEF listing_resumed
    <2> QED BY <1>2, <1>3, <1>4, <2>1 DEF ShelfSet, DrawnTo
<1>6. /\ n \in ShelfSet /\ ItemsInv(n) /\ n.items = q.items
      /\ n.drawn.rows = rows /\ n.drawn.taken = taken
    BY <1>2, <1>5, DrawnSetTo
<1> QED BY <1>4, <1>6 DEF DrawnInv, Answers

\* A page that is pushed begins with what it was given.
LEMMA LevelFacts ==
    ASSUME NEW kind \in {"home", "listing", "detail", "settings"}, NEW state \in AnyAsk
    PROVE  /\ Level(kind, state) \in LevelSet /\ Level(kind, state).page = kind
           /\ Level(kind, state).state = state
BY AskFacts DEF Level, LevelSet

IsPushed(s, at, k) ==
  /\ Len(s.levels) = k + 1 /\ s.levels[k + 1].page \in {"listing", "detail", "settings"}
  /\ \A i \in 1..k : s.levels[i].page = at.levels[i].page /\ s.levels[i].state = at.levels[i].state
  /\ \A i \in 1..(k - 1) : s.levels[i].focus = at.levels[i].focus
  /\ s.levels[k].focus = at.live

IsPopped(s, at, k) ==
  /\ k > 1 /\ Len(s.levels) = k - 1 /\ s.live = at.levels[k - 1].focus
  /\ \A i \in 1..(k - 1) : s.levels[i] = at.levels[i]
  /\ s.levels[k - 1].page = "listing" => s.levels[k - 1].state \in Asks
  /\ k > 2 => s.levels[k - 1].page = "listing"
  /\ k = 2 => s.levels[k - 1].page = "home"

\* A push that is not refused: the level below keeps its focus.
LEMMA PushedIs ==
    ASSUME NEW s, StackOK(s), NEW kind \in {"listing", "detail", "settings"}, NEW state \in AnyAsk, NEW given,
           (kind = "listing" => state \in Asks), s.levels[Len(s.levels)].page \in {"home", "listing"},
           NEW n, n = push_now(s, kind, state, given), ~Refused(s, kind, given), NEW k \in Nat, k = Len(s.levels)
    PROVE  StackOK(n) /\ IsPushed(n, s, k)
<1>1. PICK f \in Seq(LevelSet) : f = s.levels
    BY DEF StackOK
<1>2. k >= 1 /\ k = Len(f) /\ s.live \in FocusIds /\ f[k] \in LevelSet
    BY <1>1 DEF StackOK
<1>3. PICK lv : lv = [f[k] EXCEPT !.focus = s.live]
    OBVIOUS
<1>4. lv \in LevelSet /\ lv.page = f[k].page /\ lv.state = f[k].state /\ lv.focus = s.live
    BY <1>2, <1>3 DEF LevelSet
<1>5. PICK g : g = [f EXCEPT ![k] = lv]
    OBVIOUS
<1>6. /\ g \in Seq(LevelSet) /\ Len(g) = k /\ g[k] = lv /\ \A i \in 1..k : i # k => g[i] = f[i]
    BY <1>2, <1>4, <1>5
<1>7. Covered(s) = g
    BY <1>1, <1>2, <1>3, <1>5 DEF Covered, depth
<1>8. PICK e \in LevelSet : e = Level(kind, state) /\ e.page = kind /\ e.state = state
    BY LevelFacts
<1>9. PICK h : h = Append(g, e)
    OBVIOUS
<1>10. h \in Seq(LevelSet) /\ Len(h) = k + 1 /\ h[k + 1] = e /\ \A i \in 1..k : h[i] = g[i]
    BY <1>6, <1>8, <1>9
<1>11. n = [levels |-> h, live |-> NoFocus]
    BY <1>7, <1>8, <1>9 DEF push_now
<1>12. n.levels = h /\ n.live = NoFocus
    BY <1>11
<1>13. \A i \in 1..k : h[i].page = f[i].page /\ h[i].state = f[i].state
    BY ONLY <1>4, <1>6, <1>10
<1>14. (\A i \in 1..(k - 1) : h[i].focus = f[i].focus) /\ h[k].focus = s.live
    BY ONLY <1>2, <1>4, <1>6, <1>10, k \in Nat
<1>15. StackOK(n)
    <2>1. h[1].page = "home" /\ Len(h) >= 1
        BY <1>1, <1>2, <1>10, <1>13 DEF StackOK
    <2>2. \A i \in 2..Len(h) : h[i].page # "home"
        BY <1>1, <1>2, <1>8, <1>10, <1>13 DEF StackOK
    <2>3. ASSUME NEW i \in 2..(Len(h) - 1) PROVE h[i].page = "listing"
        <3>1. i \in 1..k /\ i >= 2
            BY <1>10, <2>3
        <3>2. CASE i = k
            <4>1. f[k].page # "home"
                BY <1>1, <1>2, <3>1, <3>2 DEF StackOK
            <4> QED BY <1>1, <1>13, <3>1, <3>2, <4>1
        <3>3. CASE i # k
            <4>1. i \in 2..(Len(s.levels) - 1)
                BY <3>1, <3>3
            <4>2. f[i].page = "listing"
                BY <1>1, <4>1 DEF StackOK
            <4> QED BY <1>13, <3>1, <4>2
        <3> QED BY <3>2, <3>3
    <2>4. \A i \in 2..Len(h) : h[i].page = "listing" => h[i].state \in Asks
        BY <1>1, <1>2, <1>8, <1>10, <1>13 DEF StackOK
    <2> QED BY <1>10, <1>11, <1>12, <2>1, <2>2, <2>3, <2>4, AskFacts DEF StackOK
<1>16. h[k + 1].page = kind
    BY <1>8, <1>10
<1>17. IsPushed(n, s, k)
    BY ONLY <1>1, <1>10, <1>12, <1>13, <1>14, <1>16, kind \in {"listing", "detail", "settings"} DEF IsPushed
<1> QED BY <1>15, <1>17

\* A pop of one of several.
LEMMA PoppedIs ==
    ASSUME NEW s, StackOK(s), NEW n, n = pop_now(s), NEW k \in Nat, k = Len(s.levels), k > 1
    PROVE  StackOK(n) /\ IsPopped(n, s, k)
<1>1. PICK f \in Seq(LevelSet) : f = s.levels
    BY DEF StackOK
<1>2. PICK h : h = SubSeq(f, 1, k - 1)
    OBVIOUS
<1>3. h \in Seq(LevelSet) /\ Len(h) = k - 1 /\ \A i \in 1..(k - 1) : h[i] = f[i]
    BY <1>1, <1>2
<1>4. n = [levels |-> h, live |-> f[k - 1].focus]
    BY <1>1, <1>2 DEF pop_now, depth
<1>5. n.levels = h /\ n.live = f[k - 1].focus
    BY <1>4
<1>6. f[k - 1] \in LevelSet
    BY <1>1
<1>7. n.live \in FocusIds
    BY <1>5, <1>6 DEF LevelSet
<1>8. /\ f[1].page = "home" /\ \A i \in 2..k : f[i].page # "home"
      /\ \A i \in 2..(k - 1) : f[i].page = "listing"
      /\ \A i \in 2..k : f[i].page = "listing" => f[i].state \in Asks
    BY <1>1 DEF StackOK
<1>9. /\ h[1].page = "home" /\ \A i \in 2..(k - 1) : h[i].page # "home"
      /\ \A i \in 2..(k - 2) : h[i].page = "listing"
      /\ \A i \in 2..(k - 1) : h[i].page = "listing" => h[i].state \in Asks
    <2>1. 1 \in 1..(k - 1) /\ 2..(k - 1) \subseteq 1..(k - 1) /\ 2..(k - 2) \subseteq 2..(k - 1)
          /\ 2..(k - 1) \subseteq 2..k
        BY ONLY k \in Nat, k > 1
    <2>2. h[1].page = "home" /\ \A i \in 2..(k - 1) : h[i] = f[i]
        BY ONLY <1>3, <1>8, <2>1
    <2>3. \A i \in 2..(k - 1) : i \in 2..k
        BY ONLY <2>1
    <2>4. \A i \in 2..(k - 1) : h[i].page # "home" /\ h[i].page = "listing"
                               /\ (h[i].page = "listing" => h[i].state \in Asks)
        BY ONLY <1>8, <2>2, <2>3
    <2> QED BY ONLY <2>1, <2>2, <2>4
<1>10. StackOK(n)
    BY <1>3, <1>4, <1>5, <1>7, <1>9 DEF StackOK
<1>11. k > 2 => k - 1 \in 2..(k - 1)
    OBVIOUS
<1>12. k = 2 => k - 1 = 1
    OBVIOUS
<1>13. h[k - 1] = f[k - 1] /\ k - 1 \in 1..k
    BY ONLY <1>3, k \in Nat, k > 1
<1>14. /\ f[k - 1].page = "listing" /\ k > 2 => f[k - 1].state \in Asks
       /\ k > 2 => f[k - 1].page = "listing"
       /\ k = 2 => f[k - 1].page = "home"
    BY ONLY <1>8, <1>11, <1>12, <1>13, k \in Nat, k > 1
<1>15. \A i \in 1..(k - 1) : n.levels[i] = s.levels[i]
    BY ONLY <1>1, <1>3, <1>5
<1>16. k = 2 \/ k > 2
    BY ONLY k \in Nat, k > 1
<1>17. IsPopped(n, s, k)
    BY ONLY <1>1, <1>3, <1>5, <1>13, <1>14, <1>15, <1>16, k > 1 DEF IsPopped
<1> QED BY <1>10, <1>17

\* What a frame may ask of the stack: nothing, or a page to be pushed.
NavOK(nav, circle) ==
  \/ nav = NoNav
  \/ /\ ~circle
     /\ \E kind \in {"listing", "detail", "settings"}, state \in AnyAsk, given \in {nav.given} :
          nav = PushAsk(kind, state, given) /\ (kind = "listing" => state \in Asks)

\* The end of a frame leaves the stack, pushes a page on it or pops one.
LEMMA EndIs ==
    ASSUME NEW at, StackOK(at), NEW nav, NEW circle \in BOOLEAN, NEW took \in BOOLEAN, NavOK(nav, circle),
           NEW k \in Nat, k = Len(at.levels),
           nav # NoNav => at.levels[k].page \in {"home", "listing"},
           NEW s, s = EndOfFrame(at, nav, circle, took, FALSE)
    PROVE  StackOK(s) /\ (s = at \/ IsPushed(s, at, k) \/ IsPopped(s, at, k))
<1>1. CASE nav = NoNav
    <2>1. CASE circle /\ ~took
        <3>1. s = pop_now(at)
            BY <1>1, <2>1 DEF EndOfFrame, screen_back, nav_ask, nav_now, NoNav, PopAsk
        <3>2. CASE k > 1
            BY ONLY StackOK(at), <3>1, <3>2, k \in Nat, k = Len(at.levels), PoppedIs
        <3>3. CASE k <= 1
            BY <3>1, <3>3 DEF pop_now, depth
        <3>4. k > 1 \/ k <= 1
            BY ONLY k \in Nat
        <3> QED BY <3>2, <3>3, <3>4
    <2>2. CASE ~(circle /\ ~took)
        BY <1>1, <2>2 DEF EndOfFrame, nav_now, NoNav
    <2> QED BY <2>1, <2>2
<1>2. CASE nav # NoNav
    <2>1. ~circle
        BY <1>2 DEF NavOK
    <2>2. PICK kind \in {"listing", "detail", "settings"}, state \in AnyAsk, given \in {nav.given} :
            nav = PushAsk(kind, state, given) /\ (kind = "listing" => state \in Asks)
        BY <1>2 DEF NavOK
    <2>3. nav.what = "push" /\ nav.page = kind /\ nav.state = state /\ nav.given = given
        BY <2>2 DEF PushAsk
    <2>4. s = push_now(at, kind, state, given)
        BY <2>1, <2>3 DEF EndOfFrame, nav_now
    <2>5. CASE Refused(at, kind, given)
        BY <2>4, <2>5 DEF push_now
    <2>6. CASE ~Refused(at, kind, given)
        <3>1. at.levels[Len(at.levels)].page \in {"home", "listing"}
            BY <1>2
        <3>2. StackOK(s) /\ IsPushed(s, at, k)
            BY ONLY StackOK(at), <2>2, <2>4, <2>6, <3>1, k \in Nat, k = Len(at.levels),
                    kind \in {"listing", "detail", "settings"}, state \in AnyAsk, PushedIs
        <3> QED BY <3>2
    <2> QED BY <2>5, <2>6
<1> QED BY <1>1, <1>2

\* The page that comes up: a new listing asks and draws nothing, one uncovered
\* draws what was there until its first frame.
LEMMA EnteredIs ==
    ASSUME BrowseTypeOK, NEW at, StackOK(at), NEW k \in Nat, k = Len(stack.levels), k = Len(at.levels),
           NEW s, StackOK(s), s = at \/ IsPushed(s, at, k) \/ IsPopped(s, at, k),
           NEW l \in ShelfSet, ItemsInv(l), NEW ea, ~ea => DrawnOK(at.levels, l),
           NEW n, n = Entered(l, s)
    PROVE  n \in ShelfSet /\ ItemsInv(n) /\ (~ea => DrawnOK(s.levels, n))
<1>1. depth(s) # 0 /\ depth(stack) = k /\ Top(s) = s.levels[Len(s.levels)]
    BY DEF StackOK, depth, Top
<1>2. PICK d \in Nat : d = Len(s.levels)
    BY DEF StackOK
<1>3. PICK a : a = s.levels[d].state
    OBVIOUS
<1>4. d >= 1
    BY <1>2 DEF StackOK
<1>5. a \in AnyAsk
    <2>1. s.levels \in Seq(LevelSet) /\ d \in 1..Len(s.levels)
        BY <1>2, <1>4 DEF StackOK
    <2>2. s.levels[d] \in LevelSet
        BY ONLY <2>1
    <2> QED BY <1>3, <2>2 DEF LevelSet
<1>6. CASE s = at
    <2>1. n = l \/ n = library_home(l)
        BY <1>1, <1>2, <1>6 DEF Entered, depth
    <2>2. n = l \/ (n \in ShelfSet /\ SameList(n, l))
        BY <2>1, HomeAsked
    <2>3. n \in ShelfSet /\ n.items = l.items /\ n.drawn = l.drawn
        BY <2>2 DEF SameList
    <2> QED BY <1>6, <2>3 DEF ItemsInv, DrawnOK, DrawnInv, Answers
<1>7. CASE IsPushed(s, at, k)
    <2>1. d = k + 1 /\ s.levels # stack.levels /\ Top(s).page \in {"listing", "detail", "settings"}
        <3>1. d = k + 1
            BY <1>2, <1>7 DEF IsPushed
        <3>2. s.levels # stack.levels
            <4> SUFFICES ASSUME s.levels = stack.levels PROVE FALSE
                OBVIOUS
            <4>1. Len(s.levels) = Len(stack.levels)
                BY Zenon
            <4>2. d = k
                BY <1>2, <4>1, Zenon
            <4> QED BY ONLY <3>1, <4>2, k \in Nat
        <3>3. Top(s) = s.levels[k + 1]
            BY ONLY <1>1, <1>2, <3>1
        <3> QED BY <1>7, <3>1, <3>2, <3>3 DEF IsPushed
    <2>2. depth(s) = d /\ depth(s) > depth(stack)
        BY <1>1, <1>2, <2>1 DEF depth
    <2>3. CASE s.levels[d].page = "listing"
        <3>1. n = reask(l, a)
            BY <1>1, <1>2, <1>3, <2>1, <2>2, <2>3 DEF Entered
        <3>2. n \in ShelfSet /\ ItemsInv(n) /\ n.drawn.rows = Nothing
            BY <1>5, <3>1, Reasked
        <3> QED BY <3>2 DEF DrawnOK, DrawnInv
    <2>4. CASE s.levels[d].page # "listing"
        <3>1. n = l
            BY <1>1, <1>2, <2>1, <2>2, <2>4 DEF Entered
        <3>2. ASSUME NEW i \in 1..Len(s.levels), IsTop(s.levels, i), DrawnOK(at.levels, l)
              PROVE  DrawnInv(l, s.levels[i].state)
            <4>1. i \in 1..k
                BY <1>2, <2>1, <2>4, <3>2 DEF IsTop
            <4>2. \A j \in 1..k : s.levels[j].page = at.levels[j].page /\ s.levels[j].state = at.levels[j].state
                BY <1>7 DEF IsPushed
            <4>3. IsTop(at.levels, i)
                BY <1>2, <2>1, <3>2, <4>1, <4>2 DEF IsTop
            <4> QED BY <3>2, <4>1, <4>2, <4>3 DEF DrawnOK
        <3> QED BY <3>1, <3>2 DEF DrawnOK
    <2> QED BY <2>3, <2>4
<1>8. CASE IsPopped(s, at, k)
    <2>1. /\ k > 1 /\ d = k - 1 /\ s.levels # stack.levels
          /\ k > 2 => s.levels[d].page = "listing"
          /\ k = 2 => s.levels[d].page = "home"
        <3>1. k > 1 /\ d = k - 1
            BY <1>2, <1>8 DEF IsPopped
        <3>2. s.levels # stack.levels
            <4> SUFFICES ASSUME s.levels = stack.levels PROVE FALSE
                OBVIOUS
            <4>1. Len(s.levels) = Len(stack.levels)
                BY Zenon
            <4>2. d = k
                BY <1>2, <4>1, Zenon
            <4> QED BY ONLY <3>1, <4>2, k \in Nat
        <3> QED BY <1>8, <3>1, <3>2 DEF IsPopped
    <2>2. depth(s) = d /\ depth(s) < depth(stack)
        BY <1>1, <1>2, <2>1 DEF depth
    <2>3. CASE k > 2
        <3>1. n = listing_resumed(l, a)
            BY <1>1, <1>2, <1>3, <2>1, <2>2, <2>3 DEF Entered
        <3>2. n \in ShelfSet /\ ItemsInv(n) /\ DrawnInv(n, a)
            BY <1>5, <3>1, Resumed
        <3>3. ASSUME NEW i \in 1..Len(s.levels), IsTop(s.levels, i) PROVE i = d
            <4>1. d \in 1..Len(s.levels) /\ s.levels[d].page = "listing"
                BY <1>2, <1>4, <2>1, <2>3
            <4> QED BY <1>2, <3>3, <4>1 DEF IsTop
        <3> QED BY <1>3, <3>2, <3>3 DEF DrawnOK
    <2>4. CASE k = 2
        <3>1. n = library_home(l)
            BY <1>1, <1>2, <2>1, <2>2, <2>4 DEF Entered
        <3>2. n \in ShelfSet /\ SameList(n, l)
            BY <3>1, HomeAsked
        <3>3. ASSUME NEW i \in 1..Len(s.levels) PROVE s.levels[i].page = "home"
            BY <1>2, <2>1, <2>4, <3>3
        <3> QED BY <3>2, <3>3 DEF SameList, ItemsInv, DrawnOK, IsTop
    <2>5. k = 2 \/ k > 2
        BY ONLY <2>1, k \in Nat
    <2> QED BY <2>3, <2>4, <2>5
<1> QED BY <1>6, <1>7, <1>8

\* The stack as a page's frame leaves it: the levels below as they were.
FrameLeaves(at, k) ==
  /\ StackOK(at) /\ k = Len(at.levels) /\ at.levels[k].page = stack.levels[k].page
  /\ \A i \in 1..(k - 1) : at.levels[i] = stack.levels[i]

\* A frame that leaves the top's page and the invariant, applied.
LEMMA AppliedKeeps ==
    ASSUME BrowseInv, NEW k \in Nat, k = Len(stack.levels), NEW at, FrameLeaves(at, k),
           NEW l \in ShelfSet, ItemsInv(l), ~early' => DrawnOK(at.levels, l),
           NEW nav, NEW circle \in BOOLEAN, NEW took \in BOOLEAN, NavOK(nav, circle),
           nav # NoNav => stack.levels[k].page \in {"home", "listing"},
           Applied(l, at, nav, circle, took),
           early' \in BOOLEAN, changes' \in Nat, onPanel' \in [ask : AnyAsk, rows : AnyAsk],
           DrawnAreThePages'
    PROVE  BrowseInv' /\ (depth(stack') < depth(stack) => stack'.live = leftAt[depth(stack')])
<1>1. BrowseTypeOK /\ FocusInv(stack, leftAt) /\ StackOK(stack) /\ StackOK(at)
    BY DEF BrowseInv, BrowseTypeOK, FrameLeaves
<1>2. PICK s : s = EndOfFrame(at, nav, circle, took, FALSE)
    OBVIOUS
<1>3. PICK n : n = Entered(l, s)
    OBVIOUS
<1>4. /\ stack' = s
      /\ items' = n.items /\ home' = n.home /\ drawn' = n.drawn
      /\ fetch' = [fetch EXCEPT !.current = n.current]
      /\ leftAt' = IF depth(s) > depth(stack) THEN Append(leftAt, at.live)
                   ELSE IF depth(s) < depth(stack) THEN SubSeq(leftAt, 1, depth(s) - 1) ELSE leftAt
    BY <1>2, <1>3 DEF Applied
<1>5. k = Len(at.levels) /\ at.levels[k].page = stack.levels[k].page
      /\ \A i \in 1..(k - 1) : at.levels[i] = stack.levels[i]
    BY DEF FrameLeaves
<1>6. StackOK(s) /\ (s = at \/ IsPushed(s, at, k) \/ IsPopped(s, at, k))
    BY <1>1, <1>2, <1>5, EndIs
<1>7. PICK ea \in BOOLEAN : ea = early'
    OBVIOUS
<1>8. n \in ShelfSet /\ ItemsInv(n) /\ (~ea => DrawnOK(s.levels, n))
    BY <1>1, <1>3, <1>5, <1>6, <1>7, EnteredIs
<1>9. PICK ft \in [kind : {"none", "items", "home"}, ask : AnyAsk, current : BOOLEAN] : ft = fetch
    BY <1>1 DEF BrowseTypeOK
<1>10. n.current \in BOOLEAN /\ n.items \in ItemsSet /\ n.home \in HomeSet /\ n.drawn \in DrawnSet
    BY <1>8 DEF ShelfSet
<1>11. /\ fetch' \in [kind : {"none", "items", "home"}, ask : AnyAsk, current : BOOLEAN]
       /\ fetch'.kind = fetch.kind /\ fetch'.current = n.current
    BY <1>4, <1>9, <1>10
<1>12. PICK g \in Seq(FocusIds) : g = leftAt
    BY <1>1 DEF BrowseTypeOK
<1>13. Len(g) = k - 1 /\ \A i \in 1..(k - 1) : stack.levels[i].focus = g[i]
    BY <1>1, <1>12 DEF FocusInv
<1>14. depth(stack) = k /\ depth(s) = Len(s.levels) /\ depth(stack') = Len(s.levels) /\ k >= 1
    BY <1>1, <1>4 DEF depth, StackOK
<1>15. /\ leftAt' \in Seq(FocusIds) /\ FocusInv(s, leftAt')
       /\ Len(s.levels) < k => s.live = g[Len(s.levels)]
    <2>1. CASE s = at
        <3>1. leftAt' = g
            BY <1>4, <1>5, <1>12, <1>14, <2>1
        <3>2. Len(s.levels) - 1 = k - 1 /\ ~(Len(s.levels) < k)
            BY ONLY <1>5, <2>1, k \in Nat
        <3>3. ASSUME NEW i \in 1..(k - 1) PROVE s.levels[i].focus = g[i]
            BY <1>5, <1>13, <2>1
        <3> QED BY <1>13, <3>1, <3>2, <3>3 DEF FocusInv
    <2>2. CASE IsPushed(s, at, k)
        <3>1. /\ Len(s.levels) = k + 1 /\ s.levels[k].focus = at.live
              /\ \A i \in 1..(k - 1) : s.levels[i].focus = at.levels[i].focus
            BY <2>2 DEF IsPushed
        <3>2. at.live \in FocusIds
            BY <1>1 DEF StackOK
        <3>3. leftAt' = Append(g, at.live)
            BY <1>4, <1>12, <1>14, <3>1
        <3>4. leftAt' \in Seq(FocusIds) /\ Len(leftAt') = k /\ leftAt'[k] = at.live
              /\ \A i \in 1..(k - 1) : leftAt'[i] = g[i]
            BY ONLY <1>13, <3>2, <3>3, g \in Seq(FocusIds), k \in Nat
        <3>5. ASSUME NEW i \in 1..k PROVE s.levels[i].focus = leftAt'[i]
            <4>1. CASE i = k
                BY <3>1, <3>4, <4>1
            <4>2. CASE i # k
                <5>1. i \in 1..(k - 1)
                    BY ONLY <4>2, i \in 1..k, k \in Nat
                <5> QED BY <1>5, <1>13, <3>1, <3>4, <5>1
            <4> QED BY <4>1, <4>2
        <3>6. Len(s.levels) - 1 = k /\ ~(Len(s.levels) < k)
            BY ONLY <3>1, k \in Nat
        <3> QED BY <3>4, <3>5, <3>6 DEF FocusInv
    <2>3. CASE IsPopped(s, at, k)
        <3>1. /\ k > 1 /\ Len(s.levels) = k - 1 /\ s.live = at.levels[k - 1].focus
              /\ \A i \in 1..(k - 1) : s.levels[i] = at.levels[i]
            BY <2>3 DEF IsPopped
        <3>2. leftAt' = SubSeq(g, 1, k - 2)
            BY <1>4, <1>12, <1>14, <3>1
        <3>3. leftAt' \in Seq(FocusIds) /\ Len(leftAt') = k - 2 /\ \A i \in 1..(k - 2) : leftAt'[i] = g[i]
            BY ONLY <1>13, <3>1, <3>2, g \in Seq(FocusIds), k \in Nat
        <3>4. k - 1 \in 1..(k - 1) /\ \A i \in 1..(k - 2) : i \in 1..(k - 1)
            BY ONLY <3>1, k \in Nat
        <3>5. s.live = g[k - 1]
            BY <1>5, <1>13, <3>1, <3>4
        <3>6. ASSUME NEW i \in 1..(k - 2) PROVE s.levels[i].focus = leftAt'[i]
            <4>1. i \in 1..(k - 1) /\ leftAt'[i] = g[i]
                BY ONLY <3>3, <3>4, i \in 1..(k - 2)
            <4>2. s.levels[i] = at.levels[i] /\ at.levels[i] = stack.levels[i] /\ stack.levels[i].focus = g[i]
                BY ONLY <1>5, <1>13, <3>1, <4>1
            <4> QED BY ONLY <4>1, <4>2
        <3>7. Len(s.levels) - 1 = k - 2
            BY ONLY <3>1, k \in Nat
        <3> QED BY <3>1, <3>3, <3>5, <3>6, <3>7 DEF FocusInv
    <2> QED BY <1>6, <2>1, <2>2, <2>3
<1>16. BrowseTypeOK'
    BY <1>4, <1>6, <1>10, <1>11, <1>15 DEF BrowseTypeOK, StackOK
<1>17. Shelf' = [items |-> n.items, home |-> n.home, current |-> n.current, drawn |-> n.drawn]
    BY <1>4, <1>11 DEF Shelf
<1>18. Shelf'.items = n.items /\ Shelf'.drawn = n.drawn
    BY <1>17
<1>19. ItemsInv(Shelf)'
    BY ONLY <1>8, <1>11, <1>18 DEF ItemsInv
<1>20. ~early' => DrawnOK(stack.levels, Shelf)'
    BY ONLY <1>4, <1>7, <1>8, <1>18 DEF DrawnOK, DrawnInv, Answers, IsTop
<1>21. FocusInv(stack, leftAt)'
    BY <1>4, <1>15 DEF FocusInv
<1>22. depth(stack') < depth(stack) => stack'.live = leftAt[depth(stack')]
    BY <1>4, <1>12, <1>14, <1>15
<1> QED BY <1>16, <1>19, <1>20, <1>21, <1>22 DEF BrowseInv

\* Wherever the focus lands there is a card, or the retry.
LEMMA Landing ==
    ASSUME NEW place \in FocusIds, NEW entries, entries = {} \/ entries = Cards \/ entries = {Retry}
    PROVE  Landed(place, entries) \in FocusIds /\ Moved(place, entries) \subseteq FocusIds
<1>1. entries \subseteq FocusIds
    BY DEF FocusIds
<1>2. entries = {} \/ \E e \in entries : \A f \in entries : e <= f
    <2>1. 1 \in Cards /\ \A f \in Cards : 1 <= f
        BY DEF Cards
    <2>2. Retry <= Retry
        BY DEF Retry
    <2> QED BY <2>1, <2>2
<1>3. entries = {} \/ (CHOOSE e \in entries : \A f \in entries : e <= f) \in entries
    BY <1>2
<1> QED BY <1>1, <1>3 DEF Landed, Moved

\* A frame moves the focus, and a listing's changes what it asks.
LEMMA FocusedLeaves ==
    ASSUME BrowseTypeOK, NEW k \in Nat, k = Len(stack.levels), NEW f \in FocusIds, NEW at, at = Focused(stack, f)
    PROVE  FrameLeaves(at, k) /\ at.levels = stack.levels
<1>1. StackOK(stack)
    BY DEF BrowseTypeOK
<1>2. at.levels = stack.levels /\ at.live = f /\ at = [levels |-> at.levels, live |-> at.live]
    BY <1>1 DEF Focused, StackOK
<1> QED BY <1>1, <1>2 DEF FrameLeaves, StackOK

\* A listing that asks anew changes the top alone.
LEMMA AskedLeaves ==
    ASSUME BrowseTypeOK, NEW k \in Nat, k = Len(stack.levels), NEW f \in FocusIds, NEW a \in Asks,
           stack.levels[k].page = "listing", NEW at, at = Focused(SetTop(stack, a), f)
    PROVE  /\ FrameLeaves(at, k) /\ at.levels[k].state = a
           /\ \A i \in 1..k : at.levels[i].page = stack.levels[i].page
<1>1. StackOK(stack)
    BY DEF BrowseTypeOK
<1>2. PICK g \in Seq(LevelSet) : g = stack.levels
    BY <1>1 DEF StackOK
<1>3. k >= 1 /\ k = Len(g) /\ g[k] \in LevelSet
    BY <1>1, <1>2 DEF StackOK
<1>4. PICK lv : lv = [g[k] EXCEPT !.state = a]
    OBVIOUS
<1>5. lv \in LevelSet /\ lv.page = g[k].page /\ lv.state = a
    BY <1>3, <1>4, AskFacts DEF LevelSet
<1>6. PICK h : h = [g EXCEPT ![k] = lv]
    OBVIOUS
<1>7. h \in Seq(LevelSet) /\ Len(h) = k /\ h[k] = lv /\ \A i \in 1..k : i # k => h[i] = g[i]
    BY <1>3, <1>5, <1>6
<1>8. at = [levels |-> h, live |-> f]
    <2>1. SetTop(stack, a) = [stack EXCEPT !.levels = h]
        BY <1>1, <1>2, <1>3, <1>4, <1>6 DEF SetTop, depth, StackOK
    <2> QED BY <1>1, <2>1 DEF Focused, StackOK
<1>9. at.levels = h /\ at.live = f
    BY <1>8
<1>10. \A i \in 1..k : h[i].page = g[i].page
    BY ONLY <1>5, <1>7
<1>11. \A i \in 1..(k - 1) : h[i] = g[i]
    BY ONLY <1>7, k \in Nat
<1>12. StackOK(at)
    <2>1. h[1].page = "home" /\ \A i \in 2..k : h[i].page # "home"
        BY <1>1, <1>2, <1>3, <1>10 DEF StackOK
    <2>2. \A i \in 2..(k - 1) : h[i].page = "listing"
        BY <1>1, <1>2, <1>3, <1>11 DEF StackOK
    <2>3. ASSUME NEW i \in 2..k, h[i].page = "listing" PROVE h[i].state \in Asks
        <3>1. CASE i = k
            BY <1>5, <1>7, <3>1
        <3>2. CASE i # k
            <4>1. i \in 1..k /\ h[i] = g[i]
                BY <1>7, <3>2
            <4> QED BY <1>1, <1>2, <1>3, <2>3, <4>1 DEF StackOK
        <3> QED BY <3>1, <3>2
    <2> QED BY <1>3, <1>7, <1>8, <1>9, <2>1, <2>2, <2>3 DEF StackOK
<1> QED BY <1>2, <1>3, <1>5, <1>7, <1>9, <1>10, <1>11, <1>12 DEF FrameLeaves

\* A listing on top is the one that is drawn.
LEMMA ListingOnTop ==
    ASSUME BrowseTypeOK, NEW k \in Nat, k = Len(stack.levels), stack.levels[k].page = "listing"
    PROVE  /\ k >= 2 /\ stack.levels[k].state \in Asks /\ IsTop(stack.levels, k)
           /\ Top(stack) = stack.levels[k]
           /\ (~RowsOfAnother => drawn.rows \in {Nothing, stack.levels[k].state})
<1>1. StackOK(stack)
    BY DEF BrowseTypeOK
<1>2. k >= 1 /\ k # 1 /\ k \in 2..k
    BY <1>1 DEF StackOK
<1>3. stack.levels[k].state \in Asks /\ Top(stack) = stack.levels[k] /\ depth(stack) = k
    BY <1>1, <1>2 DEF StackOK, Top, depth
<1>4. IsTop(stack.levels, k)
    BY <1>2 DEF IsTop
<1>5. k \in Listings /\ \A j \in Listings : j <= k /\ j \in Nat
    BY <1>2, <1>3 DEF Listings
<1>6. PICK top : top = CHOOSE i \in Listings : \A j \in Listings : j <= i
    OBVIOUS
<1>7. top \in Listings /\ \A j \in Listings : j <= top
    BY <1>5, <1>6
<1>8. top = k
    BY ONLY <1>5, <1>7, k \in Nat
<1>9. ~RowsOfAnother => drawn.rows \in {Nothing, stack.levels[k].state}
    BY <1>5, <1>6, <1>8 DEF RowsOfAnother
<1> QED BY <1>2, <1>3, <1>4, <1>9

\* The changes that are left.
LEMMA ChangeSpent ==
    ASSUME BrowseTypeOK, SpendChange \/ changes' = changes PROVE changes' \in Nat
BY DEF BrowseTypeOK, SpendChange

\* A page that may be pushed.
LEMMA PushNav ==
    ASSUME NEW kind \in {"listing", "detail", "settings"}, NEW state \in AnyAsk, NEW given,
           kind = "listing" => state \in Asks, NEW nav, nav = PushAsk(kind, state, given)
    PROVE  NavOK(nav, FALSE) /\ nav # NoNav
<1>1. nav.given = given /\ nav.what = "push" /\ NoNav.what = "none"
    BY DEF PushAsk, NoNav
<1> QED BY <1>1 DEF NavOK

\* A folder and an item may be.
LEMMA FolderNav ==
    ASSUME NEW p \in Parents PROVE NavOK(OpenFolder(p), FALSE) /\ NavOK(OpenItem, FALSE)
<1>1. [parent |-> p, sort |-> FirstSort] \in Asks
    BY BrowseAssumption DEF Asks
<1> QED BY <1>1, AskFacts, PushNav DEF OpenFolder, OpenItem

\* The front page's frame.
LEMMA HomeFrameKeeps ==
    ASSUME BrowseInv, NEW press, HomeFrame(press)
    PROVE  BrowseInv' /\ (depth(stack') < depth(stack) => stack'.live = leftAt[depth(stack')])
<1>1. BrowseTypeOK /\ StackOK(stack) /\ ItemsInv(Shelf) /\ (~early => DrawnOK(stack.levels, Shelf))
      /\ DrawnAreThePages
    BY DEF BrowseInv, BrowseTypeOK
<1>2. PICK k \in Nat : k = Len(stack.levels)
    BY <1>1 DEF StackOK
<1>3. PICK l : l = library_home(Shelf)
    OBVIOUS
<1>4. PICK l1 : l1 = IF press = "triangle" /\ l.home.state # "BUSY" THEN library_home(forget_home(l)) ELSE l
    OBVIOUS
<1>5. PICK entries : entries = IF l1.home.rails THEN Cards ELSE IF l1.home.state = "BUSY" THEN {} ELSE {Retry}
    OBVIOUS
<1>6. PICK again : again = (press = "cross" /\ ~l1.home.rails /\ entries # {} /\ stack.live = Retry)
    OBVIOUS
<1>7. PICK l2 : l2 = IF again THEN forget_home(l1) ELSE l1
    OBVIOUS
<1>8. PICK at : at = Focused(stack, Landed(stack.live, entries))
    OBVIOUS
<1>9. /\ Top(stack).page = "home"
      /\ IF press = "triangle" \/ again THEN SpendChange ELSE UNCHANGED changes
      /\ \/ /\ press = "cross" /\ l1.home.rails /\ stack.live \in Cards
            /\ \E p \in Parents : Applied(l2, at, OpenFolder(p), FALSE, FALSE)
         \/ press = "start" /\ l1.home.rails /\ Applied(l2, at, PushAsk("settings", Nothing, 0), FALSE, FALSE)
         \/ /\ press = "move"
            /\ \E f \in Moved(stack.live, entries) : Applied(l2, Focused(stack, f), NoNav, FALSE, FALSE)
         \/ press \in {"none", "triangle", "circle"} /\ Applied(l2, at, NoNav, press = "circle", FALSE)
         \/ again /\ Applied(l2, at, NoNav, FALSE, FALSE)
      /\ UNCHANGED <<onPanel, early>>
    BY <1>3, <1>4, <1>5, <1>6, <1>7, <1>8 DEF HomeFrame
<1>10. l2 \in ShelfSet /\ l2.items = items /\ l2.drawn = drawn
    <2>1. l \in ShelfSet /\ SameList(l, Shelf)
        BY <1>1, <1>3, ShelfIs, HomeAsked
    <2>2. PICK fl : fl = forget_home(l)
        OBVIOUS
    <2>3. fl \in ShelfSet /\ SameList(fl, l)
        BY <2>1, <2>2, HomeForgotten
    <2>4. l1 \in ShelfSet /\ SameList(l1, Shelf)
        <3>1. CASE l1 = l
            BY <2>1, <3>1
        <3>2. CASE l1 = library_home(fl)
            <4>1. l1 \in ShelfSet /\ SameList(l1, fl)
                BY <2>3, <3>2, HomeAsked
            <4> QED BY <2>1, <2>3, <4>1 DEF SameList
        <3> QED BY <1>4, <2>2, <3>1, <3>2
    <2>5. l2 \in ShelfSet /\ SameList(l2, Shelf)
        <3>1. CASE l2 = l1
            BY <2>4, <3>1
        <3>2. CASE l2 = forget_home(l1)
            <4>1. l2 \in ShelfSet /\ SameList(l2, l1)
                BY <2>4, <3>2, HomeForgotten
            <4> QED BY <2>4, <4>1 DEF SameList
        <3> QED BY <1>7, <3>1, <3>2
    <2> QED BY <1>1, <2>5, ShelfIs DEF SameList
<1>11. ItemsInv(l2)
    BY <1>1, <1>10, ShelfIs DEF ItemsInv
<1>12. ~early' => DrawnOK(stack.levels, l2)
    BY <1>1, <1>9, <1>10, ShelfIs DEF DrawnOK, DrawnInv, Answers
<1>13. /\ stack.live \in FocusIds /\ Landed(stack.live, entries) \in FocusIds
       /\ Moved(stack.live, entries) \subseteq FocusIds
    BY <1>1, <1>5, Landing DEF StackOK
<1>14. FrameLeaves(at, k) /\ at.levels = stack.levels
    BY <1>1, <1>2, <1>8, <1>13, FocusedLeaves
<1>15. stack.levels[k].page = "home"
    BY <1>2, <1>9 DEF Top, depth
<1>16. /\ early' \in BOOLEAN /\ changes' \in Nat /\ onPanel' \in [ask : AnyAsk, rows : AnyAsk]
       /\ DrawnAreThePages'
    <2>1. changes' \in Nat
        BY <1>1, <1>9, ChangeSpent
    <2> QED BY <1>1, <1>9, <2>1 DEF BrowseTypeOK, DrawnAreThePages
<1>17. PICK no \in BOOLEAN : no = FALSE
    OBVIOUS
<1>18. ASSUME NEW nav, NavOK(nav, FALSE), Applied(l2, at, nav, FALSE, FALSE)
       PROVE  BrowseInv' /\ (depth(stack') < depth(stack) => stack'.live = leftAt[depth(stack')])
    <2>1. NavOK(nav, no) /\ Applied(l2, at, nav, no, no) /\ (~early' => DrawnOK(at.levels, l2))
        BY <1>12, <1>14, <1>17, <1>18
    <2> QED BY ONLY BrowseInv, <1>2, <1>10, <1>11, <1>14, <1>15, <1>16, <2>1, no \in BOOLEAN, k \in Nat,
                    AppliedKeeps
<1>19. NavOK(NoNav, FALSE) /\ NavOK(NoNav, TRUE)
    BY DEF NavOK
<1>20. CASE \E p \in Parents : Applied(l2, at, OpenFolder(p), FALSE, FALSE)
    <2>1. PICK p \in Parents : Applied(l2, at, OpenFolder(p), FALSE, FALSE)
        BY <1>20
    <2>2. NavOK(OpenFolder(p), FALSE)
        BY FolderNav
    <2> QED BY <1>18, <2>1, <2>2
<1>21. CASE Applied(l2, at, PushAsk("settings", Nothing, 0), FALSE, FALSE)
    <2>1. NavOK(PushAsk("settings", Nothing, 0), FALSE)
        BY PushNav, AskFacts
    <2> QED BY <1>18, <1>21, <2>1
<1>22. CASE \E f \in Moved(stack.live, entries) : Applied(l2, Focused(stack, f), NoNav, FALSE, FALSE)
    <2>1. PICK f \in Moved(stack.live, entries) : Applied(l2, Focused(stack, f), NoNav, FALSE, FALSE)
        BY <1>22
    <2>2. PICK am : am = Focused(stack, f)
        OBVIOUS
    <2>3. f \in FocusIds
        BY <1>13
    <2>4. FrameLeaves(am, k) /\ am.levels = stack.levels
        BY <1>1, <1>2, <2>2, <2>3, FocusedLeaves
    <2>5. NavOK(NoNav, no) /\ Applied(l2, am, NoNav, no, no) /\ (~early' => DrawnOK(am.levels, l2))
        BY <1>12, <1>17, <1>19, <2>1, <2>2, <2>4
    <2> QED BY ONLY BrowseInv, <1>2, <1>10, <1>11, <1>15, <1>16, <2>4, <2>5, no \in BOOLEAN, k \in Nat,
                    AppliedKeeps
<1>23. CASE Applied(l2, at, NoNav, press = "circle", FALSE)
    <2>1. PICK circle \in BOOLEAN : circle = (press = "circle")
        OBVIOUS
    <2>2. NavOK(NoNav, circle) /\ Applied(l2, at, NoNav, circle, no) /\ (~early' => DrawnOK(at.levels, l2))
        BY <1>12, <1>14, <1>17, <1>23, <2>1 DEF NavOK
    <2> QED BY ONLY BrowseInv, <1>2, <1>10, <1>11, <1>14, <1>15, <1>16, <2>2, no \in BOOLEAN, circle \in BOOLEAN,
                    k \in Nat, AppliedKeeps
<1>24. CASE Applied(l2, at, NoNav, FALSE, FALSE)
    BY <1>18, <1>19, <1>24
<1> QED BY <1>9, <1>20, <1>21, <1>22, <1>23, <1>24

WasTo(l, st) == [l EXCEPT !.drawn.was = st]

\* The state a page has seen is nothing the library goes by.
LEMMA WasSetTo ==
    ASSUME NEW l \in ShelfSet, NEW st \in States, NEW n, n = WasTo(l, st)
    PROVE  /\ n \in ShelfSet /\ n.items = l.items /\ n.drawn.rows = l.drawn.rows
           /\ n.drawn.taken = l.drawn.taken /\ (ItemsInv(l) => ItemsInv(n))
<1>1. PICK dr \in DrawnSet : dr = l.drawn
    BY DEF ShelfSet
<1>2. PICK k : k = [dr EXCEPT !.was = st]
    OBVIOUS
<1>3. k \in DrawnSet /\ k.rows = dr.rows /\ k.taken = dr.taken
    BY <1>2 DEF DrawnSet
<1>4. n = [l EXCEPT !.drawn = k]
    BY <1>1, <1>2 DEF ShelfSet, WasTo
<1>5. n \in ShelfSet /\ n.items = l.items /\ n.drawn = k
    BY <1>3, <1>4 DEF ShelfSet
<1> QED BY <1>1, <1>3, <1>5 DEF ItemsInv

\* The listing that is drawn is the one on top.
LEMMA OnlyTop ==
    ASSUME NEW at, NEW k \in Nat, FrameLeaves(at, k), NEW l, at.levels[k].page = "listing",
           DrawnInv(l, at.levels[k].state)
    PROVE  DrawnOK(at.levels, l)
<1>1. k = Len(at.levels) /\ k >= 1
    BY DEF FrameLeaves, StackOK
<1> SUFFICES ASSUME NEW i \in 1..Len(at.levels), IsTop(at.levels, i) PROVE DrawnInv(l, at.levels[i].state)
    BY DEF DrawnOK
<1>2. k \in 1..Len(at.levels)
    BY <1>1
<1>3. k <= i /\ i <= k
    BY <1>1, <1>2 DEF IsTop
<1>4. i = k
    BY ONLY <1>1, <1>3, i \in 1..Len(at.levels), k \in Nat
<1> QED BY <1>4

\* A listing's frame: it asks, takes what answers it, and draws that.
LEMMA ListingFrameKeeps ==
    ASSUME BrowseInv, NEW press, NEW sort, press = "square" => sort \in Sorts, ListingFrame(press, sort)
    PROVE  BrowseInv' /\ (depth(stack') < depth(stack) => stack'.live = leftAt[depth(stack')])
<1>1. BrowseTypeOK /\ StackOK(stack) /\ ItemsInv(Shelf) /\ (~early => DrawnOK(stack.levels, Shelf))
      /\ DrawnAreThePages
    BY DEF BrowseInv, BrowseTypeOK
<1>2. PICK k \in Nat : k = Len(stack.levels)
    BY <1>1 DEF StackOK
<1> DEFINE
    a0 == Top(stack).state
    a == IF press = "square" THEN [a0 EXCEPT !.sort = sort] ELSE a0
    s0 == SetTop(stack, a)
    l0 == IF a # a0 THEN reask(Shelf, a) ELSE Shelf
    l1 == IF press = "triangle" /\ drawn.was # "BUSY" THEN refetch(l0, a) ELSE l0
    l2 == take(l1, a)
    rows == l2.drawn.rows
    again == (press = "cross" /\ rows = Nothing /\ l2.items.state = "FAILED" /\ stack.live = Retry)
    lr == IF again THEN refetch(l2, a) ELSE l2
    l3 == WasTo(lr, l2.items.state)
    entries == IF rows # Nothing THEN Cards
               ELSE IF l2.items.state \in {"FAILED", "READY"} THEN {Retry} ELSE {}
    at == Focused(s0, Landed(stack.live, entries))
<1>3. /\ Top(stack).page = "listing"
      /\ TooEarly(press = "triangle")
      /\ IF press \in {"triangle", "square"} \/ again THEN SpendChange ELSE UNCHANGED changes
      /\ IF press = "start"
         THEN /\ Applied(l1, stack, PushAsk("settings", Nothing, 0), FALSE, FALSE)
              /\ UNCHANGED onPanel
         ELSE /\ onPanel' = [ask |-> a, rows |-> rows]
              /\ \/ /\ press = "cross" /\ rows # Nothing /\ stack.live \in Cards
                    /\ \E nav \in {OpenFolder(p) : p \in Parents} \cup {OpenItem} :
                         Applied(l3, at, nav, FALSE, FALSE)
                 \/ /\ press = "move"
                    /\ \E f \in Moved(stack.live, entries) : Applied(l3, Focused(s0, f), NoNav, FALSE, FALSE)
                 \/ /\ press \in {"none", "triangle", "square", "circle"}
                    /\ Applied(l3, at, NoNav, press = "circle", FALSE)
                 \/ again /\ Applied(l3, at, NoNav, FALSE, FALSE)
    BY DEF ListingFrame, WasTo
<1>4. a0 = Top(stack).state
    OBVIOUS
<1>5. a = IF press = "square" THEN [a0 EXCEPT !.sort = sort] ELSE a0
    OBVIOUS
<1>6. s0 = SetTop(stack, a)
    OBVIOUS
<1>7. l0 = IF a # a0 THEN reask(Shelf, a) ELSE Shelf
    OBVIOUS
<1>8. l1 = IF press = "triangle" /\ drawn.was # "BUSY" THEN refetch(l0, a) ELSE l0
    OBVIOUS
<1>9. l2 = take(l1, a)
    OBVIOUS
<1>10. rows = l2.drawn.rows
    OBVIOUS
<1>11. again = (press = "cross" /\ rows = Nothing /\ l2.items.state = "FAILED" /\ stack.live = Retry)
    OBVIOUS
<1>12. lr = IF again THEN refetch(l2, a) ELSE l2
    OBVIOUS
<1>13. l3 = WasTo(lr, l2.items.state)
    OBVIOUS
<1>14. entries = IF rows # Nothing THEN Cards
                    ELSE IF l2.items.state \in {"FAILED", "READY"} THEN {Retry} ELSE {}
    OBVIOUS
<1>15. at = Focused(s0, Landed(stack.live, entries))
    OBVIOUS
<1> HIDE DEF a0, a, s0, l0, l1, l2, rows, again, lr, l3, entries, at
<1>16. stack.levels[k].page = "listing"
    BY <1>2, <1>3 DEF Top, depth
<1>17. /\ k >= 2 /\ stack.levels[k].state \in Asks /\ IsTop(stack.levels, k) /\ Top(stack) = stack.levels[k]
       /\ (~RowsOfAnother => drawn.rows \in {Nothing, stack.levels[k].state})
    BY <1>1, <1>2, <1>16, ListingOnTop
<1>18. a0 = stack.levels[k].state /\ a0 \in Asks
    BY <1>4, <1>17
<1>19. a \in Asks /\ a \in AnyAsk
    <2>1. [a0 EXCEPT !.sort = sort] \in Asks \/ press # "square"
        BY <1>18 DEF Asks
    <2> QED BY <1>5, <1>18, <2>1, AskFacts
<1>20. PICK ea \in BOOLEAN : ea = early'
    BY <1>3 DEF TooEarly
<1>21. ~ea => ~early /\ (press = "triangle" => ~RowsOfAnother)
    BY <1>3, <1>20 DEF TooEarly
<1>22. ~ea => DrawnInv(Shelf, a0)
    <2>1. k \in 1..Len(stack.levels)
        BY <1>2, <1>17
    <2> QED BY <1>1, <1>17, <1>18, <1>21, <2>1 DEF DrawnOK
<1>23. l0 \in ShelfSet /\ ItemsInv(l0) /\ (~ea => DrawnInv(l0, a))
    <2>1. CASE a # a0
        <3>1. l0 \in ShelfSet /\ ItemsInv(l0) /\ l0.drawn.rows = Nothing
            BY <1>1, <1>7, <1>19, <2>1, ShelfIs, Reasked
        <3> QED BY <3>1 DEF DrawnInv
    <2>2. CASE a = a0
        BY <1>1, <1>7, <1>22, <2>2, ShelfIs
    <2> QED BY <2>1, <2>2
<1>24. l1 \in ShelfSet /\ ItemsInv(l1) /\ (~ea => DrawnInv(l1, a))
    <2>1. CASE press = "triangle" /\ drawn.was # "BUSY"
        <3>1. l1 = refetch(l0, a)
            BY <1>8, <2>1
        <3>2. l1 \in ShelfSet /\ ItemsInv(l1) /\ l1.drawn.rows = l0.drawn.rows
            BY <1>19, <1>23, <3>1, Refetched
        <3>3. l0 = Shelf /\ a = a0
            BY <1>5, <1>7, <2>1
        <3>4. ~ea => drawn.rows \in {Nothing, a0}
            BY <1>17, <1>18, <1>21, <2>1
        <3>5. Shelf.drawn = drawn
            BY <1>1, ShelfIs
        <3> QED BY <3>2, <3>3, <3>4, <3>5 DEF DrawnInv
    <2>2. CASE ~(press = "triangle" /\ drawn.was # "BUSY")
        BY <1>8, <1>23, <2>2
    <2> QED BY <2>1, <2>2
<1>25. l2 \in ShelfSet /\ ItemsInv(l2) /\ (~ea => rows \in {Nothing, a})
    BY <1>9, <1>10, <1>19, <1>24, Taken
<1>26. rows \in AnyAsk /\ l2.items.state \in States
    BY <1>10, <1>25 DEF ShelfSet, DrawnSet, ItemsSet
<1>27. lr \in ShelfSet /\ ItemsInv(lr) /\ lr.drawn.rows = rows
    <2>1. CASE again
        BY <1>10, <1>12, <1>19, <1>25, <2>1, Refetched
    <2>2. CASE ~again
        BY <1>10, <1>12, <1>25, <2>2
    <2> QED BY <2>1, <2>2
<1>28. l3 \in ShelfSet /\ ItemsInv(l3) /\ l3.drawn.rows = rows
    BY <1>13, <1>26, <1>27, WasSetTo
<1>29. ~ea => DrawnInv(l3, a)
    BY <1>25, <1>28 DEF DrawnInv
<1>30. /\ stack.live \in FocusIds /\ Landed(stack.live, entries) \in FocusIds
       /\ Moved(stack.live, entries) \subseteq FocusIds
    BY <1>1, <1>14, Landing DEF StackOK
<1>31. ASSUME NEW f \in FocusIds, NEW am, am = Focused(s0, f)
       PROVE  FrameLeaves(am, k) /\ (~early' => DrawnOK(am.levels, l3))
    <2>1. FrameLeaves(am, k) /\ am.levels[k].state = a /\ am.levels[k].page = stack.levels[k].page
        <3>1. k \in 1..k
            BY <1>17
        <3> QED BY <1>1, <1>2, <1>6, <1>16, <1>19, <1>31, <3>1, AskedLeaves
    <2>2. am.levels[k].page = "listing"
        BY <1>16, <2>1
    <2> QED BY <1>20, <1>29, <2>1, <2>2, OnlyTop
<1>32. /\ early' \in BOOLEAN /\ changes' \in Nat
    BY <1>1, <1>3, <1>20, ChangeSpent
<1>33. onPanel' \in [ask : AnyAsk, rows : AnyAsk] /\ DrawnAreThePages'
    <2>1. CASE press = "start"
        BY <1>1, <1>3, <1>20, <1>21, <2>1 DEF BrowseTypeOK, DrawnAreThePages
    <2>2. CASE press # "start"
        <3>1. onPanel' = [ask |-> a, rows |-> rows]
            BY <1>3, <2>2
        <3> QED BY <1>19, <1>20, <1>25, <1>26, <3>1 DEF DrawnAreThePages
    <2> QED BY <2>1, <2>2
<1>34. PICK no \in BOOLEAN : no = FALSE
    OBVIOUS
<1>35. stack.levels[k].page \in {"home", "listing"}
    BY <1>16
<1>36. ASSUME NEW f \in FocusIds, NEW nav, NEW circle \in BOOLEAN, NavOK(nav, circle),
              NEW am, am = Focused(s0, f), Applied(l3, am, nav, circle, no)
       PROVE  BrowseInv' /\ (depth(stack') < depth(stack) => stack'.live = leftAt[depth(stack')])
    <2>1. FrameLeaves(am, k) /\ (~early' => DrawnOK(am.levels, l3))
        BY <1>31, <1>36
    <2>2. NavOK(nav, circle) /\ Applied(l3, am, nav, circle, no)
        BY <1>36
    <2> QED BY ONLY BrowseInv, <1>2, <1>28, <1>32, <1>33, <1>35, <2>1, <2>2, no \in BOOLEAN, circle \in BOOLEAN,
                    k \in Nat, AppliedKeeps
<1>37. CASE press = "start"
    <2>1. PICK nav : nav = PushAsk("settings", Nothing, 0)
        OBVIOUS
    <2>2. NavOK(nav, no) /\ Applied(l1, stack, nav, no, no)
        <3>1. NavOK(nav, FALSE)
            BY <2>1, PushNav, AskFacts
        <3> QED BY <1>3, <1>34, <1>37, <2>1, <3>1
    <2>3. FrameLeaves(stack, k)
        BY <1>1, <1>2 DEF FrameLeaves
    <2>4. a = a0
        BY <1>5, <1>37
    <2>5. ~early' => DrawnOK(stack.levels, l1)
        BY <1>16, <1>18, <1>20, <1>24, <2>3, <2>4, OnlyTop
    <2> QED BY ONLY BrowseInv, <1>2, <1>24, <1>32, <1>33, <1>35, <2>2, <2>3, <2>5, no \in BOOLEAN,
                    k \in Nat, AppliedKeeps
<1>38. CASE \E nav \in {OpenFolder(p) : p \in Parents} \cup {OpenItem} : Applied(l3, at, nav, FALSE, FALSE)
    <2>1. PICK nav \in {OpenFolder(p) : p \in Parents} \cup {OpenItem} : Applied(l3, at, nav, FALSE, FALSE)
        BY <1>38
    <2>2. NavOK(nav, no)
        <3>1. CASE nav = OpenItem
            <4>1. NavOK(OpenItem, FALSE)
                BY AskFacts, PushNav DEF OpenItem
            <4> QED BY <1>34, <3>1, <4>1
        <3>2. CASE nav \in {OpenFolder(p) : p \in Parents}
            BY <1>34, <3>2, FolderNav
        <3> QED BY <2>1, <3>1, <3>2
    <2> QED BY <1>15, <1>30, <1>34, <1>36, <2>1, <2>2
<1>39. CASE \E f \in Moved(stack.live, entries) : Applied(l3, Focused(s0, f), NoNav, FALSE, FALSE)
    <2>1. PICK f \in Moved(stack.live, entries) : Applied(l3, Focused(s0, f), NoNav, FALSE, FALSE)
        BY <1>39
    <2>2. f \in FocusIds /\ NavOK(NoNav, no)
        BY <1>30 DEF NavOK
    <2> QED BY <1>34, <1>36, <2>1, <2>2
<1>40. CASE Applied(l3, at, NoNav, press = "circle", FALSE)
    <2>1. PICK circle \in BOOLEAN : circle = (press = "circle")
        OBVIOUS
    <2>2. NavOK(NoNav, circle) /\ Applied(l3, at, NoNav, circle, no)
        BY <1>34, <1>40, <2>1 DEF NavOK
    <2> QED BY <1>15, <1>30, <1>36, <2>2
<1>41. CASE Applied(l3, at, NoNav, FALSE, FALSE)
    <2>1. NavOK(NoNav, no) /\ Applied(l3, at, NoNav, no, no)
        BY <1>34, <1>41 DEF NavOK
    <2> QED BY <1>15, <1>30, <1>36, <2>1
<1> QED BY <1>3, <1>37, <1>38, <1>39, <1>40, <1>41

\* The order changed and the page left in one frame.
LEMMA SquareCircleKeeps ==
    ASSUME BrowseInv, SquareCircle
    PROVE  BrowseInv' /\ (depth(stack') < depth(stack) => stack'.live = leftAt[depth(stack')])
<1>1. BrowseTypeOK /\ StackOK(stack) /\ ItemsInv(Shelf) /\ (~early => DrawnOK(stack.levels, Shelf))
      /\ DrawnAreThePages
    BY DEF BrowseInv, BrowseTypeOK
<1>2. PICK k \in Nat : k = Len(stack.levels)
    BY <1>1 DEF StackOK
<1>3. PICK a : a = Top(stack).state
    OBVIOUS
<1>4. PICK l : l = take(Shelf, a)
    OBVIOUS
<1>5. PICK n : n = WasTo(l, l.items.state)
    OBVIOUS
<1>6. /\ Top(stack).page = "listing"
      /\ onPanel' = [ask |-> a, rows |-> l.drawn.rows]
      /\ Applied(n, stack, NoNav, TRUE, TRUE)
      /\ UNCHANGED <<changes, early>>
    BY <1>3, <1>4, <1>5 DEF SquareCircle, WasTo
<1>7. stack.levels[k].page = "listing"
    BY <1>2, <1>6 DEF Top, depth
<1>8. /\ k >= 2 /\ stack.levels[k].state \in Asks /\ IsTop(stack.levels, k) /\ Top(stack) = stack.levels[k]
    BY <1>1, <1>2, <1>7, ListingOnTop
<1>9. a = stack.levels[k].state /\ a \in AnyAsk
    BY <1>3, <1>8, AskFacts
<1>10. ~early => DrawnInv(Shelf, a)
    <2>1. k \in 1..Len(stack.levels)
        BY <1>2, <1>8
    <2> QED BY <1>1, <1>8, <1>9, <2>1 DEF DrawnOK
<1>11. l \in ShelfSet /\ ItemsInv(l) /\ (~early => l.drawn.rows \in {Nothing, a})
    BY <1>1, <1>4, <1>9, <1>10, ShelfIs, Taken
<1>12. l.items.state \in States /\ l.drawn.rows \in AnyAsk
    BY <1>11 DEF ShelfSet, ItemsSet, DrawnSet
<1>13. n \in ShelfSet /\ ItemsInv(n) /\ n.drawn.rows = l.drawn.rows
    BY <1>5, <1>11, <1>12, WasSetTo
<1>14. FrameLeaves(stack, k)
    BY <1>1, <1>2 DEF FrameLeaves
<1>15. ~early' => DrawnOK(stack.levels, n)
    <2>1. ~early => DrawnInv(n, stack.levels[k].state)
        BY <1>9, <1>11, <1>13 DEF DrawnInv
    <2> QED BY <1>6, <1>7, <1>14, <2>1, OnlyTop
<1>16. /\ early' \in BOOLEAN /\ changes' \in Nat /\ onPanel' \in [ask : AnyAsk, rows : AnyAsk]
       /\ DrawnAreThePages'
    BY <1>1, <1>6, <1>9, <1>11, <1>12 DEF BrowseTypeOK, DrawnAreThePages
<1>17. PICK yes \in BOOLEAN : yes = TRUE
    OBVIOUS
<1>18. NavOK(NoNav, yes) /\ Applied(n, stack, NoNav, yes, yes) /\ stack.levels[k].page \in {"home", "listing"}
    BY <1>6, <1>7, <1>17 DEF NavOK
<1> QED BY ONLY BrowseInv, <1>2, <1>13, <1>14, <1>15, <1>16, <1>18, yes \in BOOLEAN, k \in Nat, AppliedKeeps

\* A frame of what covers a listing.
LEMMA CoverFrameKeeps ==
    ASSUME BrowseInv, CoverFrame
    PROVE  BrowseInv' /\ (depth(stack') < depth(stack) => stack'.live = leftAt[depth(stack')])
<1>1. BrowseTypeOK /\ StackOK(stack) /\ ItemsInv(Shelf) /\ (~early => DrawnOK(stack.levels, Shelf))
      /\ DrawnAreThePages
    BY DEF BrowseInv, BrowseTypeOK
<1>2. PICK k \in Nat : k = Len(stack.levels)
    BY <1>1 DEF StackOK
<1>3. PICK at : at = Focused(stack, 1)
    OBVIOUS
<1>4. PICK l : l = Shelf
    OBVIOUS
<1>5. Applied(l, at, NoNav, TRUE, FALSE) /\ UNCHANGED <<changes, onPanel, early>>
    BY <1>3, <1>4 DEF CoverFrame
<1>6. FrameLeaves(at, k) /\ at.levels = stack.levels
    BY <1>1, <1>2, <1>3, AskFacts, FocusedLeaves
<1>7. l \in ShelfSet /\ ItemsInv(l) /\ (~early' => DrawnOK(at.levels, l))
    BY <1>1, <1>4, <1>5, <1>6, ShelfIs
<1>8. /\ early' \in BOOLEAN /\ changes' \in Nat /\ onPanel' \in [ask : AnyAsk, rows : AnyAsk]
      /\ DrawnAreThePages'
    BY <1>1, <1>5 DEF BrowseTypeOK, DrawnAreThePages
<1>9. PICK yes \in BOOLEAN, no \in BOOLEAN : yes = TRUE /\ no = FALSE
    OBVIOUS
<1>10. NavOK(NoNav, yes) /\ Applied(l, at, NoNav, yes, no)
    BY <1>5, <1>9 DEF NavOK
<1>11. NoNav # NoNav => stack.levels[k].page \in {"home", "listing"}
    OBVIOUS
<1> QED BY ONLY BrowseInv, <1>2, <1>6, <1>7, <1>8, <1>10, <1>11, yes \in BOOLEAN, no \in BOOLEAN, k \in Nat,
                AppliedKeeps

-----------------------------------------------------------------------------
\* The worker takes a want and answers it.
LEMMA FetchTakesKeeps == ASSUME BrowseInv, FetchTakes PROVE BrowseInv'
<1>1. BrowseTypeOK /\ ItemsInv(Shelf) /\ (~early => DrawnOK(stack.levels, Shelf))
    BY DEF BrowseInv
<1>2. PICK it \in ItemsSet, hm \in HomeSet, dr \in DrawnSet : it = items /\ hm = home /\ dr = drawn
    BY <1>1 DEF BrowseTypeOK
<1>3. Shelf.items = it /\ Shelf.drawn = dr
    BY <1>2 DEF Shelf
<1>4. /\ items' \in ItemsSet /\ home' \in HomeSet
      /\ fetch' \in [kind : {"none", "items", "home"}, ask : AnyAsk, current : BOOLEAN]
      /\ fetch'.kind = "items" => it.pending
      /\ items'.pending => it.pending
      /\ items'.state = it.state /\ items'.rows = it.rows /\ items'.have = it.have
    <2>1. CASE /\ items.pending
               /\ fetch' = [kind |-> "items", ask |-> items.want, current |-> TRUE]
               /\ items' = [items EXCEPT !.pending = FALSE] /\ UNCHANGED home
        BY <1>2, <2>1 DEF ItemsSet, HomeSet
    <2>2. CASE /\ home.pending
               /\ fetch' = [kind |-> "home", ask |-> Nothing, current |-> TRUE]
               /\ home' = [home EXCEPT !.pending = FALSE] /\ UNCHANGED items
        BY <1>2, <2>2, AskFacts DEF ItemsSet, HomeSet
    <2> QED BY <2>1, <2>2 DEF FetchTakes
<1>5. drawn' = dr /\ Shelf'.items = items' /\ Shelf'.drawn = dr
    BY <1>2 DEF FetchTakes, Shelf
<1>6. ItemsInv(Shelf)'
    BY <1>1, <1>3, <1>4, <1>5 DEF ItemsInv
<1>7. UNCHANGED <<stack, drawn, changes, onPanel, leftAt, early>>
    BY DEF FetchTakes
<1>8. BrowseTypeOK'
    BY <1>1, <1>4, <1>7 DEF BrowseTypeOK, StackOK
<1>9. (~early => DrawnOK(stack.levels, Shelf))'
    BY <1>1, <1>3, <1>4, <1>5, <1>7 DEF DrawnOK, DrawnInv, Answers, IsTop
<1>10. FocusInv(stack, leftAt)' /\ DrawnAreThePages'
    BY <1>7 DEF BrowseInv, FocusInv, DrawnAreThePages
<1> QED BY <1>6, <1>8, <1>9, <1>10 DEF BrowseInv

\* The server answers, or does not.
LEMMA FetchAnswersKeeps == ASSUME BrowseInv, NEW ok \in BOOLEAN, FetchAnswers(ok) PROVE BrowseInv'
<1>1. BrowseTypeOK /\ ItemsInv(Shelf) /\ (~early => DrawnOK(stack.levels, Shelf))
    BY DEF BrowseInv
<1>2. PICK it \in ItemsSet, hm \in HomeSet, dr \in DrawnSet,
           ft \in [kind : {"none", "items", "home"}, ask : AnyAsk, current : BOOLEAN] :
        it = items /\ hm = home /\ dr = drawn /\ ft = fetch
    BY <1>1 DEF BrowseTypeOK
<1>3. Shelf.items = it /\ Shelf.drawn = dr
    BY <1>2 DEF Shelf
<1>4. UNCHANGED <<stack, changes, onPanel, leftAt, early>> /\ fetch' = NoFetch
    BY DEF FetchAnswers
<1>5. /\ fetch' \in [kind : {"none", "items", "home"}, ask : AnyAsk, current : BOOLEAN]
      /\ fetch'.kind = "none"
    BY <1>4, AskFacts DEF NoFetch
<1>6. /\ items' \in ItemsSet /\ home' \in HomeSet /\ drawn' \in DrawnSet
      /\ items'.pending => items'.state = "BUSY"
      /\ items'.state = "READY" => items'.rows = items'.have
      /\ \A a : DrawnInv(Shelf, a) =>
                 \/ drawn'.rows \in {Nothing, a}
                 \/ items'.state = "READY" /\ items'.have = a /\ items'.rows # Nothing /\ ~drawn'.taken
    <2>1. CASE fetch.kind # "items"
        <3>1. PICK st \in States : st = IF ft.current THEN After(hm.pending, ok) ELSE hm.state
            BY <1>2 DEF After, HomeSet, States
        <3>2. home' = [hm EXCEPT !.rails = ok, !.state = st] /\ UNCHANGED <<items, drawn>>
            BY <1>2, <2>1, <3>1 DEF FetchAnswers
        <3>3. home' \in HomeSet
            BY <3>1, <3>2 DEF HomeSet
        <3> QED BY <1>1, <1>2, <1>3, <1>5, <3>2, <3>3 DEF ItemsInv, DrawnInv, Answers
    <2>2. CASE fetch.kind = "items"
        <3>1. PICK st \in States : st = IF ft.current THEN After(it.pending, ok) ELSE it.state
            BY <1>2 DEF After, ItemsSet, States
        <3>2. PICK rw \in AnyAsk : rw = IF ok THEN ft.ask ELSE Nothing
            BY <1>2, AskFacts
        <3>3. PICK hv \in AnyAsk : hv = IF ok /\ ft.current THEN ft.ask ELSE it.have
            BY <1>2 DEF ItemsSet
        <3>4. PICK tk \in BOOLEAN : tk = (dr.taken /\ ~(ok /\ ft.current))
            BY <1>2 DEF DrawnSet
        <3>5. /\ items' = [it EXCEPT !.rows = rw, !.have = hv, !.state = st]
              /\ drawn' = [dr EXCEPT !.taken = tk] /\ home' = hm
            BY <1>2, <2>2, <3>1, <3>2, <3>3, <3>4 DEF FetchAnswers
        <3>6. /\ items' \in ItemsSet /\ home' \in HomeSet /\ drawn' \in DrawnSet
              /\ items'.state = st /\ items'.rows = rw /\ items'.have = hv /\ items'.pending = it.pending
              /\ drawn'.rows = dr.rows
            BY <3>1, <3>2, <3>3, <3>4, <3>5 DEF ItemsSet, DrawnSet
        <3>7. /\ it.pending => it.state = "BUSY"
              /\ it.state # "READY"
            BY <1>1, <1>2, <1>3, <2>2 DEF ItemsInv
        <3>8. /\ it.pending => st = "BUSY"
              /\ st = "READY" => ok /\ ft.current /\ rw = hv
            BY <3>1, <3>2, <3>3, <3>7 DEF After
        <3>9. \A a : DrawnInv(Shelf, a) => dr.rows \in {Nothing, a}
            BY <1>3, <3>7 DEF DrawnInv, Answers
        <3> QED BY <3>6, <3>8, <3>9
    <2> QED BY <2>1, <2>2
<1>7. Shelf'.items = items' /\ Shelf'.drawn = drawn'
    BY DEF Shelf
<1>8. ItemsInv(Shelf)'
    BY <1>5, <1>6, <1>7 DEF ItemsInv
<1>9. BrowseTypeOK'
    BY <1>1, <1>4, <1>5, <1>6 DEF BrowseTypeOK, StackOK
<1>10. (~early => DrawnOK(stack.levels, Shelf))'
    <2> SUFFICES ASSUME ~early, NEW i \in 1..Len(stack.levels), IsTop(stack.levels, i)
                 PROVE  DrawnInv(Shelf, stack.levels[i].state)'
        BY <1>4 DEF DrawnOK, IsTop
    <2>1. PICK a : a = stack.levels[i].state
        OBVIOUS
    <2>2. DrawnInv(Shelf, a)
        BY <1>1, <2>1 DEF DrawnOK
    <2> QED BY <1>4, <1>6, <1>7, <2>1, <2>2 DEF DrawnInv, Answers
<1>11. FocusInv(stack, leftAt)' /\ DrawnAreThePages'
    BY <1>4 DEF BrowseInv, FocusInv, DrawnAreThePages
<1> QED BY <1>8, <1>9, <1>10, <1>11 DEF BrowseInv

\* The listing given up, and the lists gone stale.
LEMMA WatchItemsKeeps == ASSUME BrowseInv, WatchItems PROVE BrowseInv'
<1>1. BrowseTypeOK /\ ItemsInv(Shelf) /\ (~early => DrawnOK(stack.levels, Shelf))
    BY DEF BrowseInv
<1>2. PICK it \in ItemsSet, dr \in DrawnSet,
           ft \in [kind : {"none", "items", "home"}, ask : AnyAsk, current : BOOLEAN] :
        it = items /\ dr = drawn /\ ft = fetch
    BY <1>1 DEF BrowseTypeOK
<1>3. Shelf.items = it /\ Shelf.drawn = dr /\ Shelf'.items = items' /\ Shelf'.drawn = drawn'
    BY <1>2 DEF Shelf
<1>4. UNCHANGED <<stack, home, drawn, onPanel, leftAt, early>> /\ it.state = "BUSY"
    BY <1>2 DEF WatchItems
<1>5. changes' \in Nat
    BY <1>1, ChangeSpent DEF WatchItems
<1>6. /\ items' \in ItemsSet /\ items'.state = "FAILED" /\ ~items'.pending
    BY <1>2 DEF WatchItems, ItemsSet, States
<1>7. fetch' \in [kind : {"none", "items", "home"}, ask : AnyAsk, current : BOOLEAN]
    BY <1>2 DEF WatchItems
<1>8. BrowseTypeOK'
    BY <1>1, <1>4, <1>5, <1>6, <1>7 DEF BrowseTypeOK, StackOK
<1>9. ItemsInv(Shelf)'
    BY <1>3, <1>6 DEF ItemsInv
<1>10. (~early => DrawnOK(stack.levels, Shelf))'
    BY <1>1, <1>2, <1>3, <1>4 DEF DrawnOK, DrawnInv, Answers, IsTop
<1>11. FocusInv(stack, leftAt)' /\ DrawnAreThePages'
    BY <1>4 DEF BrowseInv, FocusInv, DrawnAreThePages
<1> QED BY <1>8, <1>9, <1>10, <1>11 DEF BrowseInv

\* A mark or a stop has landed, and the lists are stale.
LEMMA ListsOvertakenKeeps == ASSUME BrowseInv, ListsOvertaken PROVE BrowseInv'
<1>1. BrowseTypeOK /\ StackOK(stack) /\ ItemsInv(Shelf) /\ (~early => DrawnOK(stack.levels, Shelf))
    BY DEF BrowseInv, BrowseTypeOK
<1>2. PICK it \in ItemsSet, hm \in HomeSet, dr \in DrawnSet,
           ft \in [kind : {"none", "items", "home"}, ask : AnyAsk, current : BOOLEAN] :
        it = items /\ hm = home /\ dr = drawn /\ ft = fetch
    BY <1>1 DEF BrowseTypeOK
<1>3. Shelf'.items = items' /\ Shelf'.drawn = drawn'
    BY DEF Shelf
<1>4. UNCHANGED <<stack, drawn, onPanel, leftAt>>
    BY DEF ListsOvertaken
<1>5. changes' \in Nat
    BY <1>1, ChangeSpent DEF ListsOvertaken
<1>6. PICK ea \in BOOLEAN : ea = early'
    BY DEF ListsOvertaken, TooEarly
<1>7. ~ea => ~early /\ ~RowsOfAnother
    BY <1>6 DEF ListsOvertaken, TooEarly
<1>8. items' \in ItemsSet /\ items'.state = "IDLE" /\ ~items'.pending
    BY <1>2, AskFacts DEF ListsOvertaken, ItemsSet, States
<1>9. home' \in HomeSet
    BY <1>2 DEF ListsOvertaken, HomeSet, States
<1>10. fetch' \in [kind : {"none", "items", "home"}, ask : AnyAsk, current : BOOLEAN]
    BY <1>2 DEF ListsOvertaken
<1>11. BrowseTypeOK'
    BY <1>1, <1>4, <1>5, <1>6, <1>8, <1>9, <1>10 DEF BrowseTypeOK, StackOK
<1>12. ItemsInv(Shelf)'
    BY <1>3, <1>8 DEF ItemsInv
<1>13. (~early => DrawnOK(stack.levels, Shelf))'
    <2> SUFFICES ASSUME ~ea, NEW i \in 1..Len(stack.levels), IsTop(stack.levels, i)
                 PROVE  dr.rows \in {Nothing, stack.levels[i].state}
        BY <1>2, <1>3, <1>4, <1>6 DEF DrawnOK, DrawnInv, IsTop
    <2>1. PICK k \in Nat : k = Len(stack.levels)
        BY <1>1 DEF StackOK
    <2>2. depth(stack) = k
        BY <2>1 DEF depth
    <2>3. i \in Listings /\ \A j \in Listings : j <= i /\ j \in Nat
        BY <2>1, <2>2 DEF Listings, IsTop
    <2>4. PICK top : top = CHOOSE j \in Listings : \A m \in Listings : m <= j
        OBVIOUS
    <2>5. top \in Listings /\ \A j \in Listings : j <= top
        BY <2>3, <2>4
    <2>6. top = i
        BY ONLY <2>3, <2>5
    <2> QED BY <1>2, <1>7, <2>3, <2>4, <2>6 DEF RowsOfAnother
<1>14. FocusInv(stack, leftAt)' /\ DrawnAreThePages'
    BY <1>4, <1>6, <1>7 DEF BrowseInv, FocusInv, DrawnAreThePages
<1> QED BY <1>11, <1>12, <1>13, <1>14 DEF BrowseInv

-----------------------------------------------------------------------------
\* The start.
LEMMA BrowseBegins == ASSUME BrowseInit PROVE BrowseInv
<1>1. stack = push_now(NoScreens, "home", Nothing, 0)
    BY DEF BrowseInit, reset_now
<1>2. ~Refused(NoScreens, "home", 0)
    BY BrowseAssumption
<1>3. stack = [levels |-> Append(Covered(NoScreens), Level("home", Nothing)), live |-> NoFocus]
    BY <1>1, <1>2 DEF push_now
<1>4. Covered(NoScreens) = <<>>
    BY DEF Covered, NoScreens, depth
<1>5. PICK lv : lv = Level("home", Nothing)
    OBVIOUS
<1>6. lv \in LevelSet /\ lv.page = "home"
    BY <1>5, AskFacts DEF Level, LevelSet, FocusIds
<1>7. PICK g : g = Append(<<>>, lv)
    OBVIOUS
<1>8. g \in Seq(LevelSet) /\ Len(g) = 1 /\ g[1] = lv
    BY <1>6, <1>7
<1>9. stack = [levels |-> g, live |-> NoFocus]
    BY <1>3, <1>4, <1>5, <1>7
<1>10. StackOK(stack)
    <2>1. stack.levels = g /\ stack.live = NoFocus /\ stack = [levels |-> stack.levels, live |-> stack.live]
        BY ONLY <1>9
    <2>2. 2..1 = {} /\ 2..(1 - 1) = {} /\ NoFocus \in FocusIds
        BY DEF FocusIds
    <2>3. g[1].page = "home" /\ Len(g) >= 1
        BY ONLY <1>6, <1>8
    <2>4. 2..Len(g) = {} /\ 2..(Len(g) - 1) = {}
        BY ONLY <1>8, <2>2
    <2> QED BY ONLY <1>8, <2>1, <2>2, <2>3, <2>4, Zenon DEF StackOK
<1>11. leftAt \in Seq(FocusIds) /\ Len(leftAt) = 0
    BY DEF BrowseInit
<1>12. BrowseTypeOK
    BY <1>10, <1>11, AskFacts, BrowseAssumption
       DEF BrowseInit, BrowseTypeOK, ItemsSet, HomeSet, DrawnSet, States, NoFetch
<1>13. FocusInv(stack, leftAt)
    <2>1. stack.levels = g
        BY ONLY <1>9
    <2>2. 1..(1 - 1) = {} /\ 0 = 1 - 1
        OBVIOUS
    <2> QED BY ONLY <1>8, <1>11, <2>1, <2>2 DEF FocusInv
<1>14. ItemsInv(Shelf) /\ DrawnOK(stack.levels, Shelf) /\ DrawnAreThePages
    BY DEF BrowseInit, ItemsInv, Shelf, DrawnOK, DrawnInv, DrawnAreThePages
<1> QED BY <1>12, <1>13, <1>14 DEF BrowseInv

\* Every step keeps the invariant, and a level that is uncovered has its focus.
LEMMA BrowseSteps ==
    ASSUME BrowseInv, BrowseNext \/ UNCHANGED browseVars
    PROVE  BrowseInv' /\ (depth(stack') < depth(stack) => stack'.live = leftAt[depth(stack')])
<1>1. PICK k \in Nat : k = depth(stack)
    BY DEF BrowseInv, BrowseTypeOK, StackOK, depth
<1>2. stack' = stack => ~(depth(stack') < depth(stack))
    BY <1>1
<1>3. CASE \E press : HomeFrame(press)
    BY <1>3, HomeFrameKeeps
<1>4. CASE \E press \in {"none", "triangle", "cross", "move", "start", "circle"} :
             ListingFrame(press, Top(stack).state.sort)
    <2>1. PICK press \in {"none", "triangle", "cross", "move", "start", "circle"} :
            ListingFrame(press, Top(stack).state.sort)
        BY <1>4
    <2>2. press # "square"
        BY <2>1
    <2> QED BY <2>1, <2>2, ListingFrameKeeps
<1>5. CASE \E sort \in Sorts : ListingFrame("square", sort)
    BY <1>5, ListingFrameKeeps
<1>6. CASE SquareCircle
    BY <1>6, SquareCircleKeeps
<1>7. CASE CoverFrame
    BY <1>7, CoverFrameKeeps
<1>8. CASE FetchTakes
    <2>1. stack' = stack
        BY <1>8 DEF FetchTakes
    <2> QED BY <1>2, <1>8, <2>1, FetchTakesKeeps
<1>9. CASE WatchItems
    <2>1. stack' = stack
        BY <1>9 DEF WatchItems
    <2> QED BY <1>2, <1>9, <2>1, WatchItemsKeeps
<1>10. CASE ListsOvertaken
    <2>1. stack' = stack
        BY <1>10 DEF ListsOvertaken
    <2> QED BY <1>2, <1>10, <2>1, ListsOvertakenKeeps
<1>11. CASE \E ok \in BOOLEAN : FetchAnswers(ok)
    <2>1. stack' = stack
        BY <1>11 DEF FetchAnswers
    <2> QED BY <1>2, <1>11, <2>1, FetchAnswersKeeps
<1>12. CASE UNCHANGED browseVars
    BY <1>2, <1>12
       DEF BrowseInv, BrowseTypeOK, StackOK, ItemsInv, Shelf, FocusInv, DrawnOK, DrawnInv, Answers, IsTop,
           DrawnAreThePages, browseVars
<1> QED BY <1>3, <1>4, <1>5, <1>6, <1>7, <1>8, <1>9, <1>10, <1>11, <1>12 DEF BrowseNext

\* The rows that are drawn are of the folder and the order the page is of,
\* however many listings are on the stack and whatever they have asked the one
\* listing of the library for: listing.c's take(), reask() and resumed().
THEOREM RowsAreThePages == BrowseSpec => []DrawnAreThePages
<1>1. BrowseInit => BrowseInv
    BY BrowseBegins
<1>2. BrowseInv /\ [BrowseNext]_browseVars => BrowseInv'
    BY BrowseSteps
<1>3. BrowseInv => DrawnAreThePages
    BY DEF BrowseInv
<1> QED BY <1>1, <1>2, <1>3, PTL DEF BrowseSpec

\* A level that is uncovered has the focus it was left at, through any pages in
\* between: stack.c's push_now() and pop_now() under every page's frames.
THEOREM LevelsComeBack == BrowseSpec => FocusReturns
<1>1. BrowseInit => BrowseInv
    BY BrowseBegins
<1>2. BrowseInv /\ [BrowseNext]_browseVars => BrowseInv'
    BY BrowseSteps
<1>3. BrowseInv /\ [BrowseNext]_browseVars
        => [depth(stack') < depth(stack) => stack'.live = leftAt[depth(stack')]]_browseVars
    BY BrowseSteps
<1> QED BY <1>1, <1>2, <1>3, PTL DEF BrowseSpec, FocusReturns

-----------------------------------------------------------------------------
(* A direction held (Focus). *)

\* What is left of the delay covers what is left of the wait.
WaitInv ==
  /\ lastUs \in Nat /\ age \in Nat
  /\ (prevDir # "none" /\ age < RepeatDelay) => repeatIn \in Int /\ repeatIn >= RepeatDelay - age

\* A frame takes from the delay no more than the time since the last one.
LEMMA FocusFrameWaits ==
    ASSUME WaitInv, NEW l \in frames, NEW dir, NEW pressed \in BOOLEAN, NEW gap \in Gaps,
           FocusFrame(l, dir, pressed, (lastUs + gap) % Clock)
    PROVE  WaitInv' /\ ((focus \in Touched(layout') /\ focus' # focus)
                          => prevDir' # "none" /\ (age' = 0 \/ age' >= RepeatDelay))
<1>1. PICK now \in Nat : now = (lastUs + gap) % Clock
    BY FocusAssumption DEF WaitInv
<1>2. PICK dt \in Nat : dt = IF lastUs = 0 THEN 0 ELSE (now - lastUs) % Clock
    BY FocusAssumption DEF WaitInv
<1>3. PICK r : r = Held(dir, pressed, dt)
    OBVIOUS
<1>4. /\ pressed => dir # "none"
      /\ layout' = l /\ (focus \in Touched(l) /\ focus' # focus => r.fire /\ dir # "none")
      /\ prevDir' = dir /\ repeatIn' = r.in
      /\ lastUs' = IF now = 0 THEN 1 ELSE now
      /\ age' = IF pressed \/ dir # prevDir THEN 0
                ELSE IF age + dt > RepeatDelay THEN RepeatDelay ELSE age + dt
    <2>1. focus \in Touched(l) => l # <<>>
        BY DEF Touched
    <2> QED BY <1>1, <1>2, <1>3, <2>1 DEF FocusFrame
<1>5. lastUs' \in Nat /\ age' \in Nat
    BY <1>4, FocusAssumption DEF WaitInv
<1>6. CASE pressed \/ dir # prevDir
    <2>1. r.in = RepeatDelay
        <3>1. CASE pressed
            BY <1>3, <3>1 DEF Held
        <3>2. CASE ~pressed /\ dir # prevDir
            BY <1>3, <3>2 DEF Held
        <3> QED BY <1>6, <3>1, <3>2
    <2> QED BY <1>4, <1>5, <1>6, <2>1, FocusAssumption DEF WaitInv
<1>7. CASE ~pressed /\ dir = prevDir /\ dir # "none"
    <2>1. PICK hold : hold = Capped(holdUs + dt)
        OBVIOUS
    <2>2. r = [fire |-> repeatIn - dt <= 0, hold |-> hold,
               in |-> IF repeatIn - dt <= 0 THEN repeat_rate_us(hold) ELSE repeatIn - dt]
        BY <1>3, <1>7, <2>1 DEF Held
    <2>3. (age + dt < RepeatDelay) => ~(repeatIn - dt <= 0) /\ repeatIn - dt \in Int
                                      /\ repeatIn - dt >= RepeatDelay - (age + dt)
        BY <1>7, FocusAssumption DEF WaitInv
    <2>4. age' < RepeatDelay => age + dt < RepeatDelay /\ age' = age + dt
        BY <1>4, <1>7, FocusAssumption DEF WaitInv
    <2>5. age' < RepeatDelay => repeatIn' = repeatIn - dt /\ ~r.fire
        BY <1>4, <2>2, <2>3, <2>4
    <2>6. WaitInv'
        BY <1>5, <2>3, <2>4, <2>5 DEF WaitInv
    <2>7. age' < RepeatDelay => (focus \notin Touched(layout') \/ focus' = focus)
        BY <1>4, <2>5
    <2>8. prevDir' # "none"
        BY <1>4, <1>7
    <2> QED BY <1>5, <2>6, <2>7, <2>8, FocusAssumption
<1>8. CASE ~pressed /\ dir = prevDir /\ dir = "none"
    BY <1>4, <1>5, <1>8 DEF WaitInv
<1> QED BY <1>6, <1>7, <1>8

\* While its widget stays on the page only a direction moves the focus, and one
\* that is held moves it again only when the delay since it went down, or since it
\* was rolled to, is over: ui_frame_begin()'s repeat, over frames that register any
\* widgets, with a clock that wraps and frames of any length.
THEOREM HeldWaits == FocusSpec => RepeatWaits
<1>1. FocusInit => WaitInv
    BY DEF FocusInit, WaitInv
<1>2. WaitInv /\ [FocusNext]_focusVars => WaitInv'
    BY FocusFrameWaits DEF FocusNext, WaitInv, focusVars
<1>3. WaitInv /\ [FocusNext]_focusVars
        => [(focus \in Touched(layout') /\ focus' # focus)
              => prevDir' # "none" /\ (age' = 0 \/ age' >= RepeatDelay)]_focusVars
    BY FocusFrameWaits DEF FocusNext
<1> QED BY <1>1, <1>2, <1>3, PTL DEF FocusSpec, RepeatWaits

-----------------------------------------------------------------------------
(* The boxes a page is laid out in (Layout). *)

RectSet == [x : Int, y : Int, w : Nat, h : Nat]
BoxSet  == [box : RectSet, axis : {"down", "across"}, gap : Nat, at : Int, end : Int,
            started : BOOLEAN, ended : BOOLEAN]

\* A box whose cursors have not met, nor left its ends untaken.
BoxOK(b) ==
  /\ b \in BoxSet /\ b.at <= b.end
  /\ ~b.started => b.at = Near(b)
  /\ ~b.ended => b.end = Near(b) + Room(b)

Within(s, r) == /\ r.x <= s.x /\ s.x + s.w <= r.x + r.w
                /\ r.y <= s.y /\ s.y + s.h <= r.y + r.h
Free(r, s) == Empty(r) \/ Empty(s) \/ Apart(r, s)

\* What is left of the open boxes and what was handed out: no two over one
\* another, and all of it on the panel.
Laid(bs, sl) ==
  /\ bs \in Seq(BoxSet) /\ Len(bs) >= 1 /\ sl \in Seq(RectSet)
  /\ \A i \in 1..Len(bs) : BoxOK(bs[i]) /\ OnThePanel(Remaining(bs[i]))
  /\ \A i \in 1..Len(sl) : OnThePanel(sl[i])
  /\ \A i, j \in 1..Len(bs) : i < j => Free(Remaining(bs[i]), Remaining(bs[j]))
  /\ \A i, j \in 1..Len(sl) : i < j => Free(sl[i], sl[j])
  /\ \A i \in 1..Len(bs), j \in 1..Len(sl) : Free(Remaining(bs[i]), sl[j])

LayoutInv == spilled \in BOOLEAN /\ (~spilled => Laid(boxes, slots))

\* What is left of a box is a rectangle.
LEMMA RemainingIs ==
    ASSUME NEW b, BoxOK(b) PROVE Remaining(b) \in RectSet
BY DEF BoxOK, BoxSet, RectSet, Remaining, Down, Rect

\* What is within a place is over nothing the place is not over.
LEMMA WithinFree ==
    ASSUME NEW r \in RectSet, NEW s \in RectSet, NEW t \in RectSet, Within(s, r)
    PROVE  /\ Free(r, t) => Free(s, t)
           /\ Free(t, r) => Free(t, s)
           /\ OnThePanel(r) => OnThePanel(s)
<1>1. Empty(r) => Empty(s)
    BY DEF Empty, Within, RectSet
<1>2. Apart(r, t) => Apart(s, t)
    BY DEF Apart, Within, RectSet
<1>3. Apart(t, r) => Apart(t, s)
    BY DEF Apart, Within, RectSet
<1>4. OnThePanel(r) => OnThePanel(s)
    BY LayoutAssumption DEF OnThePanel, Within, RectSet
<1> QED BY <1>1, <1>2, <1>3, <1>4 DEF Free

\* And neither is over the other.
LEMMA FreeBothWays ==
    ASSUME NEW r \in RectSet, NEW s \in RectSet, Free(r, s) PROVE Free(s, r)
BY DEF Free, Apart

\* What is taken from an end and what is left of the box part what there was.
LEMMA NearTaken ==
    ASSUME NEW b, BoxOK(b), NEW w \in Nat, NEW h \in Nat, ~ExceedsNear(b, w, h),
           NEW taken, taken = TakeNear(b, w, h)
    PROVE  /\ BoxOK(taken.box) /\ Within(Remaining(taken.box), Remaining(b))
           /\ taken.slot \in RectSet /\ Within(taken.slot, Remaining(b))
           /\ Free(Remaining(taken.box), taken.slot)
<1>1. b \in BoxSet /\ b.box \in RectSet /\ b.at \in Int /\ b.end \in Int /\ b.gap \in Nat /\ b.at <= b.end
    BY DEF BoxOK, BoxSet
<1>2. PICK between \in Nat : between = IF b.started THEN b.gap ELSE 0
    BY <1>1
<1>3. PICK at \in Int : at = b.at + between
    BY <1>1
<1>4. PICK c : c = [b EXCEPT !.at = at]
    OBVIOUS
<1>5. c \in BoxSet /\ c.at = at /\ c.box = b.box /\ c.axis = b.axis /\ c.end = b.end /\ c.gap = b.gap
      /\ c.ended = b.ended
    BY <1>1, <1>4 DEF BoxSet
<1>6. PICK free : free = Remaining(c)
    OBVIOUS
<1>7. PICK sw : sw = OrRest(w, free.w)
    OBVIOUS
<1>8. PICK sh : sh = OrRest(h, free.h)
    OBVIOUS
<1>9. PICK next : next = at + IF Down(b) THEN sh ELSE sw
    OBVIOUS
<1>10. PICK yes \in BOOLEAN : yes = TRUE
    OBVIOUS
<1>11. PICK d : d = [c EXCEPT !.at = next, !.started = yes]
    OBVIOUS
<1>12. Down(c) = Down(b)
    BY <1>5 DEF Down
<1>13. taken.box = d /\ taken.slot = Rect(free.x, IF Down(b) THEN free.y ELSE free.y + Centred(free.h, sh),
                                          NotLess(sw), NotLess(sh))
    <2>1. taken = [box |-> d, slot |-> Rect(free.x, IF Down(c) THEN free.y ELSE free.y + Centred(free.h, sh),
                                            NotLess(sw), NotLess(sh))]
        BY <1>2, <1>3, <1>4, <1>5, <1>6, <1>7, <1>8, <1>9, <1>10, <1>11, <1>12 DEF TakeNear
    <2> QED BY <1>12, <2>1
<1>14. CASE Down(b)
    <2>1. PICK r \in RectSet : r = b.box
        BY <1>1
    <2>2. r.x \in Int /\ r.y \in Int /\ r.w \in Nat /\ r.h \in Nat
        BY DEF RectSet
    <2>3. free = Rect(r.x, at, r.w, b.end - at) /\ Remaining(b) = Rect(r.x, b.at, r.w, b.end - b.at)
        BY <1>5, <1>6, <1>12, <1>14, <2>1 DEF Remaining
    <2>4. between + h <= b.end - b.at /\ w <= r.w
        BY <1>1, <1>2, <1>14, <2>1, <2>2 DEF ExceedsNear, Exceeds
    <2>5. free.w = r.w /\ free.h = b.end - at /\ free.x = r.x /\ free.y = at
        BY <2>3 DEF Rect
    <2>6. sw \in Nat /\ sw <= r.w /\ sh \in Nat /\ at + sh <= b.end
        BY <1>1, <1>2, <1>3, <1>7, <1>8, <2>2, <2>4, <2>5 DEF OrRest
    <2>7. next = at + sh /\ next \in Int /\ next <= b.end /\ b.at <= at
        BY <1>1, <1>3, <1>9, <1>14, <2>6
    <2>8. d \in BoxSet /\ d.at = next /\ d.box = r /\ d.axis = b.axis /\ d.end = b.end /\ d.started
          /\ d.ended = b.ended
        BY <1>5, <1>10, <1>11, <2>1, <2>7 DEF BoxSet
    <2>9. Down(d) /\ Near(d) = Near(b) /\ Room(d) = Room(b)
        BY <1>14, <2>1, <2>8 DEF Down, Near, Room
    <2>10. BoxOK(d)
        BY <2>7, <2>8, <2>9 DEF BoxOK
    <2>11. Remaining(d) = Rect(r.x, next, r.w, b.end - next)
        BY <2>8, <2>9 DEF Remaining
    <2>12. taken.slot = Rect(r.x, at, sw, sh)
        BY <1>13, <1>14, <2>5, <2>6 DEF NotLess
    <2>13. Within(Remaining(d), Remaining(b)) /\ Within(taken.slot, Remaining(b)) /\ taken.slot \in RectSet
        BY <1>1, <2>2, <2>3, <2>6, <2>7, <2>11, <2>12 DEF Within, Rect, RectSet
    <2>14. Free(Remaining(d), taken.slot)
        BY <1>1, <2>2, <2>6, <2>7, <2>11, <2>12 DEF Free, Apart, Rect
    <2> QED BY <1>13, <2>10, <2>13, <2>14
<1>15. CASE ~Down(b)
    <2>1. PICK r \in RectSet : r = b.box
        BY <1>1
    <2>2. r.x \in Int /\ r.y \in Int /\ r.w \in Nat /\ r.h \in Nat
        BY DEF RectSet
    <2>3. free = Rect(at, r.y, b.end - at, r.h) /\ Remaining(b) = Rect(b.at, r.y, b.end - b.at, r.h)
        BY <1>5, <1>6, <1>12, <1>15, <2>1 DEF Remaining
    <2>4. between + w <= b.end - b.at /\ h <= r.h
        BY <1>1, <1>2, <1>15, <2>1, <2>2 DEF ExceedsNear, Exceeds
    <2>5. free.w = b.end - at /\ free.h = r.h /\ free.x = at /\ free.y = r.y
        BY <2>3 DEF Rect
    <2>6. sw \in Nat /\ at + sw <= b.end /\ sh \in Nat /\ sh <= r.h
        <3>1. sw = (IF w = 0 THEN b.end - at ELSE w) /\ sh = (IF h = 0 THEN r.h ELSE h)
            BY <1>7, <1>8, <2>5 DEF OrRest
        <3>2. at + w <= b.end
            BY <1>1, <1>3, <2>4
        <3> QED BY <1>1, <2>2, <2>4, <3>1, <3>2
    <2>7. next = at + sw /\ next \in Int /\ next <= b.end /\ b.at <= at
        BY <1>1, <1>3, <1>9, <1>15, <2>6
    <2>8. d \in BoxSet /\ d.at = next /\ d.box = r /\ d.axis = b.axis /\ d.end = b.end /\ d.started
          /\ d.ended = b.ended
        BY <1>5, <1>10, <1>11, <2>1, <2>7 DEF BoxSet
    <2>9. ~Down(d) /\ Near(d) = Near(b) /\ Room(d) = Room(b)
        BY <1>15, <2>1, <2>8 DEF Down, Near, Room
    <2>10. BoxOK(d)
        BY <2>7, <2>8, <2>9 DEF BoxOK
    <2>11. Remaining(d) = Rect(next, r.y, b.end - next, r.h)
        BY <2>8, <2>9 DEF Remaining
    <2>12. PICK past \in Int : past = Centred(r.h, sh)
        BY <2>2, <2>6 DEF Centred
    <2>13. 0 <= past /\ past + sh <= r.h
        BY <2>2, <2>6, <2>12 DEF Centred
    <2>14. taken.slot = Rect(at, r.y + past, sw, sh)
        BY <1>13, <1>15, <2>5, <2>6, <2>12 DEF NotLess
    <2>15. Within(Remaining(d), Remaining(b)) /\ Within(taken.slot, Remaining(b)) /\ taken.slot \in RectSet
        BY <1>1, <2>2, <2>3, <2>6, <2>7, <2>11, <2>13, <2>14 DEF Within, Rect, RectSet
    <2>16. Free(Remaining(d), taken.slot)
        BY <1>1, <2>2, <2>6, <2>7, <2>11, <2>14 DEF Free, Apart, Rect
    <2> QED BY <1>13, <2>10, <2>15, <2>16
<1> QED BY <1>14, <1>15

\* What is taken from the far end was of what was left, and is of it no more.
LEMMA FarTaken ==
    ASSUME NEW b, BoxOK(b), NEW w \in Nat, NEW h \in Nat, ~ExceedsFar(b, w, h),
           NEW taken, taken = TakeFar(b, w, h)
    PROVE  /\ BoxOK(taken.box) /\ Within(Remaining(taken.box), Remaining(b))
           /\ taken.slot \in RectSet /\ Within(taken.slot, Remaining(b))
           /\ Free(Remaining(taken.box), taken.slot)
<1>1. b \in BoxSet /\ b.box \in RectSet /\ b.at \in Int /\ b.end \in Int /\ b.gap \in Nat /\ b.at <= b.end
    BY DEF BoxOK, BoxSet
<1>2. PICK between \in Nat : between = IF b.ended THEN b.gap ELSE 0
    BY <1>1
<1>3. PICK end \in Int : end = b.end - between
    BY <1>1
<1>4. PICK c : c = [b EXCEPT !.end = end]
    OBVIOUS
<1>5. c \in BoxSet /\ c.at = b.at /\ c.box = b.box /\ c.axis = b.axis /\ c.end = end /\ c.gap = b.gap
      /\ c.started = b.started
    BY <1>1, <1>4 DEF BoxSet
<1>6. PICK free : free = Remaining(c)
    OBVIOUS
<1>7. PICK sw : sw = OrRest(w, free.w)
    OBVIOUS
<1>8. PICK sh : sh = OrRest(h, free.h)
    OBVIOUS
<1>9. PICK next : next = end - IF Down(b) THEN sh ELSE sw
    OBVIOUS
<1>10. PICK yes \in BOOLEAN : yes = TRUE
    OBVIOUS
<1>11. PICK d : d = [c EXCEPT !.end = next, !.ended = yes]
    OBVIOUS
<1>12. Down(c) = Down(b)
    BY <1>5 DEF Down
<1>13. taken.box = d
       /\ taken.slot = IF Down(b) THEN Rect(free.x, next, NotLess(sw), NotLess(sh))
                       ELSE Rect(next, free.y + Centred(free.h, sh), NotLess(sw), NotLess(sh))
    <2>1. taken = [box |-> d,
                   slot |-> IF Down(c) THEN Rect(free.x, next, NotLess(sw), NotLess(sh))
                            ELSE Rect(next, free.y + Centred(free.h, sh), NotLess(sw), NotLess(sh))]
        BY <1>2, <1>3, <1>4, <1>5, <1>6, <1>7, <1>8, <1>9, <1>10, <1>11, <1>12 DEF TakeFar
    <2> QED BY <1>12, <2>1
<1>14. CASE Down(b)
    <2>1. PICK r \in RectSet : r = b.box
        BY <1>1
    <2>2. r.x \in Int /\ r.y \in Int /\ r.w \in Nat /\ r.h \in Nat
        BY DEF RectSet
    <2>3. free = Rect(r.x, b.at, r.w, end - b.at) /\ Remaining(b) = Rect(r.x, b.at, r.w, b.end - b.at)
        BY <1>5, <1>6, <1>12, <1>14, <2>1 DEF Remaining
    <2>4. between + h <= b.end - b.at /\ w <= r.w
        BY <1>1, <1>2, <1>14, <2>1, <2>2 DEF ExceedsFar, Exceeds
    <2>5. free.w = r.w /\ free.h = end - b.at /\ free.x = r.x /\ free.y = b.at
        BY <2>3 DEF Rect
    <2>6. sw \in Nat /\ sw <= r.w /\ sh \in Nat /\ b.at + sh <= end
        <3>1. sw = (IF w = 0 THEN r.w ELSE w) /\ sh = (IF h = 0 THEN end - b.at ELSE h)
            BY <1>7, <1>8, <2>5 DEF OrRest
        <3>2. b.at + h <= end
            BY <1>1, <1>3, <2>4
        <3> QED BY <1>1, <2>2, <2>4, <3>1, <3>2
    <2>7. next = end - sh /\ next \in Int /\ b.at <= next /\ end <= b.end
        BY <1>1, <1>3, <1>9, <1>14, <2>6
    <2>8. d \in BoxSet /\ d.at = b.at /\ d.box = r /\ d.axis = b.axis /\ d.end = next /\ d.ended
          /\ d.started = b.started
        BY <1>5, <1>10, <1>11, <2>1, <2>7 DEF BoxSet
    <2>9. Down(d) /\ Near(d) = Near(b) /\ Room(d) = Room(b)
        BY <1>14, <2>1, <2>8 DEF Down, Near, Room
    <2>10. BoxOK(d)
        BY <2>7, <2>8, <2>9 DEF BoxOK
    <2>11. Remaining(d) = Rect(r.x, b.at, r.w, next - b.at)
        BY <2>8, <2>9 DEF Remaining
    <2>12. taken.slot = Rect(r.x, next, sw, sh)
        BY <1>13, <1>14, <2>5, <2>6 DEF NotLess
    <2>13. Within(Remaining(d), Remaining(b)) /\ Within(taken.slot, Remaining(b)) /\ taken.slot \in RectSet
        BY <1>1, <2>2, <2>3, <2>6, <2>7, <2>11, <2>12 DEF Within, Rect, RectSet
    <2>14. Free(Remaining(d), taken.slot)
        BY <1>1, <2>2, <2>6, <2>7, <2>11, <2>12 DEF Free, Apart, Rect
    <2> QED BY <1>13, <2>10, <2>13, <2>14
<1>15. CASE ~Down(b)
    <2>1. PICK r \in RectSet : r = b.box
        BY <1>1
    <2>2. r.x \in Int /\ r.y \in Int /\ r.w \in Nat /\ r.h \in Nat
        BY DEF RectSet
    <2>3. free = Rect(b.at, r.y, end - b.at, r.h) /\ Remaining(b) = Rect(b.at, r.y, b.end - b.at, r.h)
        BY <1>5, <1>6, <1>12, <1>15, <2>1 DEF Remaining
    <2>4. between + w <= b.end - b.at /\ h <= r.h
        BY <1>1, <1>2, <1>15, <2>1, <2>2 DEF ExceedsFar, Exceeds
    <2>5. free.w = end - b.at /\ free.h = r.h /\ free.x = b.at /\ free.y = r.y
        BY <2>3 DEF Rect
    <2>6. sw \in Nat /\ b.at + sw <= end /\ sh \in Nat /\ sh <= r.h
        <3>1. sw = (IF w = 0 THEN end - b.at ELSE w) /\ sh = (IF h = 0 THEN r.h ELSE h)
            BY <1>7, <1>8, <2>5 DEF OrRest
        <3>2. b.at + w <= end
            BY <1>1, <1>3, <2>4
        <3> QED BY <1>1, <2>2, <2>4, <3>1, <3>2
    <2>7. next = end - sw /\ next \in Int /\ b.at <= next /\ end <= b.end
        BY <1>1, <1>3, <1>9, <1>15, <2>6
    <2>8. d \in BoxSet /\ d.at = b.at /\ d.box = r /\ d.axis = b.axis /\ d.end = next /\ d.ended
          /\ d.started = b.started
        BY <1>5, <1>10, <1>11, <2>1, <2>7 DEF BoxSet
    <2>9. ~Down(d) /\ Near(d) = Near(b) /\ Room(d) = Room(b)
        BY <1>15, <2>1, <2>8 DEF Down, Near, Room
    <2>10. BoxOK(d)
        BY <2>7, <2>8, <2>9 DEF BoxOK
    <2>11. Remaining(d) = Rect(b.at, r.y, next - b.at, r.h)
        BY <2>8, <2>9 DEF Remaining
    <2>12. PICK past \in Int : past = Centred(r.h, sh)
        BY <2>2, <2>6 DEF Centred
    <2>13. 0 <= past /\ past + sh <= r.h
        BY <2>2, <2>6, <2>12 DEF Centred
    <2>14. taken.slot = Rect(next, r.y + past, sw, sh)
        BY <1>13, <1>15, <2>5, <2>6, <2>12 DEF NotLess
    <2>15. Within(Remaining(d), Remaining(b)) /\ Within(taken.slot, Remaining(b)) /\ taken.slot \in RectSet
        BY <1>1, <2>2, <2>3, <2>6, <2>7, <2>11, <2>13, <2>14 DEF Within, Rect, RectSet
    <2>16. Free(Remaining(d), taken.slot)
        BY <1>1, <2>2, <2>6, <2>7, <2>11, <2>14 DEF Free, Apart, Rect
    <2> QED BY <1>13, <2>10, <2>15, <2>16
<1> QED BY <1>14, <1>15

-----------------------------------------------------------------------------
\* The box at hand gets smaller; a slot is handed out; a box is opened.
LEMMA InnerShrinks ==
    ASSUME NEW bs, NEW sl, Laid(bs, sl), NEW n \in Nat, n = Len(bs), NEW b, BoxOK(b),
           Within(Remaining(b), Remaining(bs[n])), NEW after, after = [bs EXCEPT ![n] = b]
    PROVE  Laid(after, sl)
<1>1. bs \in Seq(BoxSet) /\ n \in 1..n /\ b \in BoxSet
    BY DEF Laid, BoxOK
<1>2. after \in Seq(BoxSet) /\ Len(after) = n /\ after[n] = b /\ \A i \in 1..n : i # n => after[i] = bs[i]
    BY <1>1
<1>3. Remaining(b) \in RectSet /\ \A i \in 1..n : Remaining(bs[i]) \in RectSet
    BY RemainingIs DEF Laid
<1>4. \A t \in RectSet : /\ Free(Remaining(bs[n]), t) => Free(Remaining(b), t)
                         /\ Free(t, Remaining(bs[n])) => Free(t, Remaining(b))
    BY <1>1, <1>3, WithinFree
<1>5. OnThePanel(Remaining(b))
    <2>1. OnThePanel(Remaining(bs[n]))
        BY <1>1 DEF Laid
    <2> QED BY <1>1, <1>3, <2>1, WithinFree
<1>6. ASSUME NEW i \in 1..n PROVE BoxOK(after[i]) /\ OnThePanel(Remaining(after[i]))
    BY <1>2, <1>5 DEF Laid
<1>7. ASSUME NEW i \in 1..n, NEW j \in 1..n, i < j PROVE Free(Remaining(after[i]), Remaining(after[j]))
    <2>1. i # n /\ after[i] = bs[i] /\ Free(Remaining(bs[i]), Remaining(bs[j]))
        BY <1>2, <1>7 DEF Laid
    <2> QED BY <1>2, <1>3, <1>4, <2>1
<1>8. ASSUME NEW i \in 1..n, NEW j \in 1..Len(sl) PROVE Free(Remaining(after[i]), sl[j])
    <2>1. Free(Remaining(bs[i]), sl[j]) /\ sl[j] \in RectSet
        BY DEF Laid
    <2> QED BY <1>2, <1>4, <2>1
<1> QED BY <1>2, <1>6, <1>7, <1>8 DEF Laid

\* A slot that is over nothing.
LEMMA SlotAdded ==
    ASSUME NEW bs, NEW sl, Laid(bs, sl), NEW s \in RectSet, OnThePanel(s),
           \A i \in 1..Len(bs) : Free(Remaining(bs[i]), s), \A i \in 1..Len(sl) : Free(sl[i], s),
           NEW after, after = Append(sl, s)
    PROVE  Laid(bs, after)
<1>1. PICK m \in Nat : m = Len(sl)
    BY DEF Laid
<1>2. after \in Seq(RectSet) /\ Len(after) = m + 1 /\ after[m + 1] = s /\ \A i \in 1..m : after[i] = sl[i]
    BY <1>1 DEF Laid
<1>3. \A i \in 1..(m + 1) : i = m + 1 \/ i \in 1..m
    OBVIOUS
<1>4. ASSUME NEW i \in 1..(m + 1) PROVE OnThePanel(after[i])
    BY <1>1, <1>2, <1>3 DEF Laid
<1>5. ASSUME NEW i \in 1..(m + 1), NEW j \in 1..(m + 1), i < j PROVE Free(after[i], after[j])
    <2>1. i \in 1..m /\ after[i] = sl[i]
        BY <1>2, <1>5
    <2>2. CASE j = m + 1
        BY <1>1, <1>2, <2>1, <2>2
    <2>3. CASE j \in 1..m
        BY <1>1, <1>2, <1>5, <2>1, <2>3 DEF Laid
    <2> QED BY <1>3, <2>2, <2>3
<1>6. ASSUME NEW i \in 1..Len(bs), NEW j \in 1..(m + 1) PROVE Free(Remaining(bs[i]), after[j])
    BY <1>1, <1>2, <1>3 DEF Laid
<1> QED BY <1>2, <1>4, <1>5, <1>6 DEF Laid

\* A box that is over nothing.
LEMMA BoxAdded ==
    ASSUME NEW bs, NEW sl, Laid(bs, sl), NEW b, BoxOK(b), OnThePanel(Remaining(b)),
           \A i \in 1..Len(bs) : Free(Remaining(bs[i]), Remaining(b)),
           \A i \in 1..Len(sl) : Free(sl[i], Remaining(b)), NEW after, after = Append(bs, b)
    PROVE  Laid(after, sl)
<1>1. PICK m \in Nat : m = Len(bs)
    BY DEF Laid
<1>2. b \in BoxSet
    BY DEF BoxOK
<1>3. after \in Seq(BoxSet) /\ Len(after) = m + 1 /\ after[m + 1] = b /\ \A i \in 1..m : after[i] = bs[i]
    BY <1>1, <1>2 DEF Laid
<1>4. \A i \in 1..(m + 1) : i = m + 1 \/ i \in 1..m
    OBVIOUS
<1>5. ASSUME NEW i \in 1..(m + 1) PROVE BoxOK(after[i]) /\ OnThePanel(Remaining(after[i]))
    BY <1>1, <1>3, <1>4 DEF Laid
<1>6. ASSUME NEW i \in 1..(m + 1), NEW j \in 1..(m + 1), i < j PROVE Free(Remaining(after[i]), Remaining(after[j]))
    <2>1. i \in 1..m /\ after[i] = bs[i]
        BY <1>3, <1>6
    <2>2. CASE j = m + 1
        BY <1>1, <1>3, <2>1, <2>2
    <2>3. CASE j \in 1..m
        BY <1>1, <1>3, <1>6, <2>1, <2>3 DEF Laid
    <2> QED BY <1>4, <2>2, <2>3
<1>7. ASSUME NEW i \in 1..(m + 1), NEW j \in 1..Len(sl) PROVE Free(Remaining(after[i]), sl[j])
    <2>1. CASE i = m + 1
        <3>1. Free(sl[j], Remaining(b))
            OBVIOUS
        <3>2. Remaining(b) \in RectSet /\ sl[j] \in RectSet
            BY RemainingIs DEF Laid
        <3> QED BY <1>3, <2>1, <3>1, <3>2, FreeBothWays
    <2>2. CASE i \in 1..m
        BY <1>1, <1>3, <2>2 DEF Laid
    <2> QED BY <1>4, <2>1, <2>2
<1> QED BY <1>1, <1>3, <1>5, <1>6, <1>7 DEF Laid

\* Whatever is closed or taken back leaves the rest as it was.
LEMMA BoxClosed ==
    ASSUME NEW bs, NEW sl, Laid(bs, sl), Len(bs) > 1, NEW after, after = Shorter(bs) PROVE Laid(after, sl)
<1>1. PICK m \in Nat : m = Len(bs) - 1
    <2>1. Len(bs) \in Nat
        BY DEF Laid
    <2> QED BY <2>1
<1>2. after = SubSeq(bs, 1, m) /\ m >= 1 /\ Len(bs) = m + 1 /\ bs \in Seq(BoxSet)
    BY <1>1 DEF Shorter, Laid
<1>3. after \in Seq(BoxSet) /\ Len(after) = m /\ \A i \in 1..m : after[i] = bs[i]
    BY ONLY <1>2, m \in Nat
<1>4. \A i \in 1..m : i \in 1..Len(bs)
    BY <1>2
<1> QED BY <1>2, <1>3, <1>4 DEF Laid

\* The slot that was taken last is over nothing else.
LEMMA SlotBack ==
    ASSUME NEW bs, NEW sl, Laid(bs, sl), NEW m \in Nat, Len(sl) = m + 1, NEW after, after = Shorter(sl)
    PROVE  /\ Laid(bs, after) /\ sl[m + 1] \in RectSet /\ OnThePanel(sl[m + 1])
           /\ \A i \in 1..Len(bs) : Free(Remaining(bs[i]), sl[m + 1])
           /\ \A i \in 1..Len(after) : Free(after[i], sl[m + 1])
<1>1. after = SubSeq(sl, 1, m) /\ sl \in Seq(RectSet)
    BY DEF Shorter, Laid
<1>2. after \in Seq(RectSet) /\ Len(after) = m /\ \A i \in 1..m : after[i] = sl[i]
    BY ONLY <1>1, m \in Nat, Len(sl) = m + 1
<1>3. m + 1 \in 1..Len(sl) /\ \A i \in 1..m : i \in 1..Len(sl) /\ i < m + 1
    OBVIOUS
<1>4. Laid(bs, after)
    BY <1>2, <1>3 DEF Laid
<1>5. sl[m + 1] \in RectSet /\ OnThePanel(sl[m + 1]) /\ \A i \in 1..Len(bs) : Free(Remaining(bs[i]), sl[m + 1])
    BY <1>1, <1>3 DEF Laid
<1>6. \A i \in 1..m : Free(sl[i], sl[m + 1])
    BY <1>3 DEF Laid
<1> QED BY <1>2, <1>4, <1>5, <1>6

\* A box that is opened has its whole area left.
LEMMA OpenedIs ==
    ASSUME NEW area \in RectSet, NEW axis \in {"down", "across"}, NEW gap \in Nat,
           NEW b, b = Opened(area, axis, gap)
    PROVE  BoxOK(b) /\ Remaining(b) = area /\ b.gap = gap /\ b.axis = axis
<1>1. PICK c : c = [box |-> area, axis |-> axis, gap |-> gap, at |-> 0, end |-> 0, started |-> FALSE, ended |-> FALSE]
    OBVIOUS
<1>2. c \in BoxSet /\ c.box = area /\ c.axis = axis /\ c.gap = gap /\ ~c.started /\ ~c.ended
    BY <1>1 DEF BoxSet
<1>3. area.x \in Int /\ area.y \in Int /\ area.w \in Nat /\ area.h \in Nat
      /\ area = [x |-> area.x, y |-> area.y, w |-> area.w, h |-> area.h]
    BY DEF RectSet
<1>4. PICK at \in Int : at = Near(c)
    BY <1>2, <1>3 DEF Near
<1>5. PICK end \in Int : end = at + Room(c)
    BY <1>2, <1>3 DEF Room
<1>6. b = [c EXCEPT !.at = at, !.end = end]
    BY <1>1, <1>4, <1>5 DEF Opened
<1>7. b \in BoxSet /\ b.box = area /\ b.axis = axis /\ b.gap = gap /\ ~b.started /\ ~b.ended
      /\ b.at = at /\ b.end = end
    BY <1>2, <1>6 DEF BoxSet
<1>8. (Down(b) <=> Down(c)) /\ Near(b) = Near(c) /\ Room(b) = Room(c)
    BY <1>2, <1>7 DEF Down, Near, Room
<1>9. at <= end
    BY <1>2, <1>3, <1>5 DEF Room
<1>10. BoxOK(b)
    BY <1>4, <1>5, <1>7, <1>8, <1>9 DEF BoxOK
<1>11. CASE Down(b)
    <2>1. at = area.y /\ end = area.y + area.h
        BY <1>2, <1>4, <1>5, <1>8, <1>11 DEF Near, Room
    <2>2. Remaining(b) = Rect(area.x, area.y, area.w, area.h)
        BY <1>3, <1>7, <1>11, <2>1 DEF Remaining
    <2> QED BY <1>3, <1>7, <1>10, <2>2 DEF Rect
<1>12. CASE ~Down(b)
    <2>1. at = area.x /\ end = area.x + area.w
        BY <1>2, <1>4, <1>5, <1>8, <1>12 DEF Near, Room
    <2>2. Remaining(b) = Rect(area.x, area.y, area.w, area.h)
        BY <1>3, <1>7, <1>12, <2>1 DEF Remaining
    <2> QED BY <1>3, <1>7, <1>10, <2>2 DEF Rect
<1> QED BY <1>11, <1>12

\* A slot cut of what is left of the box at hand is free of all else.
LEMMA CutIsFree ==
    ASSUME NEW bs, NEW sl, Laid(bs, sl), NEW n \in Nat, n = Len(bs), NEW b, BoxOK(b),
           Within(Remaining(b), Remaining(bs[n])), NEW s \in RectSet, Within(s, Remaining(bs[n])),
           Free(Remaining(b), s), NEW after, after = [bs EXCEPT ![n] = b]
    PROVE  /\ Laid(after, sl) /\ OnThePanel(s)
           /\ \A i \in 1..Len(after) : Free(Remaining(after[i]), s)
           /\ \A i \in 1..Len(sl) : Free(sl[i], s)
<1>1. bs \in Seq(BoxSet) /\ n \in 1..n /\ b \in BoxSet
    BY DEF Laid, BoxOK
<1>2. Len(after) = n /\ after[n] = b /\ \A i \in 1..n : i # n => after[i] = bs[i]
    BY <1>1
<1>3. \A i \in 1..n : Remaining(bs[i]) \in RectSet
    BY RemainingIs DEF Laid
<1>4. PICK r \in RectSet : r = Remaining(bs[n])
    BY <1>1, <1>3
<1>5. Laid(after, sl)
    BY InnerShrinks
<1>6. OnThePanel(s)
    <2>1. OnThePanel(r)
        BY <1>1, <1>4 DEF Laid
    <2> QED BY <1>4, <2>1, WithinFree
<1>7. ASSUME NEW i \in 1..n PROVE Free(Remaining(after[i]), s)
    <2>1. CASE i = n
        BY <1>2, <2>1
    <2>2. CASE i # n
        <3>1. i < n
            BY <2>2
        <3>2. Free(Remaining(bs[i]), r)
            BY <1>1, <1>4, <3>1 DEF Laid
        <3>3. Remaining(bs[i]) \in RectSet
            BY <1>3
        <3>4. Free(Remaining(bs[i]), s)
            BY <1>4, <3>2, <3>3, WithinFree
        <3> QED BY <1>2, <2>2, <3>4
    <2> QED BY <2>1, <2>2
<1>8. ASSUME NEW i \in 1..Len(sl) PROVE Free(sl[i], s)
    <2>1. sl[i] \in RectSet /\ Free(r, sl[i])
        BY <1>1, <1>4 DEF Laid
    <2>2. Free(s, sl[i])
        BY <1>4, <2>1, WithinFree
    <2> QED BY <2>1, <2>2, FreeBothWays
<1> QED BY <1>2, <1>5, <1>6, <1>7, <1>8

\* What a call of the page's does, when no more is asked for than there is.
LEMMA SpillLasts ==
    ASSUME LayoutInv, NEW asks \in BOOLEAN, spilled' = (spilled \/ asks)
    PROVE  spilled' \in BOOLEAN /\ (~spilled' => Laid(boxes, slots) /\ ~asks)
BY DEF LayoutInv

\* The box behind a call of ui_take() and its slot.
IsCut(taken, b) ==
  /\ BoxOK(taken.box) /\ Within(Remaining(taken.box), Remaining(b))
  /\ taken.slot \in RectSet /\ Within(taken.slot, Remaining(b))
  /\ Free(Remaining(taken.box), taken.slot)

SlotTo(n, asks, taken) ==
  /\ spilled' = (spilled \/ asks)
  /\ boxes' = [boxes EXCEPT ![n] = taken.box] /\ slots' = Append(slots, taken.slot)
  /\ (BoxOK(boxes[n]) /\ ~asks) => IsCut(taken, boxes[n])

\* A slot is taken.
LEMMA SlotTaken ==
    ASSUME LayoutInv, NEW w \in Nat, NEW h \in Nat, ui_take(w, h) \/ ui_take_end(w, h)
    PROVE  LayoutInv'
<1>1. PICK n : n = Len(boxes)
    OBVIOUS
<1>2. Inner = boxes[n]
    BY <1>1 DEF Inner
<1>3. \E asks \in BOOLEAN : \E taken : SlotTo(n, asks, taken)
    <2>1. CASE ui_take(w, h)
        <3>1. PICK asks \in BOOLEAN : asks = ExceedsNear(boxes[n], w, h)
            BY DEF ExceedsNear, Exceeds
        <3>2. PICK taken : taken = TakeNear(boxes[n], w, h)
            OBVIOUS
        <3>3. /\ spilled' = (spilled \/ asks)
              /\ boxes' = [boxes EXCEPT ![n] = taken.box] /\ slots' = Append(slots, taken.slot)
            BY <1>1, <1>2, <2>1, <3>1, <3>2 DEF ui_take, Takes, WithTop
        <3>4. (BoxOK(boxes[n]) /\ ~asks) => IsCut(taken, boxes[n])
            BY <3>1, <3>2, NearTaken DEF IsCut
        <3> QED BY <3>3, <3>4 DEF SlotTo
    <2>2. CASE ui_take_end(w, h)
        <3>1. PICK asks \in BOOLEAN : asks = ExceedsFar(boxes[n], w, h)
            BY DEF ExceedsFar, Exceeds
        <3>2. PICK taken : taken = TakeFar(boxes[n], w, h)
            OBVIOUS
        <3>3. /\ spilled' = (spilled \/ asks)
              /\ boxes' = [boxes EXCEPT ![n] = taken.box] /\ slots' = Append(slots, taken.slot)
            BY <1>1, <1>2, <2>2, <3>1, <3>2 DEF ui_take_end, Takes, WithTop
        <3>4. (BoxOK(boxes[n]) /\ ~asks) => IsCut(taken, boxes[n])
            BY <3>1, <3>2, FarTaken DEF IsCut
        <3> QED BY <3>3, <3>4 DEF SlotTo
    <2> QED BY <2>1, <2>2
<1>4. PICK asks \in BOOLEAN : \E taken : SlotTo(n, asks, taken)
    BY <1>3
<1>5. PICK taken : SlotTo(n, asks, taken)
    BY <1>4
<1>6. spilled' \in BOOLEAN /\ (~spilled' => Laid(boxes, slots) /\ ~asks)
    BY <1>5, SpillLasts DEF SlotTo
<1> SUFFICES ASSUME ~spilled' PROVE Laid(boxes', slots')
    BY <1>6 DEF LayoutInv
<1>7. Laid(boxes, slots) /\ n \in Nat /\ n >= 1 /\ BoxOK(boxes[n])
    BY <1>1, <1>6 DEF Laid
<1>8. IsCut(taken, boxes[n])
    BY <1>5, <1>6, <1>7 DEF SlotTo
<1>9. PICK bs : bs = boxes'
    OBVIOUS
<1>10. /\ Laid(bs, slots) /\ OnThePanel(taken.slot)
       /\ \A i \in 1..Len(bs) : Free(Remaining(bs[i]), taken.slot)
       /\ \A i \in 1..Len(slots) : Free(slots[i], taken.slot)
    BY <1>1, <1>5, <1>7, <1>8, <1>9, CutIsFree DEF SlotTo, IsCut
<1>11. Laid(bs, Append(slots, taken.slot))
    BY <1>8, <1>10, SlotAdded DEF IsCut
<1> QED BY <1>5, <1>9, <1>11 DEF SlotTo

\* A box is opened in what is taken from the box around it.
LEMMA BoxTaken ==
    ASSUME LayoutInv, NEW axis \in {"down", "across"}, NEW size \in Nat, NEW gap \in Nat,
           open_box(axis, size, gap)
    PROVE  LayoutInv'
<1>1. PICK n : n = Len(boxes)
    OBVIOUS
<1>2. PICK w \in Nat, h \in Nat : /\ w = IF Down(Inner) THEN 0 ELSE size
                                  /\ h = IF Down(Inner) THEN size ELSE 0
    OBVIOUS
<1>3. PICK asks \in BOOLEAN : asks = ExceedsNear(boxes[n], w, h)
    BY DEF ExceedsNear, Exceeds
<1>4. PICK taken : taken = TakeNear(boxes[n], w, h)
    OBVIOUS
<1>5. PICK b : b = Opened(taken.slot, axis, gap)
    OBVIOUS
<1>6. PICK bs : bs = [boxes EXCEPT ![n] = taken.box]
    OBVIOUS
<1>7. spilled' = (spilled \/ asks) /\ boxes' = Append(bs, b) /\ slots' = slots
    <2>1. Inner = boxes[n]
        BY <1>1 DEF Inner
    <2>2. CASE Down(Inner)
        <3>1. w = 0 /\ h = size
            BY <1>2, <2>2
        <3>2. asks = ExceedsNear(Inner, 0, size) /\ taken = TakeNear(Inner, 0, size)
            BY <1>3, <1>4, <2>1, <3>1
        <3> QED BY <1>1, <1>5, <1>6, <2>2, <3>2 DEF open_box, Takes, WithTop
    <2>3. CASE ~Down(Inner)
        <3>1. w = size /\ h = 0
            BY <1>2, <2>3
        <3>2. asks = ExceedsNear(Inner, size, 0) /\ taken = TakeNear(Inner, size, 0)
            BY <1>3, <1>4, <2>1, <3>1
        <3> QED BY <1>1, <1>5, <1>6, <2>3, <3>2 DEF open_box, Takes, WithTop
    <2> QED BY <2>2, <2>3
<1>8. spilled' \in BOOLEAN /\ (~spilled' => Laid(boxes, slots) /\ ~asks)
    BY <1>7, SpillLasts
<1> SUFFICES ASSUME ~spilled' PROVE Laid(boxes', slots')
    BY <1>8 DEF LayoutInv
<1>9. Laid(boxes, slots) /\ n \in Nat /\ n >= 1 /\ BoxOK(boxes[n])
    BY <1>1, <1>8 DEF Laid
<1>10. IsCut(taken, boxes[n])
    BY <1>3, <1>4, <1>8, <1>9, NearTaken DEF IsCut
<1>11. /\ Laid(bs, slots) /\ OnThePanel(taken.slot)
       /\ \A i \in 1..Len(bs) : Free(Remaining(bs[i]), taken.slot)
       /\ \A i \in 1..Len(slots) : Free(slots[i], taken.slot)
    BY <1>1, <1>6, <1>9, <1>10, CutIsFree DEF IsCut
<1>12. BoxOK(b) /\ Remaining(b) = taken.slot
    BY <1>5, <1>10, OpenedIs DEF IsCut
<1>13. Laid(Append(bs, b), slots)
    BY <1>11, <1>12, BoxAdded
<1> QED BY <1>7, <1>13

\* A box is opened in the last slot.
LEMMA BoxInSlot ==
    ASSUME LayoutInv, NEW axis \in {"down", "across"}, NEW gap \in Nat, open_box_at(axis, gap)
    PROVE  LayoutInv'
<1>1. /\ slots # <<>> /\ boxes' = Append(boxes, Opened(slots[Len(slots)], axis, gap))
      /\ slots' = Shorter(slots) /\ spilled' = spilled
    BY DEF open_box_at
<1> SUFFICES ASSUME ~spilled PROVE Laid(boxes', slots')
    BY <1>1 DEF LayoutInv
<1>2. Laid(boxes, slots)
    BY DEF LayoutInv
<1>3. PICK m \in Nat : Len(slots) = m + 1
    <2>1. slots \in Seq(RectSet)
        BY <1>2 DEF Laid
    <2>2. Len(slots) \in Nat /\ Len(slots) # 0
        BY ONLY <1>1, <2>1
    <2>3. Len(slots) - 1 \in Nat /\ Len(slots) = (Len(slots) - 1) + 1
        BY ONLY <2>2
    <2> QED BY <2>3
<1>4. PICK sl : sl = Shorter(slots)
    OBVIOUS
<1>5. PICK s : s = slots[m + 1]
    OBVIOUS
<1>6. /\ Laid(boxes, sl) /\ s \in RectSet /\ OnThePanel(s)
      /\ \A i \in 1..Len(boxes) : Free(Remaining(boxes[i]), s)
      /\ \A i \in 1..Len(sl) : Free(sl[i], s)
    BY <1>2, <1>3, <1>4, <1>5, SlotBack
<1>7. PICK b : b = Opened(s, axis, gap)
    OBVIOUS
<1>8. BoxOK(b) /\ Remaining(b) = s
    BY <1>6, <1>7, OpenedIs
<1>9. Laid(Append(boxes, b), sl)
    BY <1>6, <1>8, BoxAdded
<1> QED BY <1>1, <1>3, <1>4, <1>5, <1>7, <1>9

\* A gap, and the padding of a box nothing was taken of.
LEMMA GapTaken == ASSUME LayoutInv, NEW pixels \in Nat, ui_gap(pixels) PROVE LayoutInv'
<1>1. PICK n : n = Len(boxes)
    OBVIOUS
<1>2. PICK asks \in BOOLEAN : asks <=> (boxes[n].at + pixels > boxes[n].end)
    OBVIOUS
<1>3. PICK b : b = [boxes[n] EXCEPT !.at = boxes[n].at + pixels, !.started = TRUE]
    OBVIOUS
<1>4. spilled' = (spilled \/ asks) /\ boxes' = [boxes EXCEPT ![n] = b] /\ slots' = slots
    <2>1. spilled' = (spilled \/ boxes[n].at + pixels > boxes[n].end)
        BY <1>1 DEF ui_gap, Inner
    <2>2. spilled' = (spilled \/ asks)
        BY ONLY <1>2, <2>1, Zenon
    <2> QED BY <1>1, <1>3, <2>2 DEF ui_gap, Inner, WithTop
<1>5. spilled' \in BOOLEAN /\ (~spilled' => Laid(boxes, slots) /\ ~asks)
    BY <1>4, SpillLasts
<1> SUFFICES ASSUME ~spilled' PROVE Laid(boxes', slots')
    BY <1>5 DEF LayoutInv
<1>6. Laid(boxes, slots) /\ n \in Nat /\ n >= 1 /\ BoxOK(boxes[n])
    BY <1>1, <1>5 DEF Laid
<1>7. PICK c \in BoxSet : c = boxes[n]
    BY <1>6 DEF BoxOK
<1>8. c.at \in Int /\ c.end \in Int /\ c.box \in RectSet
    BY DEF BoxSet
<1>9. PICK at \in Int : at = c.at + pixels
    BY <1>8
<1>10. at <= c.end /\ c.at <= at
    BY <1>2, <1>5, <1>7, <1>8, <1>9
<1>11. PICK yes \in BOOLEAN : yes = TRUE
    OBVIOUS
<1>12. b = [c EXCEPT !.at = at, !.started = yes]
    BY <1>3, <1>7, <1>9, <1>11
<1>13. b \in BoxSet /\ b.at = at /\ b.end = c.end /\ b.box = c.box /\ b.axis = c.axis /\ b.started
       /\ b.ended = c.ended
    BY <1>11, <1>12 DEF BoxSet
<1>14. (Down(b) <=> Down(c)) /\ Near(b) = Near(c) /\ Room(b) = Room(c)
    BY <1>13 DEF Down, Near, Room
<1>15. BoxOK(b)
    BY <1>6, <1>7, <1>10, <1>13, <1>14 DEF BoxOK
<1>16. Within(Remaining(b), Remaining(c))
    BY <1>8, <1>10, <1>13, <1>14 DEF Within, Remaining, Rect, RectSet
<1>17. Laid([boxes EXCEPT ![n] = b], slots)
    BY <1>1, <1>6, <1>7, <1>15, <1>16, InnerShrinks
<1> QED BY <1>4, <1>17

\* The box's sides are drawn in.
LEMMA PaddedIn ==
    ASSUME LayoutInv, NEW west \in Nat, NEW east \in Nat, ui_pad_x(west, east) PROVE LayoutInv'
<1>1. PICK n : n = Len(boxes)
    OBVIOUS
<1>2. PICK c : c = boxes[n]
    OBVIOUS
<1>3. PICK asks \in BOOLEAN : asks <=> (west + east > c.box.w)
    OBVIOUS
<1>4. PICK area : area = [c.box EXCEPT !.x = c.box.x + west, !.w = NotLess(c.box.w - (west + east))]
    OBVIOUS
<1>5. PICK b : b = Opened(area, c.axis, c.gap)
    OBVIOUS
<1>6. /\ ~c.started /\ ~c.ended
      /\ spilled' = (spilled \/ asks) /\ boxes' = [boxes EXCEPT ![n] = b] /\ slots' = slots
    <2>1. spilled' = (spilled \/ west + east > c.box.w)
        BY <1>1, <1>2 DEF ui_pad_x, Inner
    <2>2. spilled' = (spilled \/ asks)
        BY ONLY <1>3, <2>1, Zenon
    <2> QED BY <1>1, <1>2, <1>4, <1>5, <2>2 DEF ui_pad_x, Inner, WithTop
<1>7. spilled' \in BOOLEAN /\ (~spilled' => Laid(boxes, slots) /\ ~asks)
    BY <1>6, SpillLasts
<1> SUFFICES ASSUME ~spilled' PROVE Laid(boxes', slots')
    BY <1>7 DEF LayoutInv
<1>8. Laid(boxes, slots) /\ n \in Nat /\ n >= 1 /\ BoxOK(c)
    BY <1>1, <1>2, <1>7 DEF Laid
<1>9. c.box \in RectSet /\ c.axis \in {"down", "across"} /\ c.gap \in Nat
    BY <1>8 DEF BoxOK, BoxSet
<1>10. PICK r \in RectSet : r = c.box
    BY <1>9
<1>11. r.x \in Int /\ r.y \in Int /\ r.w \in Nat /\ r.h \in Nat
    BY DEF RectSet
<1>12. west + east <= r.w
    BY <1>3, <1>7, <1>10, <1>11
<1>13. PICK x \in Int, w \in Nat : x = r.x + west /\ w = r.w - (west + east)
    BY <1>11, <1>12
<1>14. NotLess(r.w - (west + east)) = w
    BY <1>11, <1>12, <1>13 DEF NotLess
<1>15. area = [r EXCEPT !.x = x, !.w = w]
    BY <1>4, <1>10, <1>13, <1>14
<1>16. area \in RectSet /\ area.x = x /\ area.w = w /\ area.y = r.y /\ area.h = r.h
    BY <1>15 DEF RectSet
<1>17. BoxOK(b) /\ Remaining(b) = area
    BY <1>5, <1>9, <1>16, OpenedIs
<1>18. Remaining(c) = Rect(r.x, r.y, r.w, r.h)
    <2>1. c.at = Near(c) /\ c.end = Near(c) + Room(c)
        BY <1>6, <1>8 DEF BoxOK
    <2>2. CASE Down(c)
        BY <1>10, <1>11, <2>1, <2>2 DEF Near, Room, Remaining
    <2>3. CASE ~Down(c)
        BY <1>10, <1>11, <2>1, <2>3 DEF Near, Room, Remaining
    <2> QED BY <2>2, <2>3
<1>19. Within(area, Remaining(c))
    BY <1>11, <1>12, <1>13, <1>16, <1>18 DEF Within, Rect
<1>20. Laid([boxes EXCEPT ![n] = b], slots)
    BY <1>1, <1>2, <1>8, <1>17, <1>19, InnerShrinks
<1> QED BY <1>6, <1>20

\* A box is closed.
LEMMA BoxEnded == ASSUME LayoutInv, ui_end PROVE LayoutInv'
<1>1. boxes' = (IF Len(boxes) > 1 THEN Shorter(boxes) ELSE boxes) /\ slots' = slots /\ spilled' = spilled
    BY DEF ui_end
<1> SUFFICES ASSUME ~spilled PROVE Laid(boxes', slots')
    BY <1>1 DEF LayoutInv
<1>2. Laid(boxes, slots)
    BY DEF LayoutInv
<1>3. Len(boxes) > 1 => Laid(Shorter(boxes), slots)
    BY <1>2, BoxClosed
<1> QED BY <1>1, <1>2, <1>3

\* The start: the panel's box.
LEMMA LayoutBegins == ASSUME LayoutInit PROVE LayoutInv
<1>1. PICK area : area = Rect(0, 0, PanelW, PanelH)
    OBVIOUS
<1>2. area \in RectSet /\ OnThePanel(area)
    BY <1>1, LayoutAssumption DEF RectSet, Rect, OnThePanel
<1>3. PICK b : b = Opened(area, "down", 0)
    OBVIOUS
<1>4. BoxOK(b) /\ Remaining(b) = area /\ b \in BoxSet
    BY <1>2, <1>3, OpenedIs DEF BoxOK
<1>5. boxes = <<b>> /\ slots = <<>> /\ spilled = FALSE
    BY <1>1, <1>3 DEF LayoutInit
<1>6. boxes \in Seq(BoxSet) /\ Len(boxes) = 1 /\ boxes[1] = b /\ slots \in Seq(RectSet) /\ Len(slots) = 0
    BY <1>4, <1>5
<1>7. 1..0 = {} /\ \A i \in 1..1 : i = 1
    OBVIOUS
<1>8. Laid(boxes, slots)
    BY <1>2, <1>4, <1>6, <1>7 DEF Laid
<1> QED BY <1>5, <1>8 DEF LayoutInv

\* "So a screen never computes an x or a y": as long as no more was asked for
\* than was there, whatever is taken from either end of boxes within boxes is
\* on the panel and over nothing else; for panels, sizes, gaps and depths of any
\* number.
THEOREM NothingOverAnything == LayoutSpec => []SlotsApart
<1>1. LayoutInit => LayoutInv
    BY LayoutBegins
<1>2. LayoutInv /\ [LayoutNext]_layoutVars => LayoutInv'
    <2> SUFFICES ASSUME LayoutInv, [LayoutNext]_layoutVars PROVE LayoutInv'
        OBVIOUS
    <2>1. CASE \E w, h \in Sizes : ui_take(w, h) \/ ui_take_end(w, h)
        BY <2>1, SlotTaken, LayoutAssumption
    <2>2. CASE \E axis \in {"down", "across"}, gap \in BoxGaps : open_box_at(axis, gap)
        BY <2>2, BoxInSlot, LayoutAssumption
    <2>3. CASE \E axis \in {"down", "across"}, gap \in BoxGaps, size \in Sizes : open_box(axis, size, gap)
        BY <2>3, BoxTaken, LayoutAssumption
    <2>4. CASE ui_end
        BY <2>4, BoxEnded
    <2>5. CASE ui_gap(1)
        BY <2>5, GapTaken
    <2>6. CASE ui_pad_x(1, 0)
        BY <2>6, PaddedIn
    <2>7. CASE UNCHANGED <<boxes, slots, spilled>>
        BY <2>7 DEF LayoutInv, Laid
    <2> QED BY <2>1, <2>2, <2>3, <2>4, <2>5, <2>6, <2>7 DEF LayoutNext, TooDeep, layoutVars
<1>3. LayoutInv => SlotsApart
    <2> SUFFICES ASSUME Laid(boxes, slots), NEW i \in DOMAIN slots, NEW j \in DOMAIN slots
                 PROVE  /\ OnThePanel(slots[i])
                        /\ i < j => Free(slots[i], slots[j])
        BY DEF LayoutInv, SlotsApart, Free
    <2>1. DOMAIN slots = 1..Len(slots)
        BY DEF Laid
    <2> QED BY <2>1 DEF Laid
<1> QED BY <1>1, <1>2, <1>3, PTL DEF LayoutSpec

-----------------------------------------------------------------------------
(* The scroll (Layout). The pages' sizes are data; what each frame leaves  *)
(* of the way is bounded by Way, wherever the way began.                   *)

ScrollInv ==
    /\ content \in Contents /\ view \in View /\ focused \in DOMAIN content
    /\ target \in 0 .. Way[Settling] /\ offset \in 0 .. Way[Settling] /\ still \in 0 .. Settling
    /\ still > 0 =>
          /\ target = IntoView(content, view, focused)
          /\ target - offset <= Way[Settling - still] /\ offset - target <= Way[Settling - still]

\* A set that holds 0 and with a number the next holds all up to n.
LEMMA UpToAll ==
    ASSUME NEW n \in Nat, NEW T, 0 \in T, \A i \in T : i \in 0 .. n - 1 => i + 1 \in T
    PROVE  0 .. n \subseteq T
<1> SUFFICES ASSUME NEW k \in 0 .. n, k \notin T PROVE FALSE
    OBVIOUS
<1>1. PICK M : M = {i \in Nat : i <= n /\ i \notin T}
    OBVIOUS
<1>2. M \subseteq Nat /\ M # {}
    BY <1>1
<1>3. PICK m \in M : \A j \in M : ~(<<j, m>> \in OpToRel(<, Nat))
    BY <1>2, WFMin, NatLessThanWellFounded
<1>4. m \in Nat /\ m <= n /\ m \notin T /\ m # 0
    BY <1>1
<1>5. m - 1 \in Nat /\ m - 1 \in 0 .. n - 1 /\ m - 1 < m
    BY <1>4
<1>6. m - 1 \in M \/ m - 1 \in T
    BY <1>1, <1>4, <1>5
<1>7. m - 1 \notin M
    BY <1>2, <1>3, <1>5 DEF OpToRel
<1>8. (m - 1) + 1 \in T
    BY <1>5, <1>6, <1>7
<1> QED BY <1>4, <1>8

\* What a frame may have before it to leave x behind it.
LEMMA OneMoreFrame ==
    ASSUME NEW x \in Nat
    PROVE  /\ (3 * x + 2) \div 2 \in Nat /\ x <= (3 * x + 2) \div 2
           /\ \A d \in Nat : d <= (3 * x + 2) \div 2 =>
                 d - ((d + 2) \div 3) \in Nat /\ d - ((d + 2) \div 3) <= x
    OBVIOUS

\* The ways are those its definition says.
LEMMA WaysAre ==
    /\ Way \in [0 .. Settling -> Nat] /\ Way[0] = 0
    /\ \A n \in 1 .. Settling : Way[n] = (3 * Way[n - 1] + 2) \div 2
<1>1. Settling \in Nat
    BY ScrollAssumption
<1>2. PICK T : T = {n \in 0 .. Settling : \E f \in [0 .. n -> Nat] :
                       f[0] = 0 /\ \A i \in 1 .. n : f[i] = (3 * f[i - 1] + 2) \div 2}
    OBVIOUS
<1>3. 0 \in T
    <2>1. PICK f : f = [i \in 0 .. 0 |-> 0]
        OBVIOUS
    <2>2. f \in [0 .. 0 -> Nat] /\ f[0] = 0 /\ 1 .. 0 = {}
        BY <2>1
    <2> QED BY <1>1, <1>2, <2>2
<1>4. ASSUME NEW n \in T, n \in 0 .. Settling - 1 PROVE n + 1 \in T
    <2>1. PICK f \in [0 .. n -> Nat] : f[0] = 0 /\ \A i \in 1 .. n : f[i] = (3 * f[i - 1] + 2) \div 2
        BY <1>2
    <2>2. n \in Nat /\ n + 1 \in 0 .. Settling /\ n + 1 # 0 /\ (n + 1) - 1 = n
        BY <1>1, <1>4
    <2>3. PICK y \in Nat : y = (3 * f[n] + 2) \div 2
        BY <2>1, <2>2, OneMoreFrame
    <2>4. PICK g : g = [i \in 0 .. n + 1 |-> IF i = n + 1 THEN y ELSE f[i]]
        OBVIOUS
    <2>5. g \in [0 .. n + 1 -> Nat] /\ g[0] = 0
        BY <2>1, <2>2, <2>3, <2>4
    <2>6. ASSUME NEW i \in 1 .. n + 1 PROVE g[i] = (3 * g[i - 1] + 2) \div 2
        <3>1. CASE i = n + 1
            <4>1. g[i] = y /\ g[i - 1] = f[n]
                BY <2>2, <2>4, <3>1
            <4> QED BY <2>3, <4>1
        <3>2. CASE i # n + 1
            <4>1. i \in 1 .. n /\ i - 1 \in 0 .. n /\ i - 1 # n + 1
                BY <2>2, <3>2
            <4>2. g[i] = f[i] /\ g[i - 1] = f[i - 1]
                BY <2>2, <2>4, <3>2, <4>1
            <4> QED BY <2>1, <4>1, <4>2
        <3> QED BY <3>1, <3>2
    <2> QED BY <1>2, <2>2, <2>5, <2>6
<1>5. Settling \in T
    <2>1. 0 .. Settling \subseteq T
        BY <1>1, <1>3, <1>4, UpToAll
    <2> QED BY <1>1, <2>1
<1>6. PICK f \in [0 .. Settling -> Nat] :
         f[0] = 0 /\ \A i \in 1 .. Settling : f[i] = (3 * f[i - 1] + 2) \div 2
    BY <1>2, <1>5
<1>7. f = [n \in 0 .. Settling |-> IF n = 0 THEN 0 ELSE (3 * f[n - 1] + 2) \div 2]
    <2>1. ASSUME NEW n \in 0 .. Settling
          PROVE  f[n] = IF n = 0 THEN 0 ELSE (3 * f[n - 1] + 2) \div 2
        <3>1. n = 0 \/ n \in 1 .. Settling
            BY <1>1
        <3> QED BY <1>6, <3>1
    <2> QED BY <1>6, <2>1
<1>8. Way = [n \in 0 .. Settling |-> IF n = 0 THEN 0 ELSE (3 * Way[n - 1] + 2) \div 2]
    BY <1>7 DEF Way
<1>9. \A n \in 1 .. Settling : n \in 0 .. Settling /\ n # 0 /\ n - 1 \in 0 .. Settling
    BY <1>1
<1>10. 0 \in 0 .. Settling
    BY <1>1
<1>11. PICK S : S = {n \in 0 .. Settling : Way[n] \in Nat}
    OBVIOUS
<1>12. 0 \in S
    BY <1>8, <1>10, <1>11
<1>13. ASSUME NEW n \in S, n \in 0 .. Settling - 1 PROVE n + 1 \in S
    <2>1. n + 1 \in 0 .. Settling /\ n + 1 # 0 /\ (n + 1) - 1 = n /\ Way[n] \in Nat
        BY <1>1, <1>11, <1>13
    <2>2. Way[n + 1] = (3 * Way[n] + 2) \div 2
        BY <1>8, <2>1
    <2>3. Way[n + 1] \in Nat
        BY <2>1, <2>2, OneMoreFrame
    <2> QED BY <1>11, <2>1, <2>3
<1>14. 0 .. Settling \subseteq S
    BY <1>1, <1>12, <1>13, UpToAll
<1>15. \A n \in 0 .. Settling : Way[n] \in Nat
    BY <1>11, <1>14
<1> QED BY <1>8, <1>9, <1>10, <1>15

\* An item's measures, and how far its page goes.
LEMMA ItemFits ==
    ASSUME NEW c \in Contents, NEW v \in View, NEW i \in DOMAIN c
    PROVE  /\ v \in Nat /\ Pad \in Nat /\ Peek(c[i], v) \in Nat
           /\ Begin(c, i) \in Nat /\ End(c, i) \in Nat /\ Begin(c, i) <= End(c, i)
           /\ End(c, i) - Begin(c, i) + 2 * Peek(c[i], v) <= v
           /\ Most(c, v) \in 0 .. Way[Settling] /\ End(c, i) <= Most(c, v) + v
<1>1. /\ v \in Nat /\ Pad \in Nat /\ c \in Seq([from : Nat, to : Nat])
      /\ c[i].from <= c[i].to /\ c[i].to <= ItemsLen(c)
      /\ Length(c[i]) + 2 * Peek(c[i], v) <= v /\ Most(c, v) <= Way[Settling]
    BY ScrollAssumption
<1>2. DOMAIN c = 1 .. Len(c) /\ Len(c) \in Nat /\ \A j \in 1 .. Len(c) : c[j] \in [from : Nat, to : Nat]
    BY <1>1, ElementOfSeq, LenProperties
<1>3. c[i] \in [from : Nat, to : Nat] /\ c[Len(c)] \in [from : Nat, to : Nat]
    BY <1>2
<1>4. PICK from, to, all \in Nat : from = c[i].from /\ to = c[i].to /\ all = ItemsLen(c)
    BY <1>2, <1>3 DEF ItemsLen
<1>5. Length(c[i]) = to - from /\ to - from \in Nat
    BY <1>1, <1>4 DEF Length
<1>6. Peek(c[i], v) \in Nat
    BY <1>1, <1>5 DEF Peek
<1>7. Way[Settling] \in Nat
    BY WaysAre, ScrollAssumption
<1>8. Most(c, v) \in Nat /\ Pad + all + Pad <= Most(c, v) + v
    BY <1>1, <1>4 DEF Most
<1>9. Begin(c, i) = Pad + from /\ End(c, i) = Pad + to
    BY <1>4 DEF Begin, End
<1>10. Pad \in Nat /\ v \in Nat /\ from <= to /\ to <= all
    BY <1>1, <1>4
<1>11. Most(c, v) <= Way[Settling]
    BY <1>1
<1>12. Begin(c, i) \in Nat /\ End(c, i) \in Nat /\ Begin(c, i) <= End(c, i) /\ End(c, i) - Begin(c, i) = to - from
    BY <1>9, <1>10
<1>13. Most(c, v) \in 0 .. Way[Settling] /\ End(c, i) <= Most(c, v) + v
    BY <1>7, <1>8, <1>9, <1>10, <1>11
<1> QED BY <1>1, <1>5, <1>6, <1>12, <1>13

\* Where the item in focus takes the page: it is on the panel there, whole, the
\* page shows nothing past its end.
LEMMA TakenIntoView ==
    ASSUME NEW c \in Contents, NEW v \in View, NEW i \in DOMAIN c, target \in Nat
    PROVE  LET t == IntoView(c, v, i)
           IN  /\ t \in 0 .. Way[Settling]
               /\ t <= Begin(c, i) /\ End(c, i) <= t + v /\ t = Clamped(t, c, v)
<1>1. PICK b, e, p, m \in Nat :
         b = Begin(c, i) /\ e = End(c, i) /\ p = Peek(c[i], v) /\ m = Most(c, v)
    BY ItemFits
<1>2. /\ v \in Nat /\ b <= e /\ e - b + 2 * p <= v /\ m <= Way[Settling] /\ e <= m + v
      /\ Way[Settling] \in Nat
    BY <1>1, ItemFits, WaysAre, ScrollAssumption
<1>3. PICK w \in Int : w = IF b - p < target THEN b - p ELSE IF e + p > target + v THEN e + p - v ELSE target
    BY <1>1, <1>2
<1>4. w <= b /\ e <= w + v
    BY <1>1, <1>2, <1>3
<1>5. PICK t \in Int : t = IF w < 0 THEN 0 ELSE IF w > m THEN m ELSE w
    BY <1>1
<1>6. IntoView(c, v, i) = t
    BY <1>1, <1>3, <1>5 DEF IntoView, Clamped
<1>7. t \in 0 .. m /\ t <= b /\ e <= t + v
    BY <1>1, <1>2, <1>4, <1>5
<1>8. t = Clamped(t, c, v)
    BY <1>1, <1>7 DEF Clamped
<1> QED BY <1>1, <1>2, <1>6, <1>7, <1>8

\* There it stays: a frame more takes the page nowhere else.
LEMMA StaysInView ==
    ASSUME NEW c \in Contents, NEW v \in View, NEW i \in DOMAIN c, target \in Nat,
           target' = IntoView(c, v, i)
    PROVE  IntoView(c, v, i)' = target'
<1>1. PICK b, e, p, m \in Nat :
         b = Begin(c, i) /\ e = End(c, i) /\ p = Peek(c[i], v) /\ m = Most(c, v)
    BY ItemFits
<1>2. v \in Nat /\ b <= e /\ e - b + 2 * p <= v /\ e <= m + v
    BY <1>1, ItemFits
<1>3. PICK w \in Int : w = IF b - p < target THEN b - p ELSE IF e + p > target + v THEN e + p - v ELSE target
    BY <1>1, <1>2
<1>4. PICK t \in Int : t = IF w < 0 THEN 0 ELSE IF w > m THEN m ELSE w
    BY <1>1
<1>5. target' = t
    BY <1>1, <1>3, <1>4 DEF IntoView, Clamped
<1>6. PICK x \in Int : x = IF b - p < t THEN b - p ELSE IF e + p > t + v THEN e + p - v ELSE t
    BY <1>1, <1>2
<1>7. t = IF x < 0 THEN 0 ELSE IF x > m THEN m ELSE x
    BY <1>1, <1>2, <1>3, <1>4, <1>6
<1>8. IntoView(c, v, i)' = IF x < 0 THEN 0 ELSE IF x > m THEN m ELSE x
    BY <1>1, <1>5, <1>6 DEF IntoView, Clamped
<1> QED BY <1>5, <1>7, <1>8

\* A frame goes a part of the way, and of one a frame longer leaves the way.
LEMMA NearerIs ==
    ASSUME NEW from \in Nat, NEW to \in Nat, NEW n \in 1 .. Settling,
           to - from <= Way[n], from - to <= Way[n]
    PROVE  LET at == Nearer(from, to)
           IN  /\ at \in Int /\ to - at <= Way[n - 1] /\ at - to <= Way[n - 1]
               /\ (from <= to => at \in from .. to) /\ (to <= from => at \in to .. from)
<1>0. Settling \in Nat
    BY ScrollAssumption
<1>1. PICK x, y \in Nat : x = Way[n - 1] /\ y = Way[n] /\ y = (3 * x + 2) \div 2
    <2>1. n - 1 \in 0 .. Settling /\ n \in 0 .. Settling
        BY <1>0
    <2>2. Way[n - 1] \in Nat /\ Way[n] \in Nat /\ Way[n] = (3 * Way[n - 1] + 2) \div 2
        BY <2>1, WaysAre
    <2> QED BY <2>2
<1>2. CASE to >= from
    <2>1. PICK d \in Nat : d = to - from
        BY <1>2
    <2>2. d - ((d + 2) \div 3) \in Nat /\ d - ((d + 2) \div 3) <= x /\ (d + 2) \div 3 \in Nat
        BY <1>1, <2>1, OneMoreFrame
    <2>3. Nearer(from, to) = from + ((d + 2) \div 3)
        BY <1>2, <2>1 DEF Nearer
    <2> QED BY <1>1, <1>2, <2>1, <2>2, <2>3
<1>3. CASE to < from
    <2>1. PICK d \in Nat : d = from - to
        BY <1>3
    <2>2. d - ((d + 2) \div 3) \in Nat /\ d - ((d + 2) \div 3) <= x /\ (d + 2) \div 3 \in Nat
        BY <1>1, <2>1, OneMoreFrame
    <2>3. Nearer(from, to) = from - ((d + 2) \div 3)
        BY <1>3, <2>1 DEF Nearer
    <2> QED BY <1>1, <1>3, <2>1, <2>2, <2>3
<1> QED BY <1>2, <1>3

\* A frame, whatever the page holds then and wherever the keys have put the
\* focus.
LEMMA ScrollFrameKeeps ==
    ASSUME ScrollInv, NEW c \in Contents, NEW v \in View, NEW i \in DOMAIN c, ScrollFrame(c, v, i)
    PROVE  ScrollInv'
<1>1. Settling \in Nat /\ Settling # 0 /\ Way \in [0 .. Settling -> Nat]
    BY ScrollAssumption, WaysAre
<1>2. PICK t, u, f, g \in Nat : t = target /\ u = target' /\ f = offset /\ t <= Way[Settling]
                              /\ f <= Way[Settling] /\ u <= Way[Settling]
    <2>1. target \in Nat /\ offset \in Nat
        BY <1>1 DEF ScrollInv
    <2>2. target' \in 0 .. Way[Settling]
        BY <2>1, TakenIntoView DEF ScrollFrame
    <2> QED BY <1>1, <2>1, <2>2 DEF ScrollInv
<1>3. content' = c /\ view' = v /\ focused' = i /\ u = IntoView(c, v, i) /\ offset' = Nearer(f, u)
    BY <1>2 DEF ScrollFrame
<1>4. IntoView(content, view, focused)' = u
    <2>1. IntoView(c, v, i)' = u
        BY <1>2, <1>3, StaysInView
    <2> QED BY <1>3, <2>1 DEF IntoView, Clamped, Begin, End
<1>5. offset' \in 0 .. Way[Settling]
    <2>1. Settling \in 1 .. Settling
        BY <1>1
    <2>2. Way[Settling] \in Nat /\ u - f <= Way[Settling] /\ f - u <= Way[Settling]
        BY <1>1, <1>2
    <2>3. (f <= u => Nearer(f, u) \in f .. u) /\ (u <= f => Nearer(f, u) \in u .. f)
        BY <2>1, <2>2, NearerIs
    <2> QED BY <1>1, <1>2, <1>3, <2>2, <2>3
<1>6. still \in 0 .. Settling /\ still' \in 0 .. Settling
    BY <1>1 DEF ScrollInv, ScrollFrame
<1>7. ASSUME still' > 0
      PROVE  u - offset' <= Way[Settling - still'] /\ offset' - u <= Way[Settling - still']
    <2>1. c = content /\ v = view /\ i = focused /\ still' = IF still < Settling THEN still + 1 ELSE still
        BY <1>7 DEF ScrollFrame
    <2>2. CASE still = 0
        <3>1. Settling \in 1 .. Settling /\ still' = 1 /\ u - f <= Way[Settling] /\ f - u <= Way[Settling]
            BY <1>1, <1>2, <2>1, <2>2
        <3> QED BY <1>2, <1>3, <3>1, NearerIs
    <2>3. CASE still > 0
        <3>1. u = t /\ t - f <= Way[Settling - still] /\ f - t <= Way[Settling - still]
            BY <1>2, <1>3, <2>1, <2>3 DEF ScrollInv
        <3>2. CASE still < Settling
            <4>1. PICK n : n = Settling - still
                OBVIOUS
            <4>2. n \in 1 .. Settling /\ Settling - still' = n - 1
                BY <1>1, <1>6, <2>1, <3>2, <4>1
            <4> QED BY <1>2, <1>3, <3>1, <4>1, <4>2, NearerIs
        <3>3. CASE ~(still < Settling)
            <4>1. still = Settling /\ still' = Settling /\ Settling - still = 0
                BY <1>1, <1>6, <2>1, <3>3
            <4>2. f = u
                BY <1>2, <3>1, <4>1, WaysAre
            <4>3. Settling \in 1 .. Settling
                BY <1>1
            <4>4. Nearer(f, u) = u
                BY <1>1, <1>2, <4>2, <4>3, NearerIs
            <4> QED BY <1>2, <1>3, <4>1, <4>4, WaysAre
        <3> QED BY <3>2, <3>3
    <2> QED BY <1>6, <2>2, <2>3
<1>8. focused' \in DOMAIN content'
    BY <1>3
<1>9. target' = u /\ target' \in 0 .. Way[Settling] /\ content' \in Contents /\ view' \in View
    BY <1>1, <1>2, <1>3
<1>10. still' > 0 =>
          /\ target' = IntoView(content, view, focused)'
          /\ target' - offset' <= Way[Settling - still'] /\ offset' - target' <= Way[Settling - still']
    BY <1>4, <1>7, <1>9
<1> QED BY <1>5, <1>6, <1>8, <1>9, <1>10 DEF ScrollInv

\* "Frames for a scroll of any length to settle": with what is in focus taken
\* from anywhere to anywhere, of pages that grow and shrink and panels that do, a
\* few frames after it stands still it is on the panel, whole, and nothing past
\* the page's end is (view/scroll.c).
THEOREM FocusComesIntoView == ScrollSpec => []FocusIsInView
<1>1. ScrollInit => ScrollInv
    <2> SUFFICES ASSUME ScrollInit PROVE ScrollInv
        OBVIOUS
    <2>1. Way[Settling] \in Nat /\ Settling \in Nat
        BY ScrollAssumption, WaysAre
    <2>2. content # <<>> /\ content \in Seq([from : Nat, to : Nat])
        BY ScrollAssumption DEF ScrollInit
    <2>3. 1 \in DOMAIN content
        BY <2>2, EmptySeq, LenProperties
    <2> QED BY <2>1, <2>3 DEF ScrollInit, ScrollInv
<1>2. ScrollInv /\ [ScrollNext]_scrollVars => ScrollInv'
    <2> SUFFICES ASSUME ScrollInv, [ScrollNext]_scrollVars PROVE ScrollInv'
        OBVIOUS
    <2>1. CASE ScrollNext
        BY <2>1, ScrollFrameKeeps DEF ScrollNext
    <2>2. CASE UNCHANGED scrollVars
        BY <2>2 DEF scrollVars, ScrollInv, IntoView, Clamped, Begin, End
    <2> QED BY <2>1, <2>2
<1>3. ScrollInv => FocusIsInView
    <2> SUFFICES ASSUME ScrollInv, still >= Settling
                 PROVE  /\ offset <= Begin(content, focused) /\ End(content, focused) <= offset + view
                        /\ offset = Clamped(offset, content, view)
        BY DEF FocusIsInView
    <2>1. Settling \in Nat /\ Settling # 0 /\ Way[Settling] \in Nat
        BY ScrollAssumption, WaysAre
    <2>2. still = Settling /\ still > 0 /\ Settling - still = 0
        BY <2>1 DEF ScrollInv
    <2>3. target \in Nat /\ offset \in Nat /\ target = IntoView(content, view, focused)
          /\ target - offset <= Way[0] /\ offset - target <= Way[0]
        BY <2>1, <2>2 DEF ScrollInv
    <2>4. offset = target
        BY <2>3, WaysAre
    <2>5. /\ target <= Begin(content, focused) /\ End(content, focused) <= target + view
          /\ target = Clamped(target, content, view)
        BY <2>3, TakenIntoView DEF ScrollInv
    <2> QED BY <2>4, <2>5
<1> QED BY <1>1, <1>2, <1>3, PTL DEF ScrollSpec

-----------------------------------------------------------------------------
(* The screens side by side (MCScreens).                                   *)

\* A step of the screens is one of a part, and the others stand still.
LEMMA OnePartMoves ==
    ASSUME [ScreensNext]_<<part, detailVars, browseVars, bandVars, focusVars, layoutVars, scrollVars>>
    PROVE  /\ [DetailNext]_detailVars /\ [BrowseNext]_browseVars /\ [BandNext]_bandVars
           /\ [FocusNext]_focusVars /\ [LayoutNext]_layoutVars /\ [ScrollNext]_scrollVars
<1> DEFINE all == <<part, detailVars, browseVars, bandVars, focusVars, layoutVars, scrollVars>>
<1>1. CASE ItemMoves(DetailNext)
    BY <1>1 DEF ItemMoves
<1>2. CASE BrowseMoves(BrowseNext)
    BY <1>2 DEF BrowseMoves
<1>3. CASE BandMoves(BandNext)
    BY <1>3 DEF BandMoves
<1>4. CASE FocusMoves(FocusNext)
    BY <1>4 DEF FocusMoves
<1>5. CASE LayoutMoves(LayoutNext)
    BY <1>5 DEF LayoutMoves
<1>6. CASE ScrollMoves(ScrollNext)
    BY <1>6 DEF ScrollMoves
<1>7. CASE UNCHANGED all
    BY <1>7
<1> QED BY <1>1, <1>2, <1>3, <1>4, <1>5, <1>6, <1>7 DEF ScreensNext

\* What the screens do side by side is what each of them does alone, so what is
\* shown of a part holds of all of them together.
THEOREM ScreensAreTheirParts ==
    ScreensSpec => DetailSpec /\ BrowseSpec /\ BandSpec /\ FocusSpec /\ LayoutSpec /\ ScrollSpec
<1>1. ScreensInit => DetailInit /\ BrowseInit /\ BandInit /\ FocusInit /\ LayoutInit /\ ScrollInit
    BY DEF ScreensInit
<1>2. [ScreensNext]_<<part, detailVars, browseVars, bandVars, focusVars, layoutVars, scrollVars>>
        => /\ [DetailNext]_detailVars /\ [BrowseNext]_browseVars /\ [BandNext]_bandVars
           /\ [FocusNext]_focusVars /\ [LayoutNext]_layoutVars /\ [ScrollNext]_scrollVars
    BY OnePartMoves
<1> QED BY <1>1, <1>2, PTL
        DEF ScreensSpec, DetailSpec, BrowseSpec, BandSpec, FocusSpec, LayoutSpec, ScrollSpec

\* The focus is the viewer's on every screen: back where it was when a page is
\* left (page/stack.c), and not moved again by a held direction before its delay
\* is over (view/element.c).
THEOREM FocusStaysTheViewers == ScreensSpec => FocusIsTheViewers
<1> QED BY ScreensAreTheirParts, LevelsComeBack, HeldWaits, PTL DEF FocusIsTheViewers

=============================================================================
