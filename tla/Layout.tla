------------------------------- MODULE Layout -------------------------------
(***************************************************************************)
(* view/layout.c: a page hands out its panel through a stack of open       *)
(* boxes, each with a cursor from its near end and one from its far end,   *)
(* and no page computes a place. Nothing is refused: a size that is not    *)
(* there is handed out all the same, and only ui_end() says so.            *)
(***************************************************************************)
EXTENDS Integers, Sequences

CONSTANTS
    PanelW, PanelH,     \* the page's area
    Depth,              \* UI_LAYOUT_DEPTH
    Sizes,              \* the sizes a page asks for, 0 for UI_FILL
    BoxGaps,            \* the gaps of its boxes
    MaxSlots            \* bound: how much a page takes

ASSUME LayoutAssumption ==
    PanelW \in Nat /\ PanelH \in Nat /\ Sizes \subseteq Nat /\ BoxGaps \subseteq Nat

VARIABLES
    boxes,      \* layout.stack, up to its depth
    overflowed, \* layout.overflowed
    slots,      \* history: the slots that were taken and not opened as a box
    spilled,    \* history: more was taken than was there
    takes

layoutVars == <<boxes, overflowed, slots, spilled, takes>>

\* A line without its last: SequencesExt's Front, without the rest of it, which
\* every proof about the pages would carry.
Shorter(s) == SubSeq(s, 1, Len(s) - 1)

Rect(x, y, w, h) == [x |-> x, y |-> y, w |-> w, h |-> h]
Down(b) == b.axis = "down"
Near(b) == IF Down(b) THEN b.box.y ELSE b.box.x
Room(b) == IF Down(b) THEN b.box.h ELSE b.box.w

\* push_box() with reset_cursor().
Opened(area, axis, gap) ==
    LET b == [box |-> area, axis |-> axis, gap |-> gap, at |-> 0, end |-> 0,
              started |-> FALSE, ended |-> FALSE]
    IN  [b EXCEPT !.at = Near(b), !.end = Near(b) + Room(b)]

Inner == boxes[Len(boxes)]

\* A slip: what was taken from the far end is handed out again.
Remaining_All(b) ==
    IF Down(b) THEN Rect(b.box.x, b.at, b.box.w, b.box.y + b.box.h - b.at)
               ELSE Rect(b.at, b.box.y, b.box.x + b.box.w - b.at, b.box.h)

Remaining(b) ==
    IF Down(b) THEN Rect(b.box.x, b.at, b.box.w, b.end - b.at)
               ELSE Rect(b.at, b.box.y, b.end - b.at, b.box.h)

OrRest(want, rest) == IF want = 0 THEN rest ELSE want
NotLess(n) == IF n < 0 THEN 0 ELSE n

\* The row's centre line, by C's division, which goes towards nought.
Centred(room, h) == IF room >= h THEN (room - h) \div 2 ELSE -((h - room) \div 2)

\* ui_take(): the box behind, and the slot.
TakeNear(b, w, h) ==
    LET c == [b EXCEPT !.at = @ + IF b.started THEN b.gap ELSE 0]
        free == Remaining(c)
        sw == OrRest(w, free.w)
        sh == OrRest(h, free.h)
    IN  [box |-> [c EXCEPT !.at = @ + IF Down(b) THEN sh ELSE sw, !.started = TRUE],
         slot |-> Rect(free.x, IF Down(b) THEN free.y ELSE free.y + Centred(free.h, sh),
                       NotLess(sw), NotLess(sh))]

\* ui_take_end().
TakeFar(b, w, h) ==
    LET c == [b EXCEPT !.end = @ - IF b.ended THEN b.gap ELSE 0]
        free == Remaining(c)
        sw == OrRest(w, free.w)
        sh == OrRest(h, free.h)
        end == c.end - IF Down(b) THEN sh ELSE sw
    IN  [box |-> [c EXCEPT !.end = end, !.ended = TRUE],
         slot |-> IF Down(b) THEN Rect(free.x, end, NotLess(sw), NotLess(sh))
                             ELSE Rect(end, free.y + Centred(free.h, sh), NotLess(sw), NotLess(sh))]

\* More is asked for than there is, along the box or across it.
Exceeds(b, between, w, h) ==
    \/ between + (IF Down(b) THEN h ELSE w) > b.end - b.at
    \/ Down(b) /\ w > b.box.w
    \/ ~Down(b) /\ h > b.box.h
ExceedsNear(b, w, h) == Exceeds(b, IF b.started THEN b.gap ELSE 0, w, h)
ExceedsFar(b, w, h)  == Exceeds(b, IF b.ended THEN b.gap ELSE 0, w, h)

WithTop(b) == [boxes EXCEPT ![Len(boxes)] = b]

Takes(asks) ==
    /\ takes < MaxSlots
    /\ takes' = takes + 1
    /\ spilled' = (spilled \/ asks)
    /\ UNCHANGED overflowed

ui_take(w, h) ==
    LET taken == TakeNear(Inner, w, h)
    IN  /\ Takes(ExceedsNear(Inner, w, h))
        /\ boxes' = WithTop(taken.box)
        /\ slots' = Append(slots, taken.slot)

ui_take_end(w, h) ==
    LET taken == TakeFar(Inner, w, h)
    IN  /\ Takes(ExceedsFar(Inner, w, h))
        /\ boxes' = WithTop(taken.box)
        /\ slots' = Append(slots, taken.slot)

\* depth_ok(): a box too deep does not open, and its contents are laid out
\* against the parent.
TooDeep ==
    /\ Len(boxes) >= Depth
    /\ overflowed' = TRUE
    /\ UNCHANGED <<boxes, slots, spilled, takes>>

\* ui_row() and ui_col(): all of the cross axis.
open_box(axis, size, gap) ==
    /\ Len(boxes) < Depth
    /\ LET taken == IF Down(Inner) THEN TakeNear(Inner, 0, size) ELSE TakeNear(Inner, size, 0)
       IN  /\ Takes(IF Down(Inner) THEN ExceedsNear(Inner, 0, size) ELSE ExceedsNear(Inner, size, 0))
           /\ boxes' = Append(WithTop(taken.box), Opened(taken.slot, axis, gap))
    /\ UNCHANGED slots

\* ui_row_at() and ui_col_at(), of the slot the page has just taken.
open_box_at(axis, gap) ==
    /\ Len(boxes) < Depth
    /\ slots # <<>> /\ takes < MaxSlots
    /\ boxes' = Append(boxes, Opened(slots[Len(slots)], axis, gap))
    /\ slots' = Shorter(slots)
    /\ takes' = takes + 1
    /\ UNCHANGED <<overflowed, spilled>>

\* ui_end(): what the near end handed out, against the room.
ui_end ==
    /\ overflowed' = (overflowed \/ Inner.at - Near(Inner) > Room(Inner))
    /\ boxes' = IF Len(boxes) > 1 THEN Shorter(boxes) ELSE boxes
    /\ UNCHANGED <<slots, spilled, takes>>

ui_gap(pixels) ==
    /\ takes < MaxSlots
    /\ takes' = takes + 1
    /\ boxes' = WithTop([Inner EXCEPT !.at = @ + pixels, !.started = TRUE])
    /\ spilled' = (spilled \/ Inner.at + pixels > Inner.end)
    /\ UNCHANGED <<overflowed, slots>>

\* ui_pad_x(), as page_chrome.c makes it of a box nothing was taken of.
ui_pad_x(left, right) ==
    /\ ~Inner.started /\ ~Inner.ended /\ takes < MaxSlots
    /\ takes' = takes + 1
    /\ LET area == [Inner.box EXCEPT !.x = @ + left, !.w = NotLess(@ - (left + right))]
       IN  /\ boxes' = WithTop(Opened(area, Inner.axis, Inner.gap))
           /\ spilled' = (spilled \/ left + right > Inner.box.w)
    /\ UNCHANGED <<overflowed, slots>>

-----------------------------------------------------------------------------

\* ui_layout_begin().
LayoutInit ==
    /\ boxes = <<Opened(Rect(0, 0, PanelW, PanelH), "down", 0)>>
    /\ overflowed = FALSE
    /\ slots = <<>> /\ spilled = FALSE /\ takes = 0

LayoutNext ==
    \/ \E w, h \in Sizes : ui_take(w, h) \/ ui_take_end(w, h)
    \/ \E axis \in {"down", "across"}, gap \in BoxGaps :
          open_box_at(axis, gap) \/ \E size \in Sizes : open_box(axis, size, gap)
    \/ TooDeep
    \/ ui_end
    \/ ui_gap(1)
    \/ ui_pad_x(1, 0)

LayoutSpec == LayoutInit /\ [][LayoutNext]_layoutVars

-----------------------------------------------------------------------------
(* Properties.                                                             *)

Apart(r, s) ==
    \/ r.x + r.w <= s.x \/ s.x + s.w <= r.x
    \/ r.y + r.h <= s.y \/ s.y + s.h <= r.y

OnThePanel(r) == r.x >= 0 /\ r.y >= 0 /\ r.x + r.w <= PanelW /\ r.y + r.h <= PanelH

Empty(r) == r.w = 0 \/ r.h = 0

\* layout.h: "so a screen never computes an x or a y". As long as no more was
\* asked for than was there, whatever was taken from either end, nested,
\* padded or opened again in a slot is on the panel and over nothing else.
SlotsApart ==
    ~spilled =>
        \A i, j \in DOMAIN slots :
            /\ Empty(slots[i]) \/ OnThePanel(slots[i])
            /\ i < j => Empty(slots[i]) \/ Empty(slots[j]) \/ Apart(slots[i], slots[j])

-----------------------------------------------------------------------------
(***************************************************************************)
(* view/scroll.c under a page that calls it in every frame: the page's     *)
(* items one behind the other, some longer than others and more of them    *)
(* as the server answers, the focus that may be on any of them, and the    *)
(* offset that goes after it.                                              *)
(***************************************************************************)
CONSTANTS
    Contents,   \* what a page may hold: sequences of items, from where to where each is
    View,       \* the lengths the page is seen through
    Pad,        \* the margin it keeps
    Settling    \* UI_SCROLL_SETTLE: the frames after which the offset is there

ItemsLen(c) == c[Len(c)].to
Length(i) == i.to - i.from

\* What is to be seen of an item's neighbours.
Peek(i, view) == IF Length(i) \div 2 > view \div 3 THEN view \div 3 ELSE Length(i) \div 2

\* How far a page goes.
Most(c, v) == LET all == Pad + ItemsLen(c) + Pad IN IF all > v THEN all - v ELSE 0

\* The longest way of which n frames leave nothing, a third and at least a
\* pixel at a time.
Way[n \in 0 .. Settling] == IF n = 0 THEN 0 ELSE (3 * Way[n - 1] + 2) \div 2

\* Room for an item and for what is to be seen of its neighbours, as on every
\* page that scrolls; and "Frames for a scroll of any length to settle".
ASSUME ScrollAssumption ==
    /\ Pad \in Nat /\ Settling \in Nat \ {0} /\ View \subseteq Nat
    /\ \A c \in Contents :
          /\ c # <<>> /\ c \in Seq([from : Nat, to : Nat])
          /\ \A i \in DOMAIN c :
                /\ c[i].from <= c[i].to /\ c[i].to <= ItemsLen(c)
                /\ \A v \in View : Length(c[i]) + 2 * Peek(c[i], v) <= v
          /\ \A v \in View : Most(c, v) <= Way[Settling]

VARIABLES
    content,    \* what the page holds
    view,       \* scroll.view
    focused,    \* the item in focus
    target, offset,
    still       \* history: the frames since any of the first three moved

scrollVars == <<content, view, focused, target, offset, still>>

\* Where an item of what the page holds begins and ends, behind the margin.
Begin(c, i) == Pad + c[i].from
End(c, i)   == Pad + c[i].to

\* "Without the clamp the peek holds the start at the first item's own margin
\* and the end short of the last one's".
Clamped(t, c, v) == IF t < 0 THEN 0 ELSE IF t > Most(c, v) THEN Most(c, v) ELSE t

\* ui_scroll_into_view()
IntoView(c, v, i) ==
    LET peek == Peek(c[i], v)
    IN  Clamped(IF Begin(c, i) - peek < target THEN Begin(c, i) - peek
                ELSE IF End(c, i) + peek > target + v THEN End(c, i) + peek - v
                ELSE target, c, v)

\* A slip: C's division rounds the last two pixels to none.
Nearer_Third(from, to) ==
    IF to >= from THEN from + (to - from) \div 3 ELSE from - (from - to) \div 3

\* ui_scroll_step(): a third of the way and never less than a pixel.
Nearer(from, to) ==
    IF to >= from THEN from + (to - from + 2) \div 3 ELSE from - (from - to + 2) \div 3

\* One frame of a page: the rows there are now, where the keys have put the
\* focus, and where the page is drawn.
ScrollFrame(c, v, i) ==
    /\ content' = c /\ view' = v /\ focused' = i
    /\ target' = IntoView(c, v, i)
    /\ offset' = Nearer(offset, target')
    /\ still' = IF <<c, v, i>> # <<content, view, focused>> THEN 0
                ELSE IF still < Settling THEN still + 1 ELSE still

ScrollInit ==
    /\ content \in Contents /\ view \in View /\ focused = 1
    /\ target = 0 /\ offset = 0 /\ still = 0

ScrollNext ==
    \E c \in Contents, v \in View : \E i \in DOMAIN c : ScrollFrame(c, v, i)

ScrollSpec == ScrollInit /\ [][ScrollNext]_scrollVars

-----------------------------------------------------------------------------
(* Properties.                                                             *)

\* What is in focus is on the panel, whole, a few frames after the keys and
\* the server have let go, and the page shows nothing past its end.
FocusIsInView ==
    still >= Settling =>
        /\ offset <= Begin(content, focused) /\ End(content, focused) <= offset + view
        /\ offset = Clamped(offset, content, view)
=============================================================================
