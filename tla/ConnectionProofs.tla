-------------------------- MODULE ConnectionProofs -------------------------
(***************************************************************************)
(* The proofs about the drawing thread's loop over the session, the dialog *)
(* and the pages that show them (Connection), for any number of sleeps,    *)
(* any bound of misses, any depth of the stack and any sizes of the pages. *)
(*                                                                         *)
(* Two halves that touch in few places. Of the screens: the pages that     *)
(* wait for the dialog are none while it is down and one while it is up    *)
(* (DialogInv), which needs that two pages never wait at once. Of the      *)
(* session: past the joining a connecting under way does not help a link   *)
(* of before the sleep, so that only an ask still to be read does          *)
(* (WokenInv), and what answers a page or holds the stage at "ready" has   *)
(* connected once.                                                         *)
(***************************************************************************)
EXTENDS Connection, TLAPS

-----------------------------------------------------------------------------
(* The invariant.                                                          *)

Levels == [page : Pages, state : BOOLEAN, focus : {NoFocus}]

\* The levels of network pages that wait for their dialog.
Waits(s) == {i \in 1 .. depth(s) : s.levels[i].page = "network" /\ s.levels[i].state}
OneWaits(up, s) == IF up THEN \E i : Waits(s) = {i} ELSE Waits(s) = {}

ScreensTyped(s) ==
    /\ s = [levels |-> s.levels, live |-> NoFocus]
    /\ s.levels \in Seq(Levels)
    /\ depth(s) \in 1 .. StackMax
    /\ \A i \in 1 .. depth(s) : s.levels[i].page = "boot" => i = 1

\* One page waits for the dialog, as long as it is up; one of this run's that
\* shows is up and was not taken over.
DialogInv ==
    /\ OneWaits(picker.up, screens)
    /\ owner = "ours" /\ dialog \in {"init", "visible"} => picker.up /\ ~picker.reclaim
    /\ at \in {"leaving", "left"} => ~picker.up

LostInv == g_was_lost /\ ~blinked => OnStack(screens, "offline")

\* A link of before the last sleep that a watch has seen is being rejoined, or
\* was given up on; past the joining only what is asked for still helps.
Ahead == g_want_connect \/ swallowed \/ unmade

WokenInv ==
    /\ g_stage = "ready" \/ con = "asking" => g_connected
    /\ at = "draw" => g_epoch_seen = epoch
    /\ g_epoch_seen = epoch /\ net_joined /\ g_link_epoch # epoch =>
          /\ g_connected =>
                Ahead \/ con = "wanted" \/ con \in Connecting \/ g_stage = "stopped"
          /\ con = "signin" => Ahead

NetInv    == NetTypeOK /\ SessionTypeOK /\ PoolGivenBack /\ WokenInv
ScreenInv == ScreensTyped(screens) /\ PickerTypeOK /\ DialogInv
LoopTypeOK == at \in {"watch", "draw", "leaving", "left"} /\ g_quit \in BOOLEAN /\ blinked \in BOOLEAN

ConnectionInv == NetInv /\ ScreenInv /\ LostInv /\ LoopTypeOK

-----------------------------------------------------------------------------
(* The stack's operations.                                                 *)

\* The levels up to n show what they showed.
Kept(s, t, n) ==
    \A i \in 1 .. n : t.levels[i].page = s.levels[i].page /\ t.levels[i].state = s.levels[i].state

LEMMA SetTopKeeps ==
    ASSUME NEW s, ScreensTyped(s), NEW state \in BOOLEAN,
           NEW t, t = SetTop(s, state)
    PROVE  /\ ScreensTyped(t) /\ depth(t) = depth(s) /\ Kept(s, t, depth(s) - 1)
           /\ Top(t).page = Top(s).page /\ Top(t).state = state
<1>1. PICK l : l = s.levels
    OBVIOUS
<1>2. PICK n : n = Len(l)
    OBVIOUS
<1>3. /\ l \in Seq(Levels) /\ n \in 1 .. StackMax /\ n \in Nat \ {0} /\ n \in 1 .. Len(l)
      /\ s = [levels |-> l, live |-> NoFocus] /\ depth(s) = n
    BY <1>1, <1>2, StackAssumption DEF ScreensTyped, depth
<1>4. PICK m : m = [l EXCEPT ![n] = [l[n] EXCEPT !.state = state]]
    OBVIOUS
<1>5. t = [levels |-> m, live |-> NoFocus]
    BY <1>3, <1>4 DEF SetTop
<1>6. l[n] \in Levels
    BY <1>3
<1>7. [l[n] EXCEPT !.state = state] \in Levels /\ [l[n] EXCEPT !.state = state].page = l[n].page
      /\ [l[n] EXCEPT !.state = state].state = state
    BY <1>6 DEF Levels
<1>8. m \in Seq(Levels) /\ Len(m) = n /\ m[n].page = l[n].page /\ m[n].state = state
      /\ \A i \in 1 .. n - 1 : m[i] = l[i]
    BY <1>2, <1>3, <1>4, <1>7
<1>9. t.levels = m /\ depth(t) = n
    BY <1>5, <1>8 DEF depth
<1>10. \A i \in 1 .. n : m[i].page = l[i].page
    BY <1>3, <1>8
<1>11. ScreensTyped(t)
    BY <1>1, <1>3, <1>5, <1>8, <1>9, <1>10 DEF ScreensTyped
<1> QED BY <1>1, <1>3, <1>8, <1>9, <1>11 DEF Kept, Top

LEMMA PopKeeps ==
    ASSUME NEW s, ScreensTyped(s), NEW t, t = pop_now(s)
    PROVE  /\ ScreensTyped(t) /\ Kept(s, t, depth(t))
           /\ depth(t) \in {depth(s), depth(s) - 1}
<1>1. PICK l, n : l = s.levels /\ n = Len(l)
    OBVIOUS
<1>2. l \in Seq(Levels) /\ n \in 1 .. StackMax /\ n \in Nat \ {0}
      /\ s = [levels |-> l, live |-> NoFocus] /\ depth(s) = n
      /\ \A i \in 1 .. n : l[i].page = "boot" => i = 1
    BY <1>1, StackAssumption DEF ScreensTyped, depth
<1>3. CASE n <= 1
    BY <1>2, <1>3 DEF pop_now, Kept
<1>4. CASE n > 1
    <2>1. PICK m : m = SubSeq(l, 1, n - 1)
        OBVIOUS
    <2>2. m \in Seq(Levels) /\ Len(m) = n - 1 /\ \A i \in 1 .. n - 1 : m[i] = l[i]
        BY <1>1, <1>2, <1>4, <2>1
    <2>3. l[n - 1] \in Levels
        BY <1>1, <1>2, <1>4
    <2>4. t = [levels |-> m, live |-> NoFocus]
        <3>1. l[n - 1].focus = NoFocus
            BY <2>3 DEF Levels
        <3>2. s.levels = l /\ depth(s) = n /\ ~(n <= 1)
            BY <1>1, <1>2, <1>4
        <3>3. t = [levels |-> SubSeq(l, 1, n - 1), live |-> l[n - 1].focus]
            BY <3>2 DEF pop_now
        <3> QED BY <2>1, <3>1, <3>3
    <2>5. t.levels = m /\ depth(t) = n - 1 /\ n - 1 \in 1 .. StackMax
        BY <1>2, <1>4, <2>2, <2>4, StackAssumption DEF depth
    <2>6. ScreensTyped(t)
        BY <1>2, <2>2, <2>4, <2>5 DEF ScreensTyped
    <2> QED BY <1>1, <1>2, <2>2, <2>5, <2>6 DEF Kept
<1> QED BY <1>2, <1>3, <1>4

LEMMA PushKeeps ==
    ASSUME NEW s, ScreensTyped(s), NEW page \in Pages \ {"boot"}, NEW state \in BOOLEAN,
           NEW t, t = push_now(s, page, state, 0)
    PROVE  /\ ScreensTyped(t) /\ Kept(s, t, depth(s))
           /\ Refused(s, page, 0) => t = s
           /\ ~Refused(s, page, 0) =>
                 depth(t) = depth(s) + 1 /\ Top(t).page = page /\ Top(t).state = state
<1>1. PICK l, n : l = s.levels /\ n = Len(l)
    OBVIOUS
<1>2. l \in Seq(Levels) /\ n \in 1 .. StackMax /\ n \in Nat \ {0} /\ n \in 1 .. Len(l)
      /\ s = [levels |-> l, live |-> NoFocus] /\ depth(s) = n /\ s.live = NoFocus
      /\ \A i \in 1 .. n : l[i].page = "boot" => i = 1
    BY <1>1, StackAssumption DEF ScreensTyped, depth
<1>3. CASE Refused(s, page, 0)
    BY <1>3 DEF push_now, Kept
<1>4. CASE ~Refused(s, page, 0)
    <2>1. PICK m, v : v = Level(page, state) /\ m = [l EXCEPT ![n] = [l[n] EXCEPT !.focus = NoFocus]]
        OBVIOUS
    <2>2. v \in Levels /\ v.page = page /\ v.state = state
        BY <2>1 DEF Level, Levels
    <2>3. l[n] \in Levels
        BY <1>2
    <2>4. [l[n] EXCEPT !.focus = NoFocus] = l[n]
        BY <2>3 DEF Levels
    <2>5. m = l
        BY <1>1, <1>2, <2>1, <2>4
    <2>6. Covered(s) = l
        BY <1>1, <1>2, <2>1, <2>5 DEF Covered
    <2>7. t = [levels |-> Append(l, v), live |-> NoFocus]
        BY <1>4, <2>1, <2>6 DEF push_now
    <2>8. PICK k : k = Append(l, v)
        OBVIOUS
    <2>9. k \in Seq(Levels) /\ Len(k) = n + 1 /\ k[n + 1] = v /\ \A i \in 1 .. n : k[i] = l[i]
        BY <1>1, <1>2, <2>2, <2>8
    <2>10. n + 1 \in 1 .. StackMax
        BY <1>2, <1>4, StackAssumption DEF Refused
    <2>11. t.levels = k /\ depth(t) = n + 1
        BY <2>7, <2>8, <2>9 DEF depth
    <2>12. ScreensTyped(t)
        <3>1. \A i \in 1 .. n + 1 : k[i].page = "boot" => i = 1
            <4>1. \A i \in 1 .. n + 1 : i \in 1 .. n \/ i = n + 1
                BY <1>2
            <4> QED BY <1>2, <2>2, <2>9, <4>1
        <3> QED BY <2>7, <2>8, <2>9, <2>10, <2>11, <3>1 DEF ScreensTyped
    <2> QED BY <1>1, <1>2, <1>4, <2>2, <2>9, <2>11, <2>12 DEF Kept, Top
<1> QED BY <1>3, <1>4

LEMMA ResetLeaves ==
    ASSUME NEW page \in {"boot", "home"}, NEW state \in BOOLEAN, NEW t, t = reset_now(page, state)
    PROVE  ScreensTyped(t) /\ depth(t) = 1 /\ t.levels[1].page = page
<1>1. ~Refused(NoScreens, page, 0)
    BY ConnectionAssumption
<1>2. PICK v : v = Level(page, state)
    OBVIOUS
<1>3. v \in Levels /\ v.page = page
    BY <1>2 DEF Level, Levels, Pages
<1>4. Covered(NoScreens) = <<>>
    BY DEF Covered, NoScreens, depth
<1>5. t = [levels |-> Append(<<>>, v), live |-> NoFocus]
    BY <1>1, <1>2, <1>4 DEF reset_now, push_now
<1>6. PICK k : k = Append(<<>>, v)
    OBVIOUS
<1>7. k \in Seq(Levels) /\ Len(k) = 1 /\ k[1] = v
    BY <1>3, <1>6
<1>8. t.levels = k /\ depth(t) = 1
    BY <1>5, <1>6, <1>7 DEF depth
<1> QED BY <1>3, <1>5, <1>6, <1>7, <1>8, StackAssumption DEF ScreensTyped

\* What the end of a frame does with what was asked for.
LEMMA EndsInPush ==
    ASSUME NEW s, NEW page, NEW state
    PROVE  /\ nav_now(s, PushAsk(page, state, 0)) = push_now(s, page, state, 0)
           /\ \A circle \in BOOLEAN, took \in BOOLEAN, handled \in BOOLEAN :
                 EndOfFrame(s, PushAsk(page, state, 0), circle, took, handled)
                 = push_now(s, page, state, 0)
<1>1. PICK ask : ask = PushAsk(page, state, 0)
    OBVIOUS
<1>2. /\ ask.what = "push" /\ ask.page = page /\ ask.state = state /\ ask.given = 0
    BY <1>1 DEF PushAsk
<1>3. nav_now(s, ask) = push_now(s, page, state, 0)
    BY <1>2 DEF nav_now
<1>4. ASSUME NEW circle \in BOOLEAN, NEW took \in BOOLEAN, NEW handled \in BOOLEAN
      PROVE  EndOfFrame(s, ask, circle, took, handled) = nav_now(s, ask)
    BY <1>2 DEF EndOfFrame, screen_back, nav_ask
<1> QED BY <1>1, <1>3, <1>4

LEMMA EndsInPop ==
    ASSUME NEW s, NEW circle, NEW took, NEW handled
    PROVE  EndOfFrame(s, PopAsk, circle, took, handled) = pop_now(s)
BY DEF EndOfFrame, screen_back, nav_ask, PopAsk, nav_now

-----------------------------------------------------------------------------
(* The pages and the dialog.                                               *)

LEMMA TopIs ==
    ASSUME NEW s, ScreensTyped(s)
    PROVE  /\ depth(s) \in Nat \ {0} /\ depth(s) \in 1 .. depth(s)
           /\ Top(s) = s.levels[depth(s)] /\ Top(s).page \in Pages /\ Top(s).state \in BOOLEAN
           /\ Top(s).page = "boot" => depth(s) = 1
<1>1. depth(s) \in Nat \ {0} /\ depth(s) \in 1 .. depth(s) /\ s.levels \in Seq(Levels)
      /\ depth(s) = Len(s.levels)
    BY StackAssumption DEF ScreensTyped, depth
<1>2. Top(s) \in Levels
    BY <1>1 DEF Top
<1>3. Top(s).page \in Pages /\ Top(s).state \in BOOLEAN
    BY <1>2 DEF Levels
<1> QED BY <1>1, <1>3 DEF Top, ScreensTyped

\* The top goes, or nothing does, and the top did not wait.
LEMMA WaitsOverPop ==
    ASSUME NEW s, ScreensTyped(s), NEW t, t = s \/ t = pop_now(s),
           Top(s).page # "network" \/ ~Top(s).state
    PROVE  /\ ScreensTyped(t) /\ Waits(t) = Waits(s)
           /\ Top(s).page # "offline" \/ t = s => (OnStack(s, "offline") => OnStack(t, "offline"))
<1>1. depth(s) \in Nat \ {0} /\ Top(s) = s.levels[depth(s)] /\ depth(s) \notin Waits(s)
    BY TopIs DEF Waits
<1>2. CASE t = s
    BY <1>2
<1>3. CASE t = pop_now(s)
    <2>1. ScreensTyped(t) /\ Kept(s, t, depth(t)) /\ depth(t) \in {depth(s), depth(s) - 1}
        BY <1>3, PopKeeps
    <2>2. \A i : i \in 1 .. depth(s) /\ i # depth(s) => i \in 1 .. depth(t)
        BY <1>1, <2>1
    <2>3. 1 .. depth(t) \subseteq 1 .. depth(s)
        BY <1>1, <2>1
    <2>4. Waits(t) = Waits(s)
        BY <1>1, <2>1, <2>2, <2>3 DEF Kept, Waits
    <2>5. ASSUME Top(s).page # "offline", OnStack(s, "offline") PROVE OnStack(t, "offline")
        BY <1>1, <2>1, <2>2, <2>5 DEF OnStack, Kept
    <2>6. ASSUME t = s, OnStack(s, "offline") PROVE OnStack(t, "offline")
        BY <2>6
    <2> QED BY <2>1, <2>4, <2>5, <2>6
<1> QED BY <1>2, <1>3

LEMMA WaitsOverSetTop ==
    ASSUME NEW s, ScreensTyped(s), NEW state \in BOOLEAN, NEW t, t = SetTop(s, state)
    PROVE  /\ ScreensTyped(t) /\ Top(t).page = Top(s).page /\ Top(t).state = state
           /\ depth(t) = depth(s)
           /\ OnStack(s, "offline") <=> OnStack(t, "offline")
           /\ Top(s).page # "network" => Waits(t) = Waits(s)
           /\ Top(s).page = "network" =>
                 Waits(t) = IF state THEN Waits(s) \cup {depth(s)} ELSE Waits(s) \ {depth(s)}
<1>1. depth(s) \in Nat \ {0} /\ Top(s) = s.levels[depth(s)]
    BY TopIs
<1>2. /\ ScreensTyped(t) /\ depth(t) = depth(s) /\ Kept(s, t, depth(s) - 1)
      /\ Top(t).page = Top(s).page /\ Top(t).state = state
    BY SetTopKeeps
<1>3. Top(t) = t.levels[depth(s)]
    BY <1>2, TopIs
<1>4. \A i \in 1 .. depth(s) : i = depth(s) \/ i \in 1 .. depth(s) - 1
    BY <1>1
<1>5. \A i \in 1 .. depth(s) : i # depth(s) =>
         t.levels[i].page = s.levels[i].page /\ t.levels[i].state = s.levels[i].state
    BY <1>2, <1>4 DEF Kept
<1>6. \A i \in 1 .. depth(s) : t.levels[i].page = s.levels[i].page
    BY <1>1, <1>2, <1>3, <1>5
<1>7. OnStack(s, "offline") <=> OnStack(t, "offline")
    BY <1>2, <1>6 DEF OnStack
<1>8. depth(s) \in 1 .. depth(s)
    BY <1>1
<1>9. Top(s).page # "network" => Waits(t) = Waits(s)
    BY <1>1, <1>2, <1>3, <1>5, <1>6 DEF Waits
<1>10. ASSUME Top(s).page = "network", state PROVE Waits(t) = Waits(s) \cup {depth(s)}
    BY <1>1, <1>2, <1>3, <1>5, <1>6, <1>8, <1>10 DEF Waits
<1>11. ASSUME Top(s).page = "network", ~state PROVE Waits(t) = Waits(s) \ {depth(s)}
    BY <1>1, <1>2, <1>3, <1>5, <1>6, <1>8, <1>11 DEF Waits
<1> QED BY <1>2, <1>7, <1>9, <1>10, <1>11

LEMMA WaitsOverPush ==
    ASSUME NEW s, ScreensTyped(s), NEW page \in Pages \ {"boot"}, NEW state \in BOOLEAN,
           NEW t, t = push_now(s, page, state, 0)
    PROVE  /\ ScreensTyped(t)
           /\ OnStack(s, "offline") => OnStack(t, "offline")
           /\ page = "offline" => Refused(s, page, 0) \/ OnStack(t, "offline")
           /\ depth(t) > depth(s) \/ Waits(t) = Waits(s)
           /\ page # "network" \/ ~state => Waits(t) = Waits(s)
           /\ page = "network" /\ state /\ depth(t) > depth(s) =>
                 Waits(t) = Waits(s) \cup {depth(t)}
<1>1. depth(s) \in Nat \ {0}
    BY TopIs
<1>2. /\ ScreensTyped(t) /\ Kept(s, t, depth(s))
      /\ Refused(s, page, 0) => t = s
      /\ ~Refused(s, page, 0) =>
                 depth(t) = depth(s) + 1 /\ Top(t).page = page /\ Top(t).state = state
    BY PushKeeps
<1>3. Top(t) = t.levels[depth(t)]
    BY <1>2, TopIs
<1>4. CASE Refused(s, page, 0)
    <2>1. t = s
        BY <1>2, <1>4
    <2>2. ~(depth(t) > depth(s))
        BY <1>1, <2>1
    <2> QED BY <1>2, <1>4, <2>1, <2>2
<1>5. CASE ~Refused(s, page, 0)
    <2>1. \A i : i \in 1 .. depth(t) <=> i \in 1 .. depth(s) \/ i = depth(t)
        BY <1>1, <1>2, <1>5
    <2>2. depth(t) \notin 1 .. depth(s) /\ depth(t) > depth(s)
        BY <1>1, <1>2, <1>5
    <2>3. OnStack(s, "offline") => OnStack(t, "offline")
        BY <1>2, <2>1 DEF OnStack, Kept
    <2>4. page = "offline" => OnStack(t, "offline")
        BY <1>2, <1>3, <1>5, <2>1 DEF OnStack
    <2>5. Waits(s) = Waits(t) \ {depth(t)}
        BY <1>2, <2>1, <2>2 DEF Waits, Kept
    <2>6. depth(t) \in Waits(t) <=> page = "network" /\ state
        BY <1>2, <1>3, <1>5, <2>1 DEF Waits
    <2> QED BY <1>2, <2>2, <2>3, <2>4, <2>5, <2>6
<1> QED BY <1>4, <1>5

LEMMA PickerOpens ==
    ASSUME NEW opened, picker_open(opened), picker \in Flags, dialog = "none",
           owner \in {"none", "ours", "left"}
    PROVE  /\ picker' \in Flags /\ (picker'.up <=> opened)
           /\ dialog' \in {"none", "init", "visible", "quit", "finished"}
           /\ owner' \in {"none", "ours", "left"}
           /\ owner' = "ours" /\ dialog' \in {"init", "visible"} => picker'.up /\ ~picker'.reclaim
<1>1. CASE opened
    <2>1. /\ picker' = [up |-> TRUE, gone |-> FALSE, shown |-> FALSE, closing |-> FALSE,
                        reclaim |-> FALSE]
          /\ dialog' = "init" /\ owner' = "ours"
        BY <1>1 DEF picker_open, Kernel
    <2>2. picker' \in Flags /\ picker'.up /\ ~picker'.reclaim
        BY <2>1 DEF Flags
    <2> QED BY <1>1, <2>1, <2>2
<1>2. CASE ~opened
    <2>1. /\ picker' = [picker EXCEPT !.gone = TRUE, !.up = FALSE, !.reclaim = FALSE]
          /\ dialog' = "none" /\ owner' = owner
        BY <1>2 DEF picker_open, Same
    <2>2. picker' \in Flags /\ ~picker'.up
        BY <2>1 DEF Flags
    <2> QED BY <1>2, <2>1, <2>2
<1> QED BY <1>1, <1>2

\* The network page comes with its dialog.
LEMMA PushNetworkKeeps ==
    ASSUME ScreenInv, at = "draw", at' = "watch", NEW top \in BOOLEAN, NEW begun \in BOOLEAN,
           Top(screens).page # "network", ~picker.up,
           PushNetwork(top, NetworkAsk(begun), begun)
    PROVE  ScreenInv' /\ (OnStack(screens, "offline") => OnStack(screens', "offline"))
<1>1. PICK u : u = SetTop(screens, top)
    OBVIOUS
<1>2. /\ ScreensTyped(u) /\ depth(u) = depth(screens) /\ Waits(u) = Waits(screens)
      /\ OnStack(screens, "offline") <=> OnStack(u, "offline")
    BY <1>1, WaitsOverSetTop DEF ScreenInv
<1>3. screens' = push_now(u, "network", begun, 0)
    <2>1. EndOfFrame(u, PushAsk("network", begun, 0), FALSE, FALSE, TRUE)
          = push_now(u, "network", begun, 0)
        BY EndsInPush DEF EndOfFrame
    <2> QED BY <1>1, <2>1, Zenon DEF PushNetwork, Ends, NetworkAsk
<1>4. /\ ScreensTyped(screens')
      /\ OnStack(u, "offline") => OnStack(screens', "offline")
      /\ depth(screens') > depth(screens) \/ Waits(screens') = Waits(u)
      /\ ~begun => Waits(screens') = Waits(u)
      /\ begun /\ depth(screens') > depth(screens) => Waits(screens') = Waits(u) \cup {depth(screens')}
    BY <1>2, <1>3, WaitsOverPush DEF Pages
<1>5. Waits(screens) = {} /\ (owner = "ours" => dialog \notin {"init", "visible"})
    BY DEF ScreenInv, DialogInv, OneWaits
<1>6. picker \in Flags /\ dialog \in {"none", "init", "visible", "quit", "finished"}
      /\ owner \in {"none", "ours", "left"}
    BY DEF ScreenInv, PickerTypeOK
<1>7. CASE depth(screens') > depth(screens)
    <2>1. platform_picker_begin(begun)
        BY <1>7 DEF PushNetwork
    <2>2. /\ picker' \in Flags /\ (picker'.up <=> begun)
          /\ dialog' \in {"none", "init", "visible", "quit", "finished"}
          /\ owner' \in {"none", "ours", "left"}
          /\ owner' = "ours" /\ dialog' \in {"init", "visible"} => picker'.up /\ ~picker'.reclaim
        <3>1. CASE picker.gone \/ picker.up
            BY <1>5, <1>6, <2>1, <3>1 DEF platform_picker_begin, Same
        <3>2. CASE ~picker.gone /\ ~picker.up /\ dialog = "finished"
            BY <1>5, <1>6, <2>1, <3>2 DEF platform_picker_begin, Same, Flags
        <3>3. CASE ~picker.gone /\ ~picker.up /\ dialog \in {"init", "visible", "quit"}
            <4>1. /\ begun /\ dialog' = dialog /\ owner' = owner
                  /\ picker' = [up |-> TRUE, gone |-> FALSE, shown |-> FALSE, closing |-> TRUE,
                                reclaim |-> TRUE]
                BY <2>1, <3>3 DEF platform_picker_begin, Same
            <4>2. picker' \in Flags /\ picker'.up
                BY <4>1 DEF Flags
            <4> QED BY <1>5, <1>6, <4>1, <4>2
        <3>4. CASE ~picker.gone /\ ~picker.up /\ dialog = "none"
            BY <1>6, <2>1, <3>4, PickerOpens DEF platform_picker_begin
        <3> QED BY <1>6, <3>1, <3>2, <3>3, <3>4
    <2>3. OneWaits(picker'.up, screens')
        BY <1>2, <1>4, <1>5, <1>7, <2>2 DEF OneWaits
    <2> QED BY <1>2, <1>4, <2>2, <2>3 DEF ScreenInv, DialogInv, PickerTypeOK
<1>8. CASE ~(depth(screens') > depth(screens))
    <2>1. UNCHANGED pickerVars
        BY <1>8 DEF PushNetwork, KeepPicker
    <2> QED BY <1>2, <1>4, <1>8, <2>1 DEF ScreenInv, DialogInv, PickerTypeOK, pickerVars, OneWaits
<1> QED BY <1>7, <1>8

-----------------------------------------------------------------------------
(* The pages' frames.                                                      *)

LEMMA SceneKept ==
    ASSUME ScreenInv, at = "draw", at' = "watch", KeepPicker,
           ScreensTyped(screens'), Waits(screens') = Waits(screens)
    PROVE  ScreenInv'
BY DEF ScreenInv, DialogInv, PickerTypeOK, KeepPicker, pickerVars, OneWaits

\* A page other than the network page that asks for nothing stays, or goes by
\* circle.
LEMMA StaysOrPops ==
    ASSUME ScreensTyped(screens), NEW top \in BOOLEAN, NEW circle, NEW handled,
           Top(screens).page # "network", Ends(top, NoNav, circle, FALSE, handled)
    PROVE  /\ ScreensTyped(screens') /\ Waits(screens') = Waits(screens)
           /\ Top(screens).page # "offline" \/ handled =>
                 (OnStack(screens, "offline") => OnStack(screens', "offline"))
<1>1. PICK u : u = SetTop(screens, top)
    OBVIOUS
<1>2. /\ ScreensTyped(u) /\ Waits(u) = Waits(screens)
      /\ OnStack(screens, "offline") <=> OnStack(u, "offline")
      /\ Top(u).page = Top(screens).page
    BY <1>1, WaitsOverSetTop
<1>3. screens' = EndOfFrame(u, NoNav, circle, FALSE, handled)
    BY <1>1, Zenon DEF Ends
<1>4. screens' \in {u, pop_now(u)} /\ (handled => screens' = u)
    <2>1. PICK ask : ask = IF circle THEN screen_back(NoNav, handled) ELSE NoNav
        OBVIOUS
    <2>2. ask = NoNav \/ (ask = PopAsk /\ ~handled)
        BY <2>1 DEF screen_back, nav_ask, NoNav
    <2>3. screens' = nav_now(u, ask)
        BY <1>3, <2>1 DEF EndOfFrame
    <2>4. nav_now(u, NoNav) = u /\ nav_now(u, PopAsk) = pop_now(u)
        BY DEF NoNav, PopAsk, nav_now
    <2>5. CASE ask = NoNav
        BY <2>3, <2>4, <2>5
    <2>6. CASE ask = PopAsk /\ ~handled
        BY <2>3, <2>4, <2>6
    <2> QED BY <2>2, <2>5, <2>6
<1> QED BY <1>2, <1>4, WaitsOverPop

LEMMA Pops ==
    ASSUME ScreensTyped(screens), NEW circle, NEW took, NEW handled,
           Ends(FALSE, PopAsk, circle, took, handled)
    PROVE  /\ ScreensTyped(screens')
           /\ Top(screens).page # "network" => Waits(screens') = Waits(screens)
           /\ Top(screens).page = "network" =>
                 /\ Waits(screens') = Waits(screens) \ {depth(screens)}
                 /\ OnStack(screens, "offline") => OnStack(screens', "offline")
<1>1. PICK u : u = SetTop(screens, FALSE)
    OBVIOUS
<1>2. /\ ScreensTyped(u) /\ Top(u).page = Top(screens).page /\ ~Top(u).state
      /\ OnStack(screens, "offline") <=> OnStack(u, "offline")
      /\ Top(screens).page # "network" => Waits(u) = Waits(screens)
      /\ Top(screens).page = "network" => Waits(u) = Waits(screens) \ {depth(screens)}
    <2>1. FALSE \in BOOLEAN
        OBVIOUS
    <2> QED BY <1>1, <2>1, WaitsOverSetTop
<1>3. screens' = EndOfFrame(u, PopAsk, circle, took, handled)
    BY <1>1, Zenon DEF Ends
<1>4. screens' = pop_now(u)
    BY <1>3, EndsInPop
<1> QED BY <1>2, <1>4, WaitsOverPop

LEMMA BootFrameKeeps ==
    ASSUME ScreenInv, LostInv, at = "draw", at' = "watch", g_was_lost' = g_was_lost,
           UNCHANGED blinked, Top(screens).page = "boot",
           NEW cross \in BOOLEAN, NEW circle \in BOOLEAN, BootFrame(cross, circle)
    PROVE  ScreenInv' /\ LostInv'
<1> DEFINE b == Top(screens).state
<1>1. /\ ScreensTyped(screens) /\ depth(screens) = 1 /\ b \in BOOLEAN
      /\ screens.levels[1].page = "boot"
    BY TopIs DEF ScreenInv, Top
<1>2. Waits(screens) = {} /\ ~OnStack(screens, "offline")
    BY <1>1 DEF Waits, OnStack
<1>3. LostInv'
    BY <1>2, Zenon DEF LostInv
<1>4. ~picker.up
    BY <1>2 DEF ScreenInv, DialogInv, OneWaits
<1>5. CASE g_stage = "ready" /\ Ends(b, ResetAsk("home", FALSE), circle, FALSE, TRUE) /\ KeepPicker
    <2>1. screens' = reset_now("home", FALSE)
        <3>1. PICK u, ask : u = SetTop(screens, b) /\ ask = ResetAsk("home", FALSE)
            OBVIOUS
        <3>2. ask.what = "reset" /\ nav_now(u, ask) = reset_now("home", FALSE)
            BY <3>1 DEF ResetAsk, nav_now
        <3>3. screens' = EndOfFrame(u, ask, circle, FALSE, TRUE)
            BY <1>5, <3>1, Zenon DEF Ends
        <3> QED BY <3>2, <3>3 DEF EndOfFrame, screen_back, nav_ask
    <2>2. FALSE \in BOOLEAN
        OBVIOUS
    <2>3. ScreensTyped(screens') /\ depth(screens') = 1 /\ screens'.levels[1].page = "home"
        BY <2>1, <2>2, ResetLeaves
    <2>4. Waits(screens') = {}
        BY <2>3 DEF Waits
    <2> QED BY <1>2, <1>3, <1>5, <2>3, <2>4, SceneKept
<1>6. CASE /\ Ends(b, NoNav, circle, FALSE, TRUE) /\ KeepPicker
    BY <1>1, <1>3, <1>6, StaysOrPops, SceneKept
<1>7. ASSUME NEW begun \in BOOLEAN, PushNetwork(TRUE, NetworkAsk(begun), begun)
      PROVE  ScreenInv'
    <2>1. TRUE \in BOOLEAN
        OBVIOUS
    <2> QED BY <1>1, <1>4, <1>7, <2>1, PushNetworkKeeps
<1> QED BY <1>3, <1>5, <1>6, <1>7 DEF BootFrame, NoAsk

LEMMA OfflineFrameKeeps ==
    ASSUME ScreenInv, LostInv, at = "draw", at' = "watch", g_was_lost' = g_was_lost,
           Top(screens).page = "offline",
           NEW cross \in BOOLEAN, NEW circle \in BOOLEAN, OfflineFrame(cross, circle)
    PROVE  ScreenInv' /\ LostInv'
<1>1. ScreensTyped(screens)
    BY DEF ScreenInv
<1>2. CASE Ends(FALSE, PopAsk, circle, FALSE, TRUE) /\ KeepPicker
           /\ blinked' = (blinked \/ g_was_lost)
    <2>1. LostInv'
        BY <1>2, Zenon DEF LostInv
    <2> QED BY <1>1, <1>2, <2>1, Pops, SceneKept
<1>3. CASE UNCHANGED blinked /\ NoAsk(FALSE, circle, TRUE)
    <2>1. FALSE \in BOOLEAN
        OBVIOUS
    <2>2. /\ ScreensTyped(screens') /\ Waits(screens') = Waits(screens)
          /\ OnStack(screens, "offline") => OnStack(screens', "offline")
        BY <1>1, <1>3, <2>1, StaysOrPops DEF NoAsk
    <2>3. LostInv'
        BY <1>3, <2>2, Zenon DEF LostInv
    <2> QED BY <1>3, <2>2, <2>3, SceneKept DEF NoAsk
<1>4. ASSUME UNCHANGED blinked, platform_has_picker,
             NEW begun \in BOOLEAN, PushNetwork(FALSE, NetworkAsk(begun), begun)
      PROVE  ScreenInv' /\ LostInv'
    <2>1. ~picker.up /\ FALSE \in BOOLEAN
        BY <1>4 DEF platform_has_picker
    <2>2. ScreenInv' /\ (OnStack(screens, "offline") => OnStack(screens', "offline"))
        BY <1>4, <2>1, PushNetworkKeeps
    <2>3. LostInv'
        BY <1>4, <2>2, Zenon DEF LostInv
    <2> QED BY <2>2, <2>3
<1> QED BY <1>2, <1>3, <1>4 DEF OfflineFrame, Offer

LEMMA HomeFrameKeeps ==
    ASSUME ScreenInv, LostInv, at = "draw", at' = "watch", g_was_lost' = g_was_lost,
           UNCHANGED blinked, Top(screens).page = "home",
           NEW start \in BOOLEAN, NEW circle \in BOOLEAN, HomeFrame(start, circle)
    PROVE  ScreenInv' /\ LostInv'
<1>1. ScreensTyped(screens) /\ FALSE \in BOOLEAN /\ KeepPicker
    BY DEF ScreenInv, HomeFrame
<1>2. /\ ScreensTyped(screens') /\ Waits(screens') = Waits(screens)
      /\ OnStack(screens, "offline") => OnStack(screens', "offline")
    <2>1. CASE ~start
        BY <1>1, <2>1, StaysOrPops DEF HomeFrame
    <2>2. CASE start
        <3>1. PICK u : u = SetTop(screens, FALSE)
            OBVIOUS
        <3>2. /\ ScreensTyped(u) /\ Waits(u) = Waits(screens)
              /\ OnStack(screens, "offline") <=> OnStack(u, "offline")
            BY <1>1, <3>1, WaitsOverSetTop
        <3>3. screens' = EndOfFrame(u, PushAsk("settings", FALSE, 0), circle, FALSE, FALSE)
            BY <2>2, <3>1, Zenon DEF HomeFrame, Ends
        <3>4. screens' = push_now(u, "settings", FALSE, 0)
            BY <1>1, <3>3, EndsInPush
        <3>5. "settings" \in Pages \ {"boot"}
            BY DEF Pages
        <3> QED BY <1>1, <3>2, <3>4, <3>5, WaitsOverPush
    <2> QED BY <2>1, <2>2
<1>3. LostInv'
    BY <1>2, Zenon DEF LostInv
<1> QED BY <1>1, <1>2, <1>3, SceneKept

LEMMA SettingsFrameKeeps ==
    ASSUME ScreenInv, LostInv, at = "draw", at' = "watch", g_was_lost' = g_was_lost,
           UNCHANGED blinked, Top(screens).page = "settings",
           NEW cross \in BOOLEAN, NEW circle \in BOOLEAN, SettingsFrame(cross, circle)
    PROVE  ScreenInv' /\ LostInv'
<1>1. ScreensTyped(screens) /\ FALSE \in BOOLEAN /\ KeepPicker
    BY DEF ScreenInv, SettingsFrame, NoAsk
<1>2. /\ ScreensTyped(screens') /\ Waits(screens') = Waits(screens)
      /\ OnStack(screens, "offline") => OnStack(screens', "offline")
    BY <1>1, StaysOrPops DEF SettingsFrame, NoAsk
<1>3. LostInv'
    BY <1>2, Zenon DEF LostInv
<1> QED BY <1>1, <1>2, <1>3, SceneKept

\* A frame of the page that waits goes on with the dialog up, or leaves it down.
LEMMA PickerSteps ==
    ASSUME PickerTypeOK, picker.up, NEW result, NEW joined, platform_picker_step(result, joined),
           owner = "ours" /\ dialog \in {"init", "visible"} => ~picker.reclaim
    PROVE  /\ PickerTypeOK'
           /\ picker'.up <=> result = "running"
           /\ owner' = "ours" /\ dialog' \in {"init", "visible"} => picker'.up /\ ~picker'.reclaim
<1>1. /\ picker \in Flags /\ dialog \in {"none", "init", "visible", "quit", "finished"}
      /\ owner \in {"none", "ours", "left"}
    BY DEF PickerTypeOK
<1>2. ASSUME Pumped
      PROVE  /\ dialog' \in {"none", "init", "visible", "quit", "finished"}
             /\ owner' \in {"none", "ours", "left"}
             /\ dialog' \in {"init", "visible"} => dialog' = dialog /\ owner' = owner
    BY <1>1, <1>2 DEF Pumped, Kernel, Same
<1>3. CASE picker.reclaim /\ Reclaimed(result)
    <2>1. CASE dialog # "none" /\ Pumped /\ result = "running" /\ UNCHANGED picker
        BY <1>1, <1>2, <1>3, <2>1 DEF PickerTypeOK
    <2>2. CASE dialog # "none" /\ Pumped /\ result = "unavailable"
               /\ picker' = [picker EXCEPT !.gone = TRUE, !.up = FALSE]
        <3>1. picker' \in Flags /\ ~picker'.up
            BY <1>1, <2>2 DEF Flags
        <3> QED BY <1>1, <1>2, <1>3, <2>2, <3>1 DEF PickerTypeOK
    <2>3. CASE dialog = "none" /\ picker_open(result = "running")
        BY <1>1, <2>3, PickerOpens DEF PickerTypeOK
    <2> QED BY <1>3, <2>1, <2>2, <2>3 DEF Reclaimed
<1>4. CASE ~picker.reclaim /\ Own(result, joined)
    <2>1. CASE dialog = "visible" /\ picker' = [picker EXCEPT !.shown = TRUE]
               /\ result = "running" /\ Same
        <3>1. picker' \in Flags /\ picker'.up /\ ~picker'.reclaim
            BY <1>1, <1>4, <2>1 DEF Flags
        <3> QED BY <1>1, <2>1, <3>1 DEF PickerTypeOK, Same
    <2>2. CASE result = "running" /\ UNCHANGED picker /\ (Pumped \/ Same)
        BY <1>1, <1>2, <1>4, <2>2 DEF PickerTypeOK, Same
    <2>3. ASSUME dialog \in {"finished", "none"}, Same, result \in {"joined", "cancelled"},
                 \/ picker' = [picker EXCEPT !.up = FALSE]
                 \/ picker' = [picker EXCEPT !.up = FALSE, !.gone = TRUE]
          PROVE  /\ PickerTypeOK' /\ (picker'.up <=> result = "running")
                 /\ dialog' \notin {"init", "visible"}
        <3>1. picker' \in Flags /\ ~picker'.up
            BY <1>1, <2>3 DEF Flags
        <3> QED BY <1>1, <2>3, <3>1 DEF PickerTypeOK, Same
    <2>4. CASE dialog = "none" /\ result = "running" /\ Same
               /\ picker' = [picker EXCEPT !.closing = TRUE]
        <3>1. picker' \in Flags /\ picker'.up
            BY <1>1, <2>4 DEF Flags
        <3> QED BY <1>1, <2>4, <3>1 DEF PickerTypeOK, Same
    <2>5. CASE dialog = "finished"
        <3>1. picker_done(result, joined)
            BY <1>4, <2>5 DEF Own
        <3> QED BY <2>3, <2>5, <3>1 DEF picker_done
    <2>6. CASE dialog = "none"
        <3>1. Unseen(result, joined)
            BY <1>4, <2>6 DEF Own
        <3> QED BY <2>2, <2>3, <2>4, <2>6, <3>1 DEF Unseen, picker_done
    <2>7. CASE dialog \in {"visible", "quit", "init"}
        BY <1>4, <2>1, <2>2, <2>7 DEF Own
    <2> QED BY <1>1, <2>5, <2>6, <2>7
<1> QED BY <1>3, <1>4 DEF platform_picker_step

LEMMA NetworkFrameKeeps ==
    ASSUME ScreenInv, LostInv, at = "draw", at' = "watch", g_was_lost' = g_was_lost,
           UNCHANGED blinked, Top(screens).page = "network",
           NEW circle \in BOOLEAN, NetworkFrame(circle)
    PROVE  ScreenInv' /\ LostInv'
<1>1. ScreensTyped(screens) /\ TRUE \in BOOLEAN
    BY DEF ScreenInv
<1>2. Top(screens).state <=> depth(screens) \in Waits(screens)
    BY <1>1, TopIs DEF Waits
<1>3. ASSUME OnStack(screens, "offline") => OnStack(screens', "offline") PROVE LostInv'
    BY <1>3, Zenon DEF LostInv
<1>4. CASE ~Top(screens).state
    <2>1. Ends(FALSE, PopAsk, circle, FALSE, FALSE) /\ KeepPicker
        BY <1>4 DEF NetworkFrame
    <2>2. /\ ScreensTyped(screens') /\ Waits(screens') = Waits(screens) \ {depth(screens)}
          /\ OnStack(screens, "offline") => OnStack(screens', "offline")
        BY <1>1, <2>1, Pops
    <2>3. Waits(screens') = Waits(screens)
        BY <1>2, <1>4, <2>2
    <2> QED BY <1>3, <2>1, <2>2, <2>3, SceneKept
<1>5. CASE Top(screens).state
    <2>1. PICK result \in {"running", "joined", "cancelled", "unavailable"} :
             /\ platform_picker_step(result, assoc = "ip")
             /\ IF result = "running"
                  THEN Ends(TRUE, NoNav, circle, NetworkTakes, FALSE)
                  ELSE Ends(FALSE, PopAsk, circle, NetworkTakes, FALSE)
        BY <1>5 DEF NetworkFrame
    <2>2. picker.up /\ Waits(screens) = {depth(screens)}
        BY <1>2, <1>5 DEF ScreenInv, DialogInv, OneWaits
    <2>3. /\ PickerTypeOK' /\ (picker'.up <=> result = "running")
          /\ owner' = "ours" /\ dialog' \in {"init", "visible"} => picker'.up /\ ~picker'.reclaim
        <3>1. PickerTypeOK /\ (owner = "ours" /\ dialog \in {"init", "visible"} => ~picker.reclaim)
            BY DEF ScreenInv, DialogInv
        <3> QED BY <2>1, <2>2, <3>1, PickerSteps
    <2>4. /\ ScreensTyped(screens') /\ OneWaits(picker'.up, screens')
          /\ OnStack(screens, "offline") => OnStack(screens', "offline")
        <3>1. CASE result = "running"
            <4>1. screens' = SetTop(screens, TRUE)
                <5>1. PICK u : u = SetTop(screens, TRUE)
                    OBVIOUS
                <5>2. screens' = EndOfFrame(u, NoNav, circle, TRUE, FALSE)
                    BY <2>1, <3>1, <5>1, Zenon DEF Ends, NetworkTakes
                <5> QED BY <5>1, <5>2 DEF EndOfFrame, nav_now, NoNav
            <4>2. /\ ScreensTyped(screens') /\ Waits(screens') = Waits(screens) \cup {depth(screens)}
                  /\ OnStack(screens, "offline") => OnStack(screens', "offline")
                BY <1>1, <4>1, WaitsOverSetTop
            <4> QED BY <2>2, <2>3, <3>1, <4>2 DEF OneWaits
        <3>2. CASE result # "running"
            <4>1. /\ ScreensTyped(screens') /\ Waits(screens') = Waits(screens) \ {depth(screens)}
                  /\ OnStack(screens, "offline") => OnStack(screens', "offline")
                BY <1>1, <2>1, <3>2, Pops
            <4> QED BY <2>2, <2>3, <3>2, <4>1 DEF OneWaits
        <3> QED BY <3>1, <3>2
    <2>5. DialogInv'
        BY <2>3, <2>4 DEF DialogInv
    <2> QED BY <1>3, <2>3, <2>4, <2>5 DEF ScreenInv
<1> QED BY <1>1, <1>4, <1>5, TopIs

-----------------------------------------------------------------------------
(* The steps, over the screens and the dialog.                             *)

LEMMA ScreensKept ==
    ASSUME ScreenInv, UNCHANGED <<pickerVars, screens>>,
           at' \in {"leaving", "left"} => at \in {"leaving", "left"} \/ ~picker.up
    PROVE  ScreenInv'
BY DEF ScreenInv, DialogInv, PickerTypeOK, pickerVars

LEMMA WatchShows ==
    ASSUME ScreenInv, LostInv, LoopTypeOK, Watch
    PROVE  ScreenInv' /\ LostInv'
<1>1. ScreensTyped(screens) /\ FALSE \in BOOLEAN /\ "offline" \in Pages \ {"boot"}
      /\ "offline" # "network"
    BY DEF ScreenInv, Pages
<1>2. CASE ~session_link_went
    <2>1. screens' = screens /\ blinked' = (blinked /\ g_was_lost') /\ UNCHANGED pickerVars
          /\ at' = "draw"
        BY <1>2 DEF Watch
    <2>2. ScreenInv'
        BY <2>1, ScreensKept
    <2>3. g_was_lost' => g_was_lost
        BY <1>2 DEF session_link_went
    <2>4. LostInv'
        BY <2>1, <2>3, Zenon DEF LostInv
    <2> QED BY <2>2, <2>4
<1>3. CASE session_link_went
    <2>1. screens' = push_now(screens, "offline", FALSE, 0)
          /\ (blinked' <=> Refused(screens, "offline", 0)) /\ UNCHANGED pickerVars /\ at' = "draw"
        BY <1>3 DEF Watch
    <2>2. /\ ScreensTyped(screens') /\ Waits(screens') = Waits(screens)
          /\ Refused(screens, "offline", 0) \/ OnStack(screens', "offline")
        BY <1>1, <2>1, WaitsOverPush
    <2>3. ScreenInv'
        BY <2>1, <2>2 DEF ScreenInv, DialogInv, PickerTypeOK, pickerVars, OneWaits
    <2>4. LostInv'
        BY <2>1, <2>2, Zenon DEF LostInv
    <2> QED BY <2>3, <2>4
<1> QED BY <1>2, <1>3

LEMMA DialogMoves ==
    ASSUME ScreenInv, LostInv, Dialog
    PROVE  ScreenInv' /\ LostInv'
<1>1. screens' = screens /\ at' = at /\ g_was_lost' = g_was_lost /\ blinked' = blinked
      /\ picker' = picker
    BY DEF Dialog, loopVars, sessionVars, DialogShows, DialogAnswered, DialogLetGo
<1>2. /\ dialog' \in {"none", "init", "visible", "quit", "finished"}
      /\ owner' \in {"none", "ours", "left"}
      /\ owner' = "ours" /\ dialog' \in {"init", "visible"} =>
            owner = "ours" /\ dialog \in {"init", "visible"}
    BY DEF Dialog, DialogShows, DialogAnswered, DialogLetGo, Kernel, ScreenInv, PickerTypeOK
<1>3. ScreenInv'
    BY <1>1, <1>2 DEF ScreenInv, DialogInv, PickerTypeOK
<1>4. LostInv'
    BY <1>1, Zenon DEF LostInv
<1> QED BY <1>3, <1>4

-----------------------------------------------------------------------------
(* The steps, over the session and the network.                            *)

\* The network page's dialog was backed out of.
Declined ==
    /\ g_stage' = "stopped"
    /\ UNCHANGED <<netVars, g_connected, g_want_connect, g_link_down, g_radio_down, g_link_miss,
                   g_was_lost, g_epoch_seen, fileProfile, con, swallowed, unmade>>

\* What a frame does to the session.
LEMMA DrawLeaves ==
    ASSUME Draw
    PROVE  \/ KeepSession \/ Declined
           \/ \E state \in States : Asked(state) \/ Retried(state)
<1>1. PICK press \in {"none", "cross", "circle", "start"} :
         \/ OfflineFrame(press = "cross", press = "circle")
         \/ BootFrame(press = "cross", press = "circle")
         \/ NetworkFrame(press = "circle")
         \/ HomeFrame(press = "start", press = "circle")
         \/ SettingsFrame(press = "cross", press = "circle")
    BY DEF Draw
<1>2. CASE OfflineFrame(press = "cross", press = "circle")
    BY <1>2 DEF OfflineFrame
<1>3. CASE BootFrame(press = "cross", press = "circle")
    BY <1>3 DEF BootFrame
<1>4. CASE NetworkFrame(press = "circle")
    <2>1. CASE KeepSession
        BY <2>1
    <2>2. ASSUME ~KeepSession
          PROVE  (\E state \in States : Retried(state)) \/ Declined
        BY <1>4, <2>2 DEF NetworkFrame, Declined
    <2> QED BY <2>1, <2>2
<1>5. CASE HomeFrame(press = "start", press = "circle")
    BY <1>5 DEF HomeFrame
<1>6. CASE SettingsFrame(press = "cross", press = "circle")
    BY <1>6 DEF SettingsFrame
<1> QED BY <1>1, <1>2, <1>3, <1>4, <1>5, <1>6

\* Nothing but the loop moves, and not to its drawing.
LEMMA NetKept ==
    ASSUME NetInv, UNCHANGED <<netVars, sessionVars>>, at' # "draw" \/ at' = at
    PROVE  NetInv'
<1>1. NetTypeOK' /\ PoolGivenBack'
    BY DEF NetInv, NetTypeOK, netVars, PoolGivenBack
<1>2. SessionTypeOK'
    BY DEF NetInv, SessionTypeOK, sessionVars, netVars
<1>3. WokenInv'
    BY DEF NetInv, WokenInv, Ahead, sessionVars, netVars, net_joined
<1> QED BY <1>1, <1>2, <1>3 DEF NetInv

LEMMA StatesAre ==
    ASSUME NEW state \in States
    PROVE  state \in {"off", "down", "up"}
BY DEF States, NetStates

LEMMA DrawConnects ==
    ASSUME NetInv, Draw
    PROVE  NetInv'
<1>1. at = "draw" /\ at' = "watch"
    BY DEF Draw
<1>2. CASE KeepSession
    BY <1>1, <1>2, NetKept DEF KeepSession
<1>3. ASSUME NEW state \in States, Asked(state) PROVE NetInv'
    <2>1. state \in {"off", "down", "up"}
        BY <1>3, StatesAre
    <2>2. NetTypeOK' /\ PoolGivenBack'
        BY <1>3, <2>1 DEF NetInv, NetTypeOK, PoolGivenBack, Asked
    <2>3. SessionTypeOK'
        BY <1>3 DEF NetInv, SessionTypeOK, sessionVars, Asked
    <2>4. WokenInv'
        BY <1>1, <1>3 DEF NetInv, WokenInv, Ahead, sessionVars, net_joined, Asked
    <2> QED BY <2>2, <2>3, <2>4 DEF NetInv
<1>4. ASSUME NEW state \in States, Retried(state) PROVE NetInv'
    <2>1. state \in {"off", "down", "up"}
        BY <1>4, StatesAre
    <2>2. NetTypeOK' /\ PoolGivenBack'
        BY <1>4, <2>1 DEF NetInv, NetTypeOK, PoolGivenBack, Retried, session_retry
    <2>3. SessionTypeOK'
        <3>1. g_stage' = "starting" /\ g_link_miss' = 0 /\ g_want_connect' /\ ~swallowed'
              /\ UNCHANGED <<epoch, g_connected, g_link_down, g_radio_down, g_was_lost,
                             g_epoch_seen, fileProfile, con, unmade>>
            BY <1>4 DEF Retried, session_retry
        <3>2. g_want_connect' \in BOOLEAN /\ swallowed' \in BOOLEAN
            BY <1>4, Zenon DEF Retried, session_retry
        <3> QED BY <3>1, <3>2, ConnectionAssumption DEF NetInv, SessionTypeOK
    <2>4. WokenInv'
        BY <1>1, <1>4 DEF NetInv, WokenInv, Ahead, net_joined, Retried, session_retry
    <2> QED BY <2>2, <2>3, <2>4 DEF NetInv
<1>5. CASE Declined
    <2>1. NetTypeOK' /\ PoolGivenBack'
        BY <1>5 DEF NetInv, NetTypeOK, PoolGivenBack, Declined, netVars
    <2>2. SessionTypeOK'
        BY <1>5 DEF NetInv, SessionTypeOK, Declined, netVars
    <2>3. WokenInv'
        BY <1>1, <1>5 DEF NetInv, WokenInv, Ahead, net_joined, Declined, netVars
    <2> QED BY <2>1, <2>2, <2>3 DEF NetInv
<1> QED BY <1>2, <1>3, <1>4, <1>5, DrawLeaves

LEMMA WatchConnects ==
    ASSUME NetInv, Watch
    PROVE  NetInv'
<1>1. PICK state \in States : session_watch(state)
    BY DEF Watch
<1>2. /\ at' = "draw"
      /\ UNCHANGED <<g_up, pool, inet, apctl, wlan, assoc, alive, g_link_epoch, g_profile, epoch>>
    BY DEF Watch
<1>3. PICK late \in BOOLEAN, down \in LinkDowns(state) :
         /\ g_stage' = IF Rejoins THEN "starting"
                       ELSE IF late /\ GivenUp THEN "stopped" ELSE g_stage
         /\ g_link_down' = down
         /\ g_link_miss' = IF Rejoins \/ (g_link_down /\ ~down) THEN 0 ELSE g_link_miss
         /\ g_was_lost' = (down \/ g_link_miss' >= LINK_MISS_MAX)
    BY <1>1 DEF session_watch
<1>4. /\ g_want_connect' = (g_want_connect \/ Rejoins)
      /\ swallowed' = (swallowed /\ ~Rejoins)
      /\ unmade' = (unmade \/ (epoch # g_epoch_seen /\ ~(g_connected /\ net_joined)))
      /\ g_epoch_seen' = epoch
      /\ g_radio_down' = RadioDown(state)
      /\ g_last' = (IF g_connected \/ Rejoins THEN state ELSE g_last)
      /\ UNCHANGED <<g_connected, fileProfile, con>>
    BY <1>1 DEF session_watch
<1>5. state \in {"off", "down", "up"}
    BY StatesAre
<1>6. NetTypeOK' /\ PoolGivenBack'
    BY <1>2, <1>4, <1>5 DEF NetInv, NetTypeOK, PoolGivenBack
<1>7. SessionTypeOK'
    <2>1. down \in BOOLEAN
        BY DEF NetInv, SessionTypeOK, LinkDowns
    <2>2. g_link_down' \in BOOLEAN /\ g_was_lost' \in BOOLEAN /\ g_radio_down' \in BOOLEAN
          /\ g_want_connect' \in BOOLEAN /\ swallowed' \in BOOLEAN /\ unmade' \in BOOLEAN
        BY <1>3, <1>4, <2>1, Zenon DEF RadioDown
    <2>3. g_stage' \in {"starting", "linking", "signin", "ready", "stopped"}
          /\ g_link_miss' \in 0 .. LINK_MISS_MAX
        BY <1>3, ConnectionAssumption DEF NetInv, SessionTypeOK
    <2>4. epoch \in Nat \ {0}
        BY ConnectionAssumption DEF NetInv, NetTypeOK
    <2> QED BY <1>2, <1>4, <2>2, <2>3, <2>4 DEF NetInv, SessionTypeOK
<1>8. WokenInv'
    <2>1. g_stage' = "ready" \/ con' = "asking" => g_connected'
        BY <1>3, <1>4 DEF NetInv, WokenInv
    <2>2. g_want_connect' <=> g_want_connect \/ Rejoins
        BY <1>4
    <2>3. swallowed' <=> swallowed /\ ~Rejoins
        BY <1>4
    <2>4. unmade' <=> unmade \/ (epoch # g_epoch_seen /\ ~(g_connected /\ net_joined))
        BY <1>4
    <2>5. CASE epoch # g_epoch_seen
        BY <1>2, <1>4, <2>1, <2>2, <2>4, <2>5 DEF WokenInv, Ahead, Rejoins
    <2>6. CASE epoch = g_epoch_seen
        <3>1. ~Rejoins /\ (g_stage' = "stopped" \/ g_stage' = g_stage)
            BY <1>3, <2>6 DEF Rejoins
        <3> QED BY <1>2, <1>4, <2>1, <2>2, <2>3, <2>4, <2>6, <3>1
                DEF NetInv, WokenInv, Ahead, net_joined
    <2> QED BY <2>5, <2>6
<1> QED BY <1>6, <1>7, <1>8 DEF NetInv

LEMMA WorkerConnects ==
    ASSUME NetInv, WorkerStep
    PROVE  NetInv'
<1>1. Worker /\ at' = at
    BY DEF WorkerStep, loopVars
<1>2. epoch \in Nat \ {0} /\ g_link_epoch \in 0 .. epoch
    BY ConnectionAssumption DEF NetInv, NetTypeOK
<1>3. CASE WantRead
    <2>1. NetTypeOK' /\ PoolGivenBack'
        BY <1>3 DEF WantRead, NetInv, NetTypeOK, PoolGivenBack, netVars
    <2>2. SessionTypeOK'
        BY <1>3 DEF WantRead, NetInv, SessionTypeOK, netVars, othersOfWorker, watchVars
    <2>3. WokenInv'
        BY <1>1, <1>3 DEF WantRead, NetInv, WokenInv, Ahead, net_joined, Connecting, netVars,
              othersOfWorker, watchVars
    <2> QED BY <2>1, <2>2, <2>3 DEF NetInv
<1>4. CASE WantCleared
    <2>1. NetTypeOK' /\ PoolGivenBack'
        BY <1>4 DEF WantCleared, NetInv, NetTypeOK, PoolGivenBack, netVars
    <2>2. SessionTypeOK'
        <3>1. swallowed' \in BOOLEAN /\ g_want_connect' \in BOOLEAN
            BY <1>4, Zenon DEF WantCleared
        <3>2. con' \in {"start", "idle", "asking"} /\ g_stage' \in {"linking", g_stage}
            BY <1>4 DEF WantCleared
        <3> QED BY <1>4, <3>1, <3>2 DEF WantCleared, NetInv, SessionTypeOK, Connecting, netVars,
                  othersOfWorker, watchVars
    <2>3. WokenInv'
        <3>1. CASE con = "wanted"
            BY <1>1, <1>4, <3>1 DEF WantCleared, NetInv, WokenInv, Ahead, net_joined, Connecting,
                  netVars, othersOfWorker, watchVars
        <3>2. CASE con = "unwanted"
            <4>1. swallowed' <=> swallowed \/ g_want_connect
                BY <1>4, <3>2 DEF WantCleared
            <4>2. con' \in {"idle", "asking"} /\ (con' = "asking" => g_stage = "ready")
                  /\ g_stage' = g_stage
                BY <1>4, <3>2 DEF WantCleared
            <4> QED BY <1>1, <1>4, <3>2, <4>1, <4>2 DEF WantCleared, NetInv, WokenInv, Ahead,
                      net_joined, Connecting, netVars, othersOfWorker, watchVars
        <3> QED BY <1>4, <3>1, <3>2 DEF WantCleared
    <2> QED BY <2>1, <2>2, <2>3 DEF NetInv
<1>5. CASE StartNet
    <2>1. NetTypeOK' /\ PoolGivenBack'
        <3>1. CASE UNCHANGED <<g_up, pool, inet, apctl>>
            BY <1>5, <3>1 DEF StartNet, NetInv, NetTypeOK, PoolGivenBack
        <3>2. ASSUME NEW rc, net_start(rc) PROVE NetTypeOK' /\ PoolGivenBack'
            <4>1. PICK s \in Starts : /\ rc = s.rc /\ g_up' = s.up /\ pool' = s.pool
                                     /\ inet' = s.inet /\ apctl' = s.apctl
                BY <3>2 DEF net_start
            <4>2. /\ s.up \in BOOLEAN /\ s.pool \in BOOLEAN
                  /\ s.inet \in {"down", "left", "ours"} /\ s.apctl \in {"down", "left", "ours"}
                  /\ ~s.up => ~s.pool /\ s.inet # "ours" /\ s.apctl # "ours"
                <5>1. /\ g_up \in BOOLEAN /\ pool \in BOOLEAN
                      /\ inet \in {"down", "left", "ours"} /\ apctl \in {"down", "left", "ours"}
                      /\ ~g_up => ~pool /\ inet # "ours" /\ apctl # "ours"
                    BY DEF NetInv, NetTypeOK, PoolGivenBack
                <5>2. CASE s = Start("ok", TRUE, pool, inet, apctl)
                    <6>1. s.up /\ s.inet = inet /\ s.apctl = apctl
                        BY <5>2 DEF Start
                    <6>2. s.up \in BOOLEAN /\ s.pool \in BOOLEAN
                        BY <5>1, <5>2, Zenon DEF Start
                    <6> QED BY <5>1, <6>1, <6>2
                <5>3. CASE s = Start("ok", TRUE, TRUE, Layer(inet), Layer(apctl))
                    BY <5>1, <5>3 DEF Start, Layer
                <5>4. CASE ~g_up /\ s = Start("no_switch", FALSE, pool, inet, apctl)
                    <6>1. ~s.up /\ s.inet = inet /\ s.apctl = apctl
                        BY <5>4 DEF Start
                    <6>2. s.pool = pool
                        BY <5>4 DEF Start
                    <6>3. s.up \in BOOLEAN /\ s.pool \in BOOLEAN
                        BY <5>1, <5>4, Zenon DEF Start
                    <6> QED BY <5>1, <5>4, <6>1, <6>2, <6>3
                <5>5. CASE ~g_up /\ s = Start("failed", FALSE, FALSE, inet, apctl)
                    BY <5>1, <5>5 DEF Start
                <5>6. CASE ~g_up /\ s = ApctlRefused(Layer(inet))
                    BY <5>1, <5>6 DEF Start, ApctlRefused, UndoInet, Layer
                <5> QED BY <5>2, <5>3, <5>4, <5>5, <5>6 DEF Starts
            <4>3. g_up' \in BOOLEAN /\ pool' \in BOOLEAN
                BY <4>1, <4>2, Zenon
            <4> QED BY <1>5, <4>1, <4>2, <4>3 DEF StartNet, NetInv, NetTypeOK, PoolGivenBack
        <3> QED BY <1>5, <3>1, <3>2 DEF StartNet
    <2>2. con = "start" /\ ((con' = "idle" /\ g_stage' = "stopped") \/ (con' = "join" /\ g_stage' = g_stage))
        BY <1>5 DEF StartNet, Stop, session_note_stopped
    <2>3. SessionTypeOK'
        BY <1>5, <2>2 DEF StartNet, NetInv, SessionTypeOK, Connecting, othersOfWorker, watchVars
    <2>4. WokenInv'
        BY <1>1, <1>5, <2>2 DEF StartNet, NetInv, WokenInv, Ahead, net_joined, Connecting,
              othersOfWorker, watchVars
    <2> QED BY <2>1, <2>3, <2>4 DEF NetInv
<1>6. CASE Join \/ Poll
    <2>1. con \in {"join", "poll"}
          /\ UNCHANGED <<g_up, pool, inet, apctl, wlan, epoch, othersOfWorker,
                         g_connected, g_want_connect, g_link_miss, swallowed>>
        BY <1>6 DEF Join, Poll
    <2>2. \/ g_link_epoch' = epoch /\ g_last' = "up" /\ g_profile' \in {0, 1} /\ g_stage' = "signin"
             /\ con' = "signin" /\ UNCHANGED <<assoc, alive>>
          \/ assoc' \in {"none", "joining", assoc} /\ alive' \in BOOLEAN
             /\ UNCHANGED <<g_link_epoch, g_last, g_profile>>
             /\ \/ con' = "idle" /\ g_stage' = "stopped"
                \/ con' = "poll" /\ UNCHANGED g_stage
        <3>1. ProfileToJoin \in {0, 1} /\ g_profile \in {0, 1} /\ alive \in BOOLEAN
            BY ConnectionAssumption DEF ProfileToJoin, NetInv, SessionTypeOK, NetTypeOK
        <3>2. CASE Joined
            BY <3>1, <3>2 DEF Joined, net_note_joined, Stop, session_note_stopped
        <3>3. CASE ~Joined
            BY <1>6, <3>1, <3>3 DEF Join, Poll, Stop, session_note_stopped
        <3> QED BY <3>2, <3>3
    <2>3. NetTypeOK' /\ PoolGivenBack'
        BY <1>2, <2>1, <2>2 DEF NetInv, NetTypeOK, PoolGivenBack
    <2>4. SessionTypeOK'
        BY <2>1, <2>2 DEF NetInv, SessionTypeOK, Connecting, othersOfWorker, watchVars
    <2>5. WokenInv'
        BY <1>1, <2>1, <2>2 DEF NetInv, WokenInv, Ahead, net_joined, Connecting,
              othersOfWorker, watchVars
    <2> QED BY <2>3, <2>4, <2>5 DEF NetInv
<1>7. CASE SignIn
    <2>1. NetTypeOK' /\ PoolGivenBack'
        BY <1>7 DEF SignIn, NetInv, NetTypeOK, PoolGivenBack, netVars
    <2>2. con = "signin" /\ con' = "idle"
          /\ \/ g_stage' = "ready" /\ g_connected' /\ g_connected' \in BOOLEAN /\ g_link_miss' = 0
             \/ g_stage' = "stopped" /\ UNCHANGED <<g_connected, g_link_miss>>
        BY <1>7 DEF SignIn, Stop, session_note_stopped, session_note_reached
    <2>3. SessionTypeOK'
        <3>1. g_connected' \in BOOLEAN /\ g_link_miss' \in 0 .. LINK_MISS_MAX
              /\ g_stage' \in {"ready", "stopped"}
            BY <2>2, ConnectionAssumption DEF NetInv, SessionTypeOK
        <3> QED BY <1>7, <2>2, <3>1 DEF SignIn, NetInv, SessionTypeOK, Connecting, netVars,
                  othersOfWorker, watchVars
    <2>4. WokenInv'
        BY <1>1, <1>7, <2>2 DEF SignIn, NetInv, WokenInv, Ahead, net_joined, Connecting, netVars,
              othersOfWorker, watchVars
    <2> QED BY <2>1, <2>3, <2>4 DEF NetInv
<1>8. CASE Answered
    <2>1. NetTypeOK' /\ PoolGivenBack'
        BY <1>8 DEF Answered, NetInv, NetTypeOK, PoolGivenBack, netVars
    <2>2. con = "asking" /\ con' = "idle" /\ g_connected
        BY <1>8 DEF Answered, NetInv, WokenInv
    <2>3. g_connected' /\ g_connected' \in BOOLEAN /\ g_link_miss' \in 0 .. LINK_MISS_MAX
        <3>1. CASE session_note_reached
            BY <3>1, ConnectionAssumption DEF session_note_reached
        <3>2. CASE ~session_note_reached
            <4>1. PICK offline \in BOOLEAN : session_note_failure(offline)
                BY <1>8, <3>2 DEF Answered
            <4>2. g_link_miss' \in {0, g_link_miss} \/ (g_link_miss < LINK_MISS_MAX /\ g_link_miss' = g_link_miss + 1)
                BY <4>1 DEF session_note_failure
            <4>3. g_connected' = g_connected /\ g_connected \in BOOLEAN
                BY <4>1 DEF session_note_failure, NetInv, SessionTypeOK
            <4>4. g_link_miss \in 0 .. LINK_MISS_MAX
                BY DEF NetInv, SessionTypeOK
            <4> QED BY <2>2, <4>2, <4>3, <4>4, ConnectionAssumption
        <3> QED BY <3>1, <3>2
    <2>4. SessionTypeOK'
        BY <1>8, <2>2, <2>3 DEF Answered, NetInv, SessionTypeOK, Connecting, netVars,
              othersOfWorker, watchVars
    <2>5. WokenInv'
        BY <1>1, <1>8, <2>2, <2>3 DEF Answered, NetInv, WokenInv, Ahead, net_joined, Connecting,
              netVars, othersOfWorker, watchVars
    <2> QED BY <2>1, <2>4, <2>5 DEF NetInv
<1> QED BY <1>1, <1>3, <1>4, <1>5, <1>6, <1>7, <1>8 DEF Worker

\* The radio comes and goes, and the machine sleeps between two frames.
LEMMA WorldConnects ==
    ASSUME NetInv, World
    PROVE  NetInv'
<1>1. UNCHANGED <<sessionVars, g_up, pool, inet, apctl, g_link_epoch, g_profile, g_last>> /\ at' = at
    BY DEF World, RadioGone, RadioJoins, SwitchSlides, Slept, loopVars
<1>2. assoc' \in {"none", "ip", assoc} /\ (alive' \in BOOLEAN) /\ wlan' \in BOOLEAN
    BY DEF World, RadioGone, RadioJoins, SwitchSlides, Slept, NetInv, NetTypeOK
<1>3. epoch' = epoch \/ (epoch <= MaxSleeps /\ epoch' = epoch + 1 /\ at = "watch")
    BY DEF World, RadioGone, RadioJoins, SwitchSlides, Slept
<1>4. epoch \in 1 .. MaxSleeps + 1 /\ g_link_epoch \in 0 .. epoch /\ g_epoch_seen \in 1 .. epoch
    BY DEF NetInv, NetTypeOK, SessionTypeOK
<1>5. /\ epoch' \in 1 .. MaxSleeps + 1 /\ g_link_epoch' \in 0 .. epoch'
      /\ g_epoch_seen' \in 1 .. epoch' /\ (epoch' # epoch => g_epoch_seen' # epoch')
    BY <1>1, <1>3, <1>4, ConnectionAssumption DEF sessionVars
<1>6. NetTypeOK' /\ PoolGivenBack'
    BY <1>1, <1>2, <1>5 DEF NetInv, NetTypeOK, PoolGivenBack
<1>7. SessionTypeOK'
    BY <1>1, <1>5 DEF NetInv, SessionTypeOK, sessionVars
<1>8. WokenInv'
    BY <1>1, <1>3, <1>5 DEF NetInv, WokenInv, Ahead, net_joined, sessionVars
<1> QED BY <1>6, <1>7, <1>8 DEF NetInv

LEMMA DialogConnects ==
    ASSUME NetInv, Dialog
    PROVE  NetInv'
<1>1. /\ UNCHANGED <<sessionVars, g_up, pool, inet, apctl, wlan, g_link_epoch, g_profile, g_last,
                     epoch>>
      /\ at' = at /\ assoc' \in {"ip", assoc} /\ alive' \in BOOLEAN
    BY DEF Dialog, loopVars, NetInv, NetTypeOK
<1>2. NetTypeOK' /\ PoolGivenBack'
    BY <1>1 DEF NetInv, NetTypeOK, PoolGivenBack
<1>3. SessionTypeOK'
    BY <1>1 DEF NetInv, SessionTypeOK, sessionVars
<1>4. WokenInv'
    BY <1>1 DEF NetInv, WokenInv, Ahead, net_joined, sessionVars
<1> QED BY <1>2, <1>3, <1>4 DEF NetInv

LEMMA NetDownConnects ==
    ASSUME NetInv, NetDown
    PROVE  NetInv'
<1>1. /\ UNCHANGED <<sessionVars, wlan, g_profile, g_last, epoch>> /\ at' = "left"
      /\ assoc' \in {"none", assoc} /\ alive' \in BOOLEAN /\ g_link_epoch' \in {0, g_link_epoch}
    BY DEF NetDown, net_stop, NetInv, NetTypeOK
<1>2. /\ ~g_up' /\ g_up' \in BOOLEAN /\ ~pool' /\ pool' \in BOOLEAN
      /\ inet' \in {"down", "left"} /\ apctl' \in {"down", "left"}
    BY DEF NetDown, net_stop, UndoInet, NetInv, NetTypeOK, PoolGivenBack
<1>3. NetTypeOK' /\ PoolGivenBack'
    BY <1>1, <1>2, ConnectionAssumption DEF NetInv, NetTypeOK, PoolGivenBack
<1>4. SessionTypeOK'
    BY <1>1 DEF NetInv, SessionTypeOK, sessionVars
<1>5. WokenInv'
    BY <1>1 DEF NetInv, WokenInv, Ahead, net_joined, sessionVars
<1> QED BY <1>3, <1>4, <1>5 DEF NetInv

-----------------------------------------------------------------------------
(* The invariant is inductive.                                             *)

LEMMA DrawShows ==
    ASSUME ScreenInv, LostInv, Draw
    PROVE  ScreenInv' /\ LostInv'
<1>1. at = "draw" /\ at' = "watch"
    BY DEF Draw
<1>2. g_was_lost' = g_was_lost
    BY DrawLeaves DEF KeepSession, Declined, Asked, Retried, sessionVars
<1>3. PICK press \in {"none", "cross", "circle", "start"} :
         \/ Top(screens).page = "offline" /\ OfflineFrame(press = "cross", press = "circle")
         \/ /\ UNCHANGED blinked
            /\ \/ Top(screens).page = "boot" /\ BootFrame(press = "cross", press = "circle")
               \/ Top(screens).page = "network" /\ NetworkFrame(press = "circle")
               \/ Top(screens).page = "home" /\ HomeFrame(press = "start", press = "circle")
               \/ Top(screens).page = "settings" /\ SettingsFrame(press = "cross", press = "circle")
    BY DEF Draw
<1>4. PICK cross \in BOOLEAN, circle \in BOOLEAN, start \in BOOLEAN :
         cross = (press = "cross") /\ circle = (press = "circle") /\ start = (press = "start")
    OBVIOUS
<1>5. CASE Top(screens).page = "offline" /\ OfflineFrame(press = "cross", press = "circle")
    <2>1. OfflineFrame(cross, circle)
        BY <1>4, <1>5, Zenon
    <2> QED BY <1>1, <1>2, <1>5, <2>1, OfflineFrameKeeps
<1>6. CASE UNCHANGED blinked /\ Top(screens).page = "boot"
           /\ BootFrame(press = "cross", press = "circle")
    <2>1. BootFrame(cross, circle)
        BY <1>4, <1>6, Zenon
    <2> QED BY <1>1, <1>2, <1>6, <2>1, BootFrameKeeps
<1>7. CASE UNCHANGED blinked /\ Top(screens).page = "network" /\ NetworkFrame(press = "circle")
    <2>1. NetworkFrame(circle)
        BY <1>4, <1>7, Zenon
    <2> QED BY <1>1, <1>2, <1>7, <2>1, NetworkFrameKeeps
<1>8. CASE UNCHANGED blinked /\ Top(screens).page = "home"
           /\ HomeFrame(press = "start", press = "circle")
    <2>1. HomeFrame(start, circle)
        BY <1>4, <1>8, Zenon
    <2> QED BY <1>1, <1>2, <1>8, <2>1, HomeFrameKeeps
<1>9. CASE UNCHANGED blinked /\ Top(screens).page = "settings"
           /\ SettingsFrame(press = "cross", press = "circle")
    <2>1. SettingsFrame(cross, circle)
        BY <1>4, <1>9, Zenon
    <2> QED BY <1>1, <1>2, <1>9, <2>1, SettingsFrameKeeps
<1> QED BY <1>3, <1>5, <1>6, <1>7, <1>8, <1>9

LEMMA ConnectionStarts ==
    ASSUME ConnectionInit
    PROVE  ConnectionInv
<1>1. NetTypeOK /\ PoolGivenBack
    <2>1. /\ g_up \in BOOLEAN /\ pool \in BOOLEAN /\ wlan \in BOOLEAN /\ alive \in BOOLEAN
          /\ ~g_up /\ ~pool
        BY Zenon DEF ConnectionInit, NetInit
    <2>2. /\ inet \in {"down", "left"} /\ apctl \in {"down", "left"} /\ assoc \in {"none", "ip"}
          /\ g_link_epoch = 0 /\ g_profile = 0 /\ g_last = "off" /\ epoch = 1
        BY DEF ConnectionInit, NetInit
    <2> QED BY <2>1, <2>2, ConnectionAssumption DEF NetTypeOK, PoolGivenBack
<1>2. SessionTypeOK
    <2>1. /\ g_want_connect \in BOOLEAN /\ g_connected \in BOOLEAN /\ g_link_down \in BOOLEAN
          /\ g_radio_down \in BOOLEAN /\ g_was_lost \in BOOLEAN /\ swallowed \in BOOLEAN
          /\ unmade \in BOOLEAN
        BY Zenon DEF ConnectionInit, session_init
    <2>2. /\ g_stage = "starting" /\ con = "idle" /\ g_link_miss = 0 /\ g_epoch_seen = 1
          /\ epoch = 1 /\ fileProfile \in FileProfiles
        BY DEF ConnectionInit, session_init, NetInit
    <2> QED BY <2>1, <2>2, ConnectionAssumption DEF SessionTypeOK
<1>3. WokenInv
    BY DEF ConnectionInit, session_init, NetInit, WokenInv, net_joined
<1>4. PickerTypeOK /\ ~picker.up /\ owner # "ours"
    <2>1. picker \in Flags /\ ~picker.up
        BY DEF ConnectionInit, PickerInit, Flags
    <2> QED BY <2>1 DEF ConnectionInit, PickerInit, PickerTypeOK
<1>5. ScreensTyped(screens) /\ depth(screens) = 1 /\ screens.levels[1].page = "boot"
    <2>1. screens = reset_now("boot", FALSE) /\ FALSE \in BOOLEAN
        BY DEF ConnectionInit
    <2> QED BY <2>1, ResetLeaves
<1>6. Waits(screens) = {}
    BY <1>5 DEF Waits
<1>7. ScreenInv
    BY <1>4, <1>5, <1>6 DEF ScreenInv, DialogInv, OneWaits, ConnectionInit
<1>8. LostInv /\ LoopTypeOK
    BY DEF ConnectionInit, session_init, LostInv, LoopTypeOK
<1> QED BY <1>1, <1>2, <1>3, <1>7, <1>8 DEF ConnectionInv, NetInv

LEMMA ConnectionStep ==
    ASSUME ConnectionInv, ConnectionNext
    PROVE  ConnectionInv'
<1>1. NetInv /\ ScreenInv /\ LostInv /\ LoopTypeOK
    BY DEF ConnectionInv
<1>2. ASSUME UNCHANGED <<pickerVars, screens, g_was_lost, blinked>>,
             at' \in {"leaving", "left"} => at \in {"leaving", "left"} \/ ~picker.up
      PROVE  ScreenInv' /\ LostInv'
    <2>1. ScreenInv'
        BY <1>1, <1>2, ScreensKept
    <2>2. LostInv'
        BY <1>1, <1>2, Zenon DEF LostInv
    <2> QED BY <2>1, <2>2
<1>3. CASE Watch
    <2>1. LoopTypeOK'
        <3>1. at' = "draw" /\ g_quit' = g_quit
            BY <1>3 DEF Watch
        <3>2. blinked' \in BOOLEAN
            <4>1. CASE session_link_went
                BY <1>3, <4>1, Zenon DEF Watch, Refused
            <4>2. CASE ~session_link_went
                BY <1>3, <4>2, Zenon DEF Watch
            <4> QED BY <4>1, <4>2
        <3> QED BY <1>1, <3>1, <3>2 DEF LoopTypeOK
    <2> QED BY <1>1, <1>3, <2>1, WatchShows, WatchConnects DEF ConnectionInv
<1>4. CASE Draw
    <2>1. LoopTypeOK'
        <3>1. at' = "watch" /\ g_quit' = g_quit
            BY <1>4 DEF Draw
        <3>2. blinked' = blinked \/ blinked' \in BOOLEAN
            BY <1>4 DEF Draw, OfflineFrame
        <3>3. blinked' \in BOOLEAN
            BY <1>1, <3>2, Zenon DEF LoopTypeOK
        <3> QED BY <1>1, <3>1, <3>3 DEF LoopTypeOK
    <2> QED BY <1>1, <1>4, <2>1, DrawShows, DrawConnects DEF ConnectionInv
<1>5. CASE ExitConfirmed
    <2>1. LoopTypeOK' /\ at' = at /\ UNCHANGED <<netVars, sessionVars, pickerVars, screens, blinked>>
        BY <1>1, <1>5 DEF ExitConfirmed, LoopTypeOK
    <2>2. NetInv'
        BY <1>1, <2>1, NetKept
    <2>3. ScreenInv' /\ LostInv'
        BY <1>2, <2>1 DEF sessionVars
    <2> QED BY <2>1, <2>2, <2>3 DEF ConnectionInv
<1>6. CASE Leave
    <2>1. LoopTypeOK' /\ at' = "leaving" /\ ~picker.up
          /\ UNCHANGED <<netVars, sessionVars, pickerVars, screens, blinked>>
        BY <1>1, <1>6 DEF Leave, LoopTypeOK, platform_should_quit
    <2>2. NetInv'
        BY <1>1, <2>1, NetKept
    <2>3. ScreenInv' /\ LostInv'
        BY <1>2, <2>1 DEF sessionVars
    <2> QED BY <2>1, <2>2, <2>3 DEF ConnectionInv
<1>7. CASE NetDown
    <2>1. LoopTypeOK' /\ at = "leaving" /\ UNCHANGED <<sessionVars, pickerVars, screens, blinked>>
        BY <1>1, <1>7 DEF NetDown, LoopTypeOK
    <2>2. ScreenInv' /\ LostInv'
        BY <1>2, <2>1 DEF sessionVars
    <2> QED BY <1>1, <1>7, <2>1, <2>2, NetDownConnects DEF ConnectionInv
<1>8. CASE World
    <2>1. LoopTypeOK' /\ at' = at /\ UNCHANGED <<sessionVars, pickerVars, screens, blinked>>
        BY <1>1, <1>8 DEF World, LoopTypeOK, loopVars
    <2>2. ScreenInv' /\ LostInv'
        BY <1>2, <2>1 DEF sessionVars
    <2> QED BY <1>1, <1>8, <2>1, <2>2, WorldConnects DEF ConnectionInv
<1>9. CASE Dialog
    <2>1. LoopTypeOK'
        BY <1>1, <1>9 DEF Dialog, LoopTypeOK, loopVars
    <2> QED BY <1>1, <1>9, <2>1, DialogMoves, DialogConnects DEF ConnectionInv
<1>10. CASE WorkerStep
    <2>1. LoopTypeOK' /\ at' = at /\ UNCHANGED <<pickerVars, screens, blinked>>
        BY <1>1, <1>10 DEF WorkerStep, LoopTypeOK, loopVars
    <2>2. g_was_lost' = g_was_lost
        BY <1>10 DEF WorkerStep, Worker, WantRead, WantCleared, StartNet, Join, Poll, SignIn,
              Answered, othersOfWorker, watchVars
    <2>3. ScreenInv' /\ LostInv'
        BY <1>2, <2>1, <2>2
    <2> QED BY <1>1, <1>10, <2>1, <2>3, WorkerConnects DEF ConnectionInv
<1> QED BY <1>3, <1>4, <1>5, <1>6, <1>7, <1>8, <1>9, <1>10 DEF ConnectionNext

LEMMA ConnectionStutters ==
    ASSUME ConnectionInv, UNCHANGED connectionVars
    PROVE  ConnectionInv'
<1>1. UNCHANGED <<netVars, sessionVars, pickerVars, screens, at, g_quit, blinked>>
    BY DEF connectionVars, loopVars
<1>2. NetInv'
    BY <1>1, NetKept DEF ConnectionInv
<1>3. ScreenInv'
    BY <1>1, ScreensKept DEF ConnectionInv
<1>4. g_was_lost' = g_was_lost
    BY <1>1 DEF sessionVars
<1>5. LostInv'
    BY <1>1, <1>4, Zenon DEF ConnectionInv, LostInv
<1>6. LoopTypeOK'
    BY <1>1 DEF ConnectionInv, LoopTypeOK
<1> QED BY <1>2, <1>3, <1>5, <1>6 DEF ConnectionInv

\* What the next four rest on: every part above holds in every state.
THEOREM ConnectionInvariant == ConnectionSpec => []ConnectionInv
<1>1. ConnectionInit => ConnectionInv
    BY ConnectionStarts
<1>2. ConnectionInv /\ [ConnectionNext]_connectionVars => ConnectionInv'
    BY ConnectionStep, ConnectionStutters
<1> QED BY <1>1, <1>2, PTL DEF ConnectionSpec

\* Type correctness, of the network, the session, the dialog, the stack of pages
\* and the loop: the miss count never passes its bound, a sleep the watch has
\* seen is one that happened, and the stack is never empty nor past its levels.
THEOREM ConnectionTypeCorrect == ConnectionSpec => []ConnectionTypeOK
<1>1. ConnectionInv => ConnectionTypeOK
    <2> SUFFICES ASSUME ConnectionInv PROVE ConnectionTypeOK
        OBVIOUS
    <2>1. PICK l : l = screens.levels
        OBVIOUS
    <2>2. l \in Seq(Levels) /\ Len(l) \in 1 .. StackMax
        BY <2>1 DEF ConnectionInv, ScreenInv, ScreensTyped, depth
    <2>3. \A i \in 1 .. Len(l) : l[i] \in Levels
        BY <2>2
    <2>4. \A i \in 1 .. depth(screens) : screens.levels[i].page \in Pages
        BY <2>1, <2>3 DEF Levels, depth
    <2> QED BY <2>1, <2>2, <2>4
            DEF ConnectionInv, NetInv, ScreenInv, ScreensTyped, LoopTypeOK, ConnectionTypeOK
<1> QED BY <1>1, ConnectionInvariant, PTL

\* However the losing and the finding of the server interleave with pages that
\* push, pop and reset, a frame drawn after a watch that found the server lost
\* has the offline screen on the stack, unless the page went on a reading the
\* watch never made (app.c:116, offline.c:35).
THEOREM ConnectionShowsOffline == ConnectionSpec => []OfflineWhileLost
<1>1. ConnectionInv => OfflineWhileLost
    BY DEF ConnectionInv, LostInv, OfflineWhileLost
<1> QED BY <1>1, ConnectionInvariant, PTL

\* One page, and one only, waits for the dialog that is up; one of this run's
\* that shows is never left behind by circle, a reset or the program's leaving;
\* and a start of the network that fails part way, or a stop, gives the
\* kernel's pool and layers back (platform.c:248, port/psp/net.c).
THEOREM ConnectionHoldsDialog == ConnectionSpec => []DialogIsHeld
<1>1. ConnectionInv => DialogIsHeld
    <2> SUFFICES ASSUME ConnectionInv PROVE DialogIsHeld
        OBVIOUS
    <2>1. picker.up <=> \E i \in 1 .. depth(screens) : i \in Waits(screens)
        BY DEF ConnectionInv, ScreenInv, DialogInv, OneWaits, Waits
    <2>2. DialogHasItsPage
        BY <2>1 DEF ConnectionInv, ScreenInv, DialogInv, Waits, DialogHasItsPage
    <2> QED BY <2>2 DEF ConnectionInv, NetInv, DialogIsHeld
<1> QED BY <1>1, ConnectionInvariant, PTL

\* For every number of sleeps, wherever they fall between the worker's steps:
\* a link of before the last sleep is asked for again, being rejoined or given
\* up on by the time a frame is drawn, and never gone on with (session.c:198).
THEOREM ConnectionRejoins == ConnectionSpec => []WokenIsRejoined
<1>1. ConnectionInv => WokenIsRejoined
    BY DEF ConnectionInv, NetInv, WokenInv, Ahead, WokenIsRejoined
<1> QED BY <1>1, ConnectionInvariant, PTL
=============================================================================
