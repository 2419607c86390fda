----------------------------- MODULE Connection ----------------------------
(* The drawing thread's loop over the session, the connection dialog and the  *)
(* pages that show them: app/app.c and shell/psp/main.c with page/boot.c,     *)
(* page/network.c, page/offline.c, page/open.c and the row of page/settings.c *)
(* that signs in again, against the library's worker and the power callback.  *)
EXTENDS Session, Picker, Stack

VARIABLES
  screens,  \* the pages on top of one another
  at,       \* the loop: "watch", "draw", "leaving", "left"
  g_quit,   \* HOME's exit was confirmed
  blinked   \* history: the offline page went away on a reading of its own
            \* that no watch has made, or was refused by a full stack

loopVars == <<screens, at, g_quit, blinked>>
connectionVars == <<netVars, sessionVars, pickerVars, loopVars>>

Pages == {"boot", "home", "settings", "network", "offline"}

\* The pages a reset leaves alone on the stack fit it.
ASSUME ConnectionAssumption ==
  /\ MaxSleeps \in Nat /\ LINK_MISS_MAX \in Nat
  /\ FileProfiles \subseteq {0, 1}
  /\ \A p \in {"boot", "home"} : ~Refused(NoScreens, p, 0)

ConnectionTypeOK ==
  /\ NetTypeOK /\ SessionTypeOK /\ PickerTypeOK
  /\ depth(screens) \in 1..StackMax
  /\ \A i \in 1..depth(screens) : screens.levels[i].page \in Pages
  /\ at \in {"watch", "draw", "leaving", "left"}
  /\ g_quit \in BOOLEAN /\ blinked \in BOOLEAN

\* app_start: the boot screen over a session that wants its first link.
ConnectionInit ==
  /\ NetInit /\ session_init /\ PickerInit
  /\ screens = reset_now("boot", FALSE)
  /\ at = "watch" /\ g_quit = FALSE /\ blinked = FALSE

\* A firmware query from this thread may meet the worker inside one.
Busy == con \in {"join", "poll"}
States == NetStates(Busy)

(* ------------------------------ The loop -------------------------------- *)
\* A slip: the dialog is not asked about.
platform_should_quit_AtOnce == g_quit

\* Not while the dialog is open: a run that leaves one up orphans it.
platform_should_quit == g_quit /\ ~picker.up

\* app_frame up to the drawing: the watch, and the offline screen over
\* whatever is there, at once, on the edge only.
Watch ==
  /\ at = "watch" /\ ~platform_should_quit
  /\ \E state \in States : session_watch(state)
  /\ screens' = IF session_link_went THEN push_now(screens, "offline", FALSE, 0)
                ELSE screens
  /\ blinked' = IF session_link_went THEN Refused(screens, "offline", 0)
                ELSE blinked /\ g_was_lost'
  /\ at' = "draw"
  /\ UNCHANGED <<g_up, pool, inet, apctl, wlan, assoc, alive, g_link_epoch,
                 g_profile, epoch, pickerVars, g_quit>>

(* ------------------------------- The pages ------------------------------ *)
\* page_offer_picker: only a radio that is on and joined nothing.
Offer(state) == platform_has_picker /\ state = "down"

\* What the frame leaves to the stack, with the state of the top page as the
\* frame leaves it.
Ends(top, nav, circle, took, handled) ==
  screens' = EndOfFrame(SetTop(screens, top), nav, circle, took, handled)

NetworkAsk(begun) == PushAsk("network", begun, 0)
KeepSession == UNCHANGED <<sessionVars, netVars>>
KeepPicker == UNCHANGED pickerVars
Asked(state) ==
  g_last' = state
  /\ UNCHANGED <<sessionVars, g_up, pool, inet, apctl, wlan, assoc, alive,
                 g_link_epoch, g_profile, epoch>>
Retried(state) ==
  /\ session_retry(state)
  /\ UNCHANGED <<g_up, pool, inet, apctl, wlan, assoc, alive, g_profile, epoch,
                 g_connected, g_link_down, g_radio_down, g_was_lost,
                 g_epoch_seen, fileProfile, con, unmade>>

\* The network page's enter opens the dialog, unless the stack was full.
PushNetwork(top, nav, begun) ==
  /\ Ends(top, nav, FALSE, FALSE, TRUE)
  /\ IF depth(screens') > depth(screens)
       THEN platform_picker_begin(begun) ELSE KeepPicker /\ ~begun

NoAsk(top, circle, handled) ==
  Ends(top, NoNav, circle, FALSE, handled) /\ KeepPicker

\* The boot screen: home as soon as the session is ready; stopped, the dialog
\* once of its own accord, and Try again.
BootFrame(cross, circle) ==
  LET b == Top(screens).state
      ready == g_stage = "ready"
  IN \/ /\ g_stage # "stopped"
        /\ Ends(b, IF ready THEN ResetAsk("home", FALSE) ELSE NoNav,
                circle, FALSE, TRUE)
        /\ KeepPicker /\ KeepSession
     \/ /\ g_stage = "stopped"
        /\ \E state \in States, begun \in BOOLEAN :
             IF Offer(state) /\ (cross \/ ~b)
               THEN PushNetwork(TRUE, NetworkAsk(begun), begun) /\ Asked(state)
             ELSE /\ ~begun /\ NoAsk(b, circle, TRUE)
                  /\ IF cross THEN Retried(state) ELSE Asked(state)

\* The offline screen pops itself when the link is back.
OfflineFrame(cross, circle) ==
  \/ /\ ~session_lost
     /\ Ends(FALSE, PopAsk, circle, FALSE, TRUE) /\ KeepPicker /\ KeepSession
     /\ blinked' = (blinked \/ g_was_lost)
  \/ /\ session_lost /\ UNCHANGED blinked
     /\ g_stage \in {"starting", "linking", "signin"} \/ ~cross
     /\ NoAsk(FALSE, circle, TRUE) /\ KeepSession
  \/ /\ session_lost /\ g_stage \in {"ready", "stopped"} /\ cross
     /\ UNCHANGED blinked
     /\ \E state \in States, begun \in BOOLEAN :
          IF Offer(state)
            THEN PushNetwork(FALSE, NetworkAsk(begun), begun) /\ Asked(state)
            ELSE ~begun /\ NoAsk(FALSE, circle, TRUE) /\ Retried(state)

\* A slip: circle pops the page with its dialog running.
NetworkTakes_Not == FALSE

\* The network page pumps the dialog, takes circle for itself while it is up,
\* and goes when it is over: joined is a retry, backed out of is said.
NetworkTakes == TRUE

NetworkFrame(circle) ==
  \/ /\ ~Top(screens).state
     /\ Ends(FALSE, PopAsk, circle, FALSE, FALSE) /\ KeepPicker /\ KeepSession
  \/ /\ Top(screens).state
     /\ \E result \in {"running", "joined", "cancelled", "unavailable"} :
          /\ platform_picker_step(result, assoc = "ip")
          /\ IF result = "running"
               THEN Ends(TRUE, NoNav, circle, NetworkTakes, FALSE)
               ELSE Ends(FALSE, PopAsk, circle, NetworkTakes, FALSE)
          /\ CASE result = "joined" -> \E state \in States : Retried(state)
               [] result = "cancelled" ->
                    /\ g_stage' = "stopped"
                    /\ UNCHANGED <<netVars, g_connected, g_want_connect,
                         g_link_down, g_radio_down, g_link_miss, g_was_lost,
                         g_epoch_seen, fileProfile, con, swallowed, unmade>>
               [] OTHER -> KeepSession

HomeFrame(start, circle) ==
  /\ Ends(FALSE, IF start THEN PushAsk("settings", FALSE, 0) ELSE NoNav,
          circle, FALSE, FALSE)
  /\ KeepPicker /\ KeepSession

\* Sign in again is offered in any stage, over a connecting under way too.
SettingsFrame(cross, circle) ==
  /\ NoAsk(FALSE, circle, FALSE)
  /\ IF cross THEN \E state \in States : Retried(state) ELSE KeepSession

\* A frame: one button at most of those these pages read.
Draw ==
  /\ at = "draw"
  /\ \E press \in {"none", "cross", "circle", "start"} :
       LET page == Top(screens).page
           cross == press = "cross"
           circle == press = "circle"
       IN \/ page = "offline" /\ OfflineFrame(cross, circle)
          \/ /\ UNCHANGED blinked
             /\ \/ page = "boot" /\ BootFrame(cross, circle)
                \/ page = "network" /\ NetworkFrame(circle)
                \/ page = "home" /\ HomeFrame(press = "start", circle)
                \/ page = "settings" /\ SettingsFrame(cross, circle)
  /\ at' = "watch"
  /\ UNCHANGED g_quit

(* ------------------------------- Leaving -------------------------------- *)
ExitConfirmed ==
  /\ ~g_quit /\ at \in {"watch", "draw"}
  /\ g_quit' = TRUE
  /\ UNCHANGED <<netVars, sessionVars, pickerVars, screens, at, blinked>>

\* leave(): no dialog is up by then; the library's worker is waited for, and
\* the network comes down behind it.
Leave ==
  /\ at = "watch" /\ platform_should_quit
  /\ at' = "leaving"
  /\ UNCHANGED <<netVars, sessionVars, pickerVars, screens, g_quit, blinked>>

NetDown ==
  /\ at = "leaving" /\ con = "idle"
  /\ net_stop
  /\ at' = "left"
  /\ UNCHANGED <<sessionVars, pickerVars, screens, g_quit, blinked>>

World ==
  /\ at \in {"watch", "draw"}
  /\ \/ RadioGone \/ RadioJoins \/ SwitchSlides
     \/ at = "watch" /\ Slept
  /\ UNCHANGED <<sessionVars, pickerVars, loopVars>>

\* A choice made in the dialog may join; backing out joins nothing.
Dialog ==
  /\ at \in {"watch", "draw"}
  /\ DialogShows \/ DialogAnswered \/ DialogLetGo
  /\ \/ UNCHANGED <<assoc, alive>>
     \/ dialog' = "quit" /\ g_up /\ assoc' = "ip" /\ alive' = TRUE
  /\ UNCHANGED <<g_up, pool, inet, apctl, wlan, g_link_epoch, g_profile,
                 g_last, epoch, sessionVars, loopVars>>

\* The worker stops at its next pass once the loop is left.
WorkerStep ==
  /\ at # "left" /\ (at = "leaving" => con # "idle")
  /\ Worker
  /\ UNCHANGED <<pickerVars, loopVars>>

ConnectionNext ==
  \/ Watch \/ Draw \/ ExitConfirmed \/ Leave \/ NetDown
  \/ World \/ Dialog \/ WorkerStep

ConnectionSpec == ConnectionInit /\ [][ConnectionNext]_connectionVars
ConnectionFairSpec == ConnectionSpec /\ WF_connectionVars(WorkerStep)

(* ------------------------------ Properties ------------------------------ *)
\* After a watch that found the server lost, the offline screen is somewhere
\* on the stack: it is pushed on an edge and pops itself on a reading of its
\* own.  The exception is the page's reading that the watch never makes: an
\* answer that lands between the two pops it and raises no new edge.
\* (app.c:116, session.h's session_link_went)
OfflineWhileLost ==
  at = "draw" /\ g_was_lost /\ ~blinked => OnStack(screens, "offline")

\* The dialog that is up is pumped by exactly the page that opened it, and one
\* of this run's that shows is never left without its page: that holds the
\* kernel's threads until the console restarts.  (platform.c:248)
DialogHasItsPage ==
  /\ picker.up <=> \E i \in 1..depth(screens) :
       screens.levels[i].page = "network" /\ screens.levels[i].state
  /\ owner = "ours" /\ dialog \in {"init", "visible"} => picker.up
  /\ at \in {"leaving", "left"} => ~picker.up

\* The system's dialog is up only over the page that waits for it, and the
\* stack's pool is given back when a layer refuses (see PoolGivenBack).
DialogIsHeld == DialogHasItsPage /\ PoolGivenBack

\* After a sleep the link of before it is rejoined or given up on, and never
\* gone on with, except where the sleep came before the first sign-in was
\* over or the worker cleared the ask unread.  (session.c:198)
WokenIsRejoined ==
  at = "draw" /\ g_connected /\ net_joined /\ g_link_epoch # epoch =>
    \/ g_want_connect \/ con = "wanted" \/ con \in Connecting
    \/ g_stage = "stopped" \/ swallowed \/ unmade

\* Every connecting ends in an answer: the screens that wait for it have no
\* button.
StageSettles ==
  g_stage \in {"starting", "linking", "signin"}
    ~> g_stage \in {"ready", "stopped"} \/ swallowed \/ at \in {"leaving", "left"}

\* The same without the exemption, which does not hold: an ask that lands
\* between the worker's read and its clear is lost.
RetryIsDone ==
  g_stage = "starting" ~> g_stage # "starting" \/ at \in {"leaving", "left"}
=============================================================================
