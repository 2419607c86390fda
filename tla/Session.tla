------------------------------ MODULE Session ------------------------------
(* model/session.c: the radio, the sign-in, and whether the server is          *)
(* reachable.  session_connect runs on the library's worker; session_watch and *)
(* session_retry on the drawing thread; what they share is not locked.         *)
(* Below it io/net.c and port/psp/net.c: the console's network stack and the   *)
(* one association this run makes over it.  The kernel's own state is here     *)
(* too: its pool and layers outlive the program, and its radio believes after  *)
(* a sleep that it is still associated.                                        *)
EXTENDS Naturals

CONSTANTS
  MaxSleeps,      \* bound: sleeps of the machine
  LeftUp,         \* the layers a run that ended badly may have left up: a set
                  \* of subsets of {"inet", "apctl"}
  LINK_MISS_MAX,  \* failures in a row that make a link lost
  FileProfiles    \* the profile the connection file may name; 0: none

(* ------------------------------ The network ----------------------------- *)
VARIABLES
  g_up,         \* this module has the stack up
  pool,         \* kernel: the stack's memory pool is claimed
  inet, apctl,  \* kernel: "down", "left" by another run, "ours"
  wlan,         \* the switch on the side
  assoc,        \* kernel: "none", "joining", "ip"
  alive,        \* the radio really is on that association
  g_link_epoch, \* the sleep generation it was made in; 0 when none
  g_profile,    \* the saved connection it was made over; 0 when none
  g_last,       \* what the last net_state() found
  epoch         \* base/standby.c: the sleep generation, from 1

netVars == <<g_up, pool, inet, apctl, wlan, assoc, alive, g_link_epoch,
             g_profile, g_last, epoch>>

NetTypeOK ==
  /\ g_up \in BOOLEAN /\ pool \in BOOLEAN /\ wlan \in BOOLEAN
  /\ alive \in BOOLEAN
  /\ inet \in {"down", "left", "ours"} /\ apctl \in {"down", "left", "ours"}
  /\ assoc \in {"none", "joining", "ip"}
  /\ epoch \in 1..(MaxSleeps + 1) /\ g_link_epoch \in 0..epoch
  /\ g_profile \in {0, 1} /\ g_last \in {"off", "down", "up"}

NetInit ==
  /\ \E left \in LeftUp :
       /\ inet = IF "inet" \in left THEN "left" ELSE "down"
       /\ apctl = IF "apctl" \in left THEN "left" ELSE "down"
       /\ assoc \in IF "apctl" \in left THEN {"none", "ip"} ELSE {"none"}
  /\ alive = (assoc = "ip")
  /\ wlan \in BOOLEAN
  /\ g_up = FALSE /\ pool = FALSE
  /\ g_link_epoch = 0 /\ g_profile = 0 /\ g_last = "off" /\ epoch = 1

net_joined          == g_link_epoch # 0
net_link_is_current == net_joined /\ g_link_epoch = epoch

(* ------------------------------ The stack ------------------------------- *)
\* net_start's ends, each with what it leaves of the kernel's layers: the
\* switch, a pool of no size granted, the inet layer refused (the pool goes
\* back), apctl refused (and the inet layer too, if this module put it up).
\* A layer found up is used as it is, and stays the other run's.
Layer(l) == IF l = "left" THEN "left" ELSE "ours"
Start(rc, up, p, i, a) ==
  [rc |-> rc, up |-> up, pool |-> p, inet |-> i, apctl |-> a]

\* apctl refused: what came up before it goes back down.
UndoInet(i) == IF i = "ours" THEN "down" ELSE i

\* A slip: the pool is kept behind apctl's refusal.
ApctlRefused_KeepsPool(i) == Start("failed", FALSE, TRUE, UndoInet(i), apctl)

ApctlRefused(i) == Start("failed", FALSE, FALSE, UndoInet(i), apctl)

Starts ==
  IF g_up THEN {Start("ok", TRUE, pool, inet, apctl)}
  ELSE IF ~wlan THEN {Start("no_switch", FALSE, pool, inet, apctl)}
  ELSE {Start("failed", FALSE, FALSE, inet, apctl),
        Start("ok", TRUE, TRUE, Layer(inet), Layer(apctl))}
       \cup (IF apctl = "down" THEN {ApctlRefused(Layer(inet))} ELSE {})

net_start(rc) ==
  \E s \in Starts :
    /\ rc = s.rc
    /\ g_up' = s.up /\ pool' = s.pool /\ inet' = s.inet /\ apctl' = s.apctl

\* net_stop: the association first, then only what this module put up.
net_stop ==
  /\ IF g_up /\ net_joined
       THEN assoc' = "none" /\ alive' = FALSE /\ g_link_epoch' = 0
       ELSE UNCHANGED <<assoc, alive, g_link_epoch>>
  /\ IF g_up
       THEN /\ g_up' = FALSE /\ pool' = FALSE
            /\ inet' = UndoInet(inet)
            /\ apctl' = UndoInet(apctl)
       ELSE UNCHANGED <<g_up, pool, inet, apctl>>
  /\ UNCHANGED <<wlan, g_profile, g_last, epoch>>

(* --------------------------- The association ---------------------------- *)
\* net_note_joined.  A profile of 0 asks which of the saved ones is in force,
\* and that may be none of them.
net_note_joined(profile) ==
  /\ g_link_epoch' = epoch
  /\ g_last' = "up"
  /\ \E p \in IF profile > 0 THEN {profile} ELSE {0, 1} :
       g_profile' = IF p > 0 THEN p ELSE g_profile

\* What the firmware and the generation say between them.  The firmware
\* refuses the query while another thread is inside one, and net_connect's
\* own queries do not take the lock net_state takes: `busy`.
NetStates(busy) ==
  {IF ~g_up THEN "off"
   ELSE IF assoc = "ip" /\ net_link_is_current THEN "up" ELSE "down"}
  \cup (IF busy /\ g_up THEN {"off"} ELSE {})

(* ------------------------------ The world ------------------------------- *)
RadioGone ==
  /\ assoc = "ip"
  /\ assoc' = "none" /\ alive' = FALSE
  /\ UNCHANGED <<g_up, pool, inet, apctl, wlan, g_link_epoch, g_profile,
                 g_last, epoch>>

\* The access point takes the connection being made.
RadioJoins ==
  /\ assoc = "joining"
  /\ assoc' = "ip" /\ alive' = TRUE
  /\ UNCHANGED <<g_up, pool, inet, apctl, wlan, g_link_epoch, g_profile,
                 g_last, epoch>>

SwitchSlides ==
  /\ ~wlan /\ wlan' = TRUE
  /\ UNCHANGED <<g_up, pool, inet, apctl, assoc, alive, g_link_epoch,
                 g_profile, g_last, epoch>>

\* The machine slept and standby_step has counted it.  The radio is on
\* nothing; the firmware may say that it is.
Slept ==
  /\ epoch <= MaxSleeps
  /\ epoch' = epoch + 1 /\ alive' = FALSE
  /\ assoc' \in {"none"} \cup ({assoc} \cap {"ip"})
  /\ UNCHANGED <<g_up, pool, inet, apctl, wlan, g_link_epoch, g_profile,
                 g_last>>

(* ------------------------------ The session ----------------------------- *)
VARIABLES
  g_stage, g_connected, g_want_connect,
  g_link_down, g_radio_down, g_link_miss, g_was_lost, g_epoch_seen,
  fileProfile,  \* what jellyfin.txt says
  con,          \* where the library's worker is
  swallowed,    \* history: a retry's ask was cleared unread
  unmade        \* history: a sleep was taken as seen with no link to rejoin

sessionVars == <<g_stage, g_connected, g_want_connect, g_link_down,
                 g_radio_down, g_link_miss, g_was_lost, g_epoch_seen,
                 fileProfile, con, swallowed, unmade>>

Connecting == {"start", "join", "poll", "signin"}
SessionTypeOK ==
  /\ g_stage \in {"starting", "linking", "signin", "ready", "stopped"}
  /\ g_connected \in BOOLEAN /\ g_want_connect \in BOOLEAN
  /\ g_link_down \in BOOLEAN /\ g_radio_down \in BOOLEAN
  /\ g_link_miss \in 0..LINK_MISS_MAX /\ g_was_lost \in BOOLEAN
  /\ g_epoch_seen \in 1..epoch /\ fileProfile \in FileProfiles
  /\ con \in Connecting \cup {"idle", "wanted", "unwanted", "asking"}
  /\ swallowed \in BOOLEAN /\ unmade \in BOOLEAN

session_init ==
  /\ g_stage = "starting" /\ g_want_connect = TRUE
  /\ g_connected = FALSE /\ g_link_down = FALSE /\ g_radio_down = FALSE
  /\ g_link_miss = 0 /\ g_was_lost = FALSE /\ g_epoch_seen = 1
  /\ fileProfile \in FileProfiles
  /\ con = "idle" /\ swallowed = FALSE /\ unmade = FALSE

session_lost == g_link_down \/ g_link_miss >= LINK_MISS_MAX

(* ------------------- What a request says of the server ------------------ *)
session_note_reached == g_connected' = TRUE /\ g_link_miss' = 0

session_note_failure(offline) ==
  /\ g_link_miss' = IF ~offline \/ ~g_connected THEN 0
                    ELSE IF g_link_miss < LINK_MISS_MAX THEN g_link_miss + 1
                    ELSE g_link_miss
  /\ UNCHANGED g_connected

session_note_stopped == g_stage' = "stopped"

(* ----------------------- session_connect, on the worker ------------------ *)
watchVars == <<g_link_down, g_radio_down, g_was_lost, g_epoch_seen, unmade>>
othersOfWorker == <<watchVars, fileProfile>>

\* session_wants_connect reads the ask and then clears it: a retry between
\* the two is cleared unread.  With none asked the pass goes to the pages'
\* wants.
WantRead ==
  /\ con = "idle"
  /\ con' = IF g_want_connect THEN "wanted" ELSE "unwanted"
  /\ UNCHANGED <<netVars, othersOfWorker, g_stage, g_connected,
                 g_want_connect, g_link_miss, swallowed>>

WantCleared ==
  /\ con \in {"wanted", "unwanted"}
  /\ g_want_connect' = FALSE
  /\ swallowed' = (swallowed \/ (con = "unwanted" /\ g_want_connect))
  /\ IF con = "wanted"
       THEN con' = "start" /\ g_stage' = "linking"
       ELSE /\ con' \in {"idle"} \cup (IF g_stage = "ready" THEN {"asking"} ELSE {})
            /\ UNCHANGED g_stage
  /\ UNCHANGED <<netVars, othersOfWorker, g_connected, g_link_miss>>

Stop(why) == session_note_stopped /\ con' = "idle"

\* There may be no connection file, and the stack may not start.
StartNet ==
  /\ con = "start"
  /\ \/ Stop("no file") /\ UNCHANGED <<g_up, pool, inet, apctl>>
     \/ net_start("ok") /\ con' = "join" /\ UNCHANGED g_stage
     \/ \E rc \in {"no_switch", "failed"} : net_start(rc) /\ Stop(rc)
  /\ UNCHANGED <<wlan, assoc, alive, g_link_epoch, g_profile, g_last, epoch,
                 othersOfWorker, g_connected, g_want_connect, g_link_miss,
                 swallowed>>

ProfileToJoin == IF fileProfile > 0 THEN fileProfile ELSE g_profile

\* net_connect's `joined`: associated, and asked for the address.
Joined ==
  \/ /\ net_note_joined(ProfileToJoin)
     /\ g_stage' = "signin" /\ con' = "signin"
     /\ UNCHANGED <<assoc, alive>>
  \/ /\ assoc' = "none" /\ alive' = FALSE /\ Stop("no address")
     /\ UNCHANGED <<g_link_epoch, g_last, g_profile>>

\* net_connect up to its wait: adopt the association the firmware reports, else
\* none was chosen, else ask for it and be refused or wait. What is associated is
\* not adopted when the query is refused, and then neither is the connect taken.
Join ==
  /\ con = "join"
  /\ \/ assoc = "ip" /\ Joined
     \/ /\ \/ Stop("none chosen or refused") /\ UNCHANGED assoc
           \/ /\ assoc # "ip" /\ ProfileToJoin > 0
              /\ assoc' = "joining" /\ con' = "poll" /\ UNCHANGED g_stage
        /\ UNCHANGED <<alive, g_link_epoch, g_last, g_profile>>
  /\ UNCHANGED <<g_up, pool, inet, apctl, wlan, epoch, othersOfWorker,
                 g_connected, g_want_connect, g_link_miss, swallowed>>

\* Polled to an address or to the bound; a query refused ends it too.
Poll ==
  /\ con = "poll"
  /\ \/ assoc = "ip" /\ Joined
     \/ /\ assoc' = "none" /\ alive' = FALSE /\ Stop("would not join")
        /\ UNCHANGED <<g_link_epoch, g_last, g_profile>>
  /\ UNCHANGED <<g_up, pool, inet, apctl, wlan, epoch, othersOfWorker,
                 g_connected, g_want_connect, g_link_miss, swallowed>>

\* A socket is refused at once while the last net_state() was not "up", and
\* nothing answers over a radio that is on nothing.
Reachable == g_last = "up" /\ alive

SignIn ==
  /\ con = "signin"
  /\ \/ /\ Reachable /\ session_note_reached
        /\ g_stage' = "ready" /\ con' = "idle"
     \/ Stop("refused or no answer") /\ UNCHANGED <<g_connected, g_link_miss>>
  /\ UNCHANGED <<netVars, othersOfWorker, g_want_connect, swallowed>>

\* One request of the library's for a page.
Answered ==
  /\ con = "asking" /\ con' = "idle"
  /\ \/ Reachable /\ session_note_reached
     \/ Reachable /\ session_note_failure(FALSE)
     \/ session_note_failure(TRUE)
  /\ UNCHANGED <<netVars, othersOfWorker, g_stage, g_want_connect, swallowed>>

Worker ==
  \/ WantRead \/ WantCleared \/ StartNet \/ Join \/ Poll \/ SignIn
  \/ Answered

(* ------------------------- On the drawing thread ------------------------- *)
\* A slip: the stage is set and the ask forgotten.
session_retry_NotAsked(state) ==
  /\ g_link_miss' = 0
  /\ g_stage' = "starting"
  /\ UNCHANGED g_want_connect
  /\ swallowed' = FALSE
  /\ g_link_epoch' = IF state = "up" /\ net_joined THEN epoch ELSE g_link_epoch
  /\ g_last' = state

\* The ask only; the worker does the work.  Only an "up" link is taken as
\* current again, and "up" says that it is.
session_retry(state) ==
  /\ g_link_miss' = 0
  /\ g_stage' = "starting"
  /\ g_want_connect' = TRUE
  /\ swallowed' = FALSE
  /\ g_link_epoch' = IF state = "up" /\ net_joined THEN epoch ELSE g_link_epoch
  /\ g_last' = state

\* Given up after its bound; session_connect is not told, and goes on.
GivenUp == g_stage \in {"linking", "signin"}

\* A slip: a sleep is noted and nothing rejoins.
Rejoins_Never == FALSE

\* session_watch, one frame's: the verdict on a connecting under way, the
\* rejoin after a sleep (a revalidation cannot happen there: the generation
\* has moved on), the radio's hold, and the edge of being lost.
Rejoins == epoch # g_epoch_seen /\ g_connected /\ net_joined

RadioDown(state) == g_connected /\ state # "up"

\* Whether the hold is over is the clock's to say, once the radio has been
\* down for a frame; a link down stays down while the radio is.
LinkDowns(state) ==
  IF ~RadioDown(state) THEN {FALSE}
  ELSE IF ~g_radio_down THEN {FALSE}
  ELSE {g_link_down, TRUE}

session_watch(state) ==
  /\ \E late \in BOOLEAN, down \in LinkDowns(state) :
       LET gaveUp == late /\ GivenUp
           back == g_link_down /\ ~down
       IN /\ g_stage' = IF Rejoins THEN "starting"
                        ELSE IF gaveUp THEN "stopped" ELSE g_stage
          /\ g_link_down' = down
          /\ g_link_miss' = IF Rejoins \/ back THEN 0 ELSE g_link_miss
          /\ g_was_lost' = (down \/ g_link_miss' >= LINK_MISS_MAX)
  /\ g_want_connect' = (g_want_connect \/ Rejoins)
  /\ swallowed' = (swallowed /\ ~Rejoins)
  /\ unmade' = (unmade \/ (epoch # g_epoch_seen /\ ~(g_connected /\ net_joined)))
  /\ g_epoch_seen' = epoch
  /\ g_radio_down' = RadioDown(state)
  /\ g_last' = IF g_connected \/ Rejoins THEN state ELSE g_last
  /\ UNCHANGED <<g_connected, fileProfile, con>>

\* A slip: only the radio's going is told.
session_link_went_Radio == g_link_down' /\ ~g_link_down

\* session_link_went, after that watch: the frame it became true.
session_link_went == g_was_lost' /\ ~g_was_lost

(* ------------------------------ A property ------------------------------ *)
\* A start that failed part way, and a stop, leave none of this module's own
\* layers up and give the pool back: kept, it poisons every later load.
PoolGivenBack == ~g_up => ~pool /\ inet # "ours" /\ apctl # "ours"
=============================================================================
