------------------------------- MODULE Stream -------------------------------
(***************************************************************************)
(* How a film opens and closes in model/stream.c. stream_open() and        *)
(* stream_close() run on the drawing thread; the session, the segments and *)
(* the decoders are opened by the pass of the stream worker (serve), and   *)
(* the sound worker reads the ring in passes of its own (serve_audio).     *)
(* stream_close() takes the work away and waits for both to be out, each   *)
(* for a bounded time, and tears down whether they are or not.             *)
(*                                                                         *)
(* What one film does between the two is the module Film; here a film is   *)
(* the number of the stream_open() that asked for it, and what a piece of  *)
(* state holds is the film it was made for, or None.                       *)
(***************************************************************************)
EXTENDS Naturals

CONSTANTS
    OpenTries,      \* TRIES
    MaxOpens    \* bound: calls of stream_open

ASSUME StreamAssumption == OpenTries \in Nat /\ MaxOpens \in Nat

None  == 0
Opens == 1 .. MaxOpens
Held  == Opens \cup {None}

VARIABLES
    running,    \* g_running
    opened,     \* g_opened
    gaveUp,     \* g_failed
    item,       \* g_item, with g_from and the tracks
    session,    \* g_session: the film the server opened it for
    segOf,      \* g_seg: the film whose segments it fetches
    stage,      \* g_stage: the film whose segment it holds, g_staged
    rings,      \* the films whose samples are in the rings
    decoder,    \* the film the decoders and the panel are open for
    soundOn,    \* g_audio_on
    at,         \* serve()'s place: "out" is between passes
    asked,      \* the film open_urls() went to the server with
    tries,      \* fetch_tries()'s local
    soundAt,    \* serve_audio()'s place: "out", or "in" with a record in hand
    owner,      \* the drawing thread: "idle", or its place in stream_close()
    then,       \* what the close is for: "close", or the "open" that follows
    encoders,   \* history: the films the server has started an encoder for
    late        \* history: a wait gave up with its worker still in a pass

filmVars   == <<item, session, segOf, stage, rings, decoder, soundOn>>
openerVars == <<at, asked, tries>>
ownerVars  == <<owner, then>>
streamVars == <<running, opened, gaveUp, filmVars, openerVars, soundAt, ownerVars, encoders, late>>

StreamTypeOK ==
    /\ {running, opened, gaveUp, soundOn, late} \subseteq BOOLEAN
    /\ {item, session, segOf, stage, decoder, asked} \subseteq Held
    /\ rings \subseteq Opens /\ encoders \subseteq Opens
    /\ at \in {"out", "asking", "first", "firstwait", "head", "headwait",
               "check", "decode", "fetch", "room", "cut"}
    /\ tries \in 0 .. OpenTries
    /\ soundAt \in {"out", "in"}
    /\ owner \in {"idle", "quiet", "quietsound", "down", "raise"}
    /\ then \in {"close", "open"}

StreamInit ==
    /\ running = FALSE /\ opened = FALSE /\ gaveUp = FALSE
    /\ item = None /\ session = None /\ segOf = None /\ stage = None
    /\ rings = {} /\ decoder = None /\ soundOn = FALSE
    /\ at = "out" /\ asked = None /\ tries = 0
    /\ soundAt = "out"
    /\ owner = "idle" /\ then = "close"
    /\ encoders = {}
    /\ late = FALSE

-----------------------------------------------------------------------------
(* The stream worker: serve(). A pass begins only while there is work.     *)

Works == at = "out" /\ running /\ ~gaveUp

\* open_urls() goes to the server for a session.
Asks ==
    /\ Works
    /\ ~opened
    /\ asked' = item
    /\ at' = "asking"
    /\ UNCHANGED <<running, opened, gaveUp, filmVars, tries, soundAt, ownerVars, encoders, late>>

\* A slip: the pass returns without saying that the film will not open.
OpenFails_Unsaid ==
    /\ at' = "out"
    /\ tries' = 0
    /\ UNCHANGED <<running, opened, gaveUp, filmVars, asked, soundAt, ownerVars, encoders, late>>

\* Any step of the opening failed.
OpenFails ==
    /\ gaveUp' = TRUE
    /\ at' = "out"
    /\ tries' = 0
    /\ UNCHANGED <<running, opened, filmVars, asked, soundAt, ownerVars, encoders, late>>

AskFails == at = "asking" /\ OpenFails

\* jf_hls_open() answered: the session is there for the page to see.
AskAnswers ==
    /\ at = "asking"
    /\ session' = asked
    /\ segOf' = asked
    /\ opened' = TRUE
    /\ at' = "first"
    /\ UNCHANGED <<running, gaveUp, item, stage, rings, decoder, soundOn, asked, tries,
                   soundAt, ownerVars, encoders, late>>

\* A slip: nothing counts the tries.
TryFirst_Uncounted ==
    /\ at = "first"
    /\ running
    /\ tries' = tries + 1
    /\ at' = "firstwait"
    /\ encoders' = encoders \cup {segOf}
    /\ UNCHANGED <<running, opened, gaveUp, filmVars, asked, soundAt, ownerVars, late>>

\* fetch_tries() of the first segment, which starts the server's encoder.
TryFirst ==
    /\ at = "first"
    /\ running
    /\ tries < OpenTries
    /\ tries' = tries + 1
    /\ at' = "firstwait"
    /\ encoders' = encoders \cup {segOf}
    /\ UNCHANGED <<running, opened, gaveUp, filmVars, asked, soundAt, ownerVars, late>>

TryHead ==
    /\ at = "head"
    /\ running
    /\ tries < OpenTries
    /\ tries' = tries + 1
    /\ at' = "headwait"
    /\ UNCHANGED <<running, opened, gaveUp, filmVars, asked, soundAt, ownerVars, encoders, late>>

\* seg_fetch() comes back: arrived, or to be tried again. The init sits at
\* the end of the stage, so with it the stage holds a segment to cut.
TryAnswers ==
    /\ \/ at = "firstwait" /\ at' = "first" /\ UNCHANGED <<stage, tries>>
       \/ at = "firstwait" /\ at' = "head" /\ tries' = 0 /\ UNCHANGED stage
       \/ at = "headwait" /\ at' = "head" /\ UNCHANGED <<stage, tries>>
       \/ at = "headwait" /\ at' = "check" /\ tries' = 0 /\ stage' = segOf
    /\ UNCHANGED <<running, opened, gaveUp, item, session, segOf, rings, decoder, soundOn,
                   asked, soundAt, ownerVars, encoders, late>>

\* The tries are used up, or the film is no longer wanted.
TriesEnd ==
    /\ at \in {"first", "head"}
    /\ tries = OpenTries \/ ~running
    /\ OpenFails

\* open_init()'s second look at g_running, before it touches video memory.
Check ==
    /\ at = "check"
    /\ IF running
          THEN /\ at' = "decode"
               /\ UNCHANGED <<running, opened, gaveUp, filmVars, asked, tries, soundAt,
                              ownerVars, encoders, late>>
          ELSE OpenFails

\* audio_open(), then decode_open().
Decodes ==
    /\ at = "decode"
    /\ soundOn' \in BOOLEAN
    /\ decoder' = segOf
    /\ at' = "out"
    /\ UNCHANGED <<running, opened, gaveUp, item, session, segOf, stage, rings, asked, tries,
                   soundAt, ownerVars, encoders, late>>

\* The header would not read, or the decoder would not open; the sound may
\* be open by then.
DecodeFails ==
    /\ at = "decode"
    /\ soundOn' \in BOOLEAN
    /\ gaveUp' = TRUE
    /\ at' = "out"
    /\ UNCHANGED <<running, opened, item, session, segOf, stage, rings, decoder, asked, tries,
                   soundAt, ownerVars, encoders, late>>

\* fetch_one(): the next segment's request, or the staged one's turn.
Fetches ==
    /\ Works
    /\ opened
    /\ at' = IF stage = None THEN "fetch" ELSE "room"
    /\ UNCHANGED <<running, opened, gaveUp, filmVars, asked, tries, soundAt, ownerVars,
                   encoders, late>>

\* The segment is on the stage; or it is not, and too many failures in a row
\* end the film.
FetchAnswers ==
    /\ at = "fetch"
    /\ \/ at' = "room" /\ stage' = segOf /\ UNCHANGED gaveUp
       \/ at' = "out" /\ gaveUp' \in {gaveUp, TRUE} /\ UNCHANGED stage
    /\ UNCHANGED <<running, opened, item, session, segOf, rings, decoder, soundOn,
                   asked, tries, soundAt, ownerVars, encoders, late>>

\* The rings have room for the segment, or the pass returns.
Room ==
    /\ at = "room"
    /\ at' \in {"cut", "out"}
    /\ UNCHANGED <<running, opened, gaveUp, filmVars, asked, tries, soundAt, ownerVars,
                   encoders, late>>

\* take_sample() puts a sample of the staged bytes in.
CutPuts ==
    /\ at = "cut"
    /\ rings' = rings \cup ({segOf} \ {None})
    /\ UNCHANGED <<running, opened, gaveUp, item, session, segOf, stage, decoder, soundOn,
                   openerVars, soundAt, ownerVars, encoders, late>>

\* The cut is over: done with, or refused and still staged.
StageCut ==
    /\ at = "cut"
    /\ stage' \in {None, stage}
    /\ at' = "out"
    /\ UNCHANGED <<running, opened, gaveUp, item, session, segOf, rings, decoder, soundOn,
                   asked, tries, soundAt, ownerVars, encoders, late>>

Opener ==
    \/ Asks \/ AskFails \/ AskAnswers
    \/ TryFirst \/ TryHead \/ TryAnswers \/ TriesEnd
    \/ Check \/ Decodes \/ DecodeFails
    \/ Fetches \/ FetchAnswers \/ Room \/ CutPuts \/ StageCut

-----------------------------------------------------------------------------
(* The sound worker.                                                       *)

SoundBegins ==
    /\ soundAt = "out"
    /\ running
    /\ soundOn
    /\ rings # {}
    /\ soundAt' = "in"
    /\ UNCHANGED <<running, opened, gaveUp, filmVars, openerVars, ownerVars, encoders, late>>

SoundEnds ==
    /\ soundAt = "in"
    /\ soundAt' = "out"
    /\ UNCHANGED <<running, opened, gaveUp, filmVars, openerVars, ownerVars, encoders, late>>

-----------------------------------------------------------------------------
(* The drawing thread.                                                     *)

\* stream_close(), by itself or as stream_open() begins: g_running = 0.
CloseBegins(why) ==
    /\ owner = "idle"
    /\ running' = FALSE
    /\ owner' = "quiet"
    /\ then' = why
    /\ UNCHANGED <<opened, gaveUp, filmVars, openerVars, soundAt, encoders, late>>

\* A slip: nobody waits for the stream worker.
QuietStream_NoWait ==
    /\ owner = "quiet"
    /\ owner' = "quietsound"
    /\ UNCHANGED <<running, opened, gaveUp, filmVars, openerVars, soundAt, then, encoders, late>>

\* worker_quiet(&g_worker): out of its pass, or the bound is reached first.
QuietStream ==
    /\ owner = "quiet"
    /\ owner' = "quietsound"
    /\ late' = (late \/ at # "out")
    /\ UNCHANGED <<running, opened, gaveUp, filmVars, openerVars, soundAt, then, encoders>>

\* worker_quiet(&g_aworker).
QuietSound ==
    /\ owner = "quietsound"
    /\ owner' = "down"
    /\ late' = (late \/ soundAt # "out")
    /\ UNCHANGED <<running, opened, gaveUp, filmVars, openerVars, soundAt, then, encoders>>

\* A slip: the staged segment is left for the next film.
TearDown_LeaveStage ==
    /\ owner = "down"
    /\ soundOn' = FALSE
    /\ decoder' = None
    /\ rings' = {}
    /\ opened' = FALSE
    /\ owner' = IF then = "open" THEN "raise" ELSE "idle"
    /\ UNCHANGED <<running, gaveUp, item, session, segOf, stage, openerVars, soundAt, then,
                   encoders, late>>

\* The rest of stream_close(), whatever the waits said.
TearDown ==
    /\ owner = "down"
    /\ soundOn' = FALSE
    /\ decoder' = None
    /\ rings' = {}
    /\ stage' = None
    /\ opened' = FALSE
    /\ owner' = IF then = "open" THEN "raise" ELSE "idle"
    /\ UNCHANGED <<running, gaveUp, item, session, segOf, openerVars, soundAt, then,
                   encoders, late>>

\* A slip: the session of the film before is left to be seen.
Raise_KeepSession ==
    /\ owner = "raise"
    /\ item < MaxOpens
    /\ item' = item + 1
    /\ opened' = FALSE
    /\ gaveUp' = FALSE
    /\ soundOn' = FALSE
    /\ running' = TRUE
    /\ owner' = "idle"
    /\ UNCHANGED <<session, segOf, stage, rings, decoder, openerVars, soundAt, then, encoders,
                   late>>

\* The rest of stream_open(): a new film, and the work is given.
Raise ==
    /\ owner = "raise"
    /\ item < MaxOpens
    /\ item' = item + 1
    /\ session' = None
    /\ opened' = FALSE
    /\ gaveUp' = FALSE
    /\ soundOn' = FALSE
    /\ running' = TRUE
    /\ owner' = "idle"
    /\ UNCHANGED <<segOf, stage, rings, decoder, openerVars, soundAt, then, encoders, late>>

\* stream_open() refuses: no decoder, no worker, no memory.
Refuse ==
    /\ owner = "raise"
    /\ owner' = "idle"
    /\ UNCHANGED <<running, opened, gaveUp, filmVars, openerVars, soundAt, then, encoders, late>>

\* The steps of a close or an open once it has begun.
OwnerGoesOn == QuietStream \/ QuietSound \/ TearDown \/ Raise \/ Refuse

-----------------------------------------------------------------------------

StreamNext ==
    \/ Opener
    \/ SoundBegins \/ SoundEnds
    \/ CloseBegins("close")
    \/ item < MaxOpens /\ CloseBegins("open")
    \/ OwnerGoesOn

StreamSpec == StreamInit /\ [][StreamNext]_streamVars

\* The worker's thread runs, the server answers or the read times out, and a
\* cut ends. The drawing thread's waits are bounded.
StreamFairSpec ==
    /\ StreamSpec
    /\ WF_streamVars(Opener /\ at' # at)
    /\ WF_streamVars(OwnerGoesOn)

-----------------------------------------------------------------------------
(* Properties.                                                             *)

\* As long as the waits came back in time, a film that is open is made of its
\* own parts only: its session, its segments, its pictures, its decoder, and
\* none of the film before it, whatever that one's pass was in the middle of.
AllOfOneFilm ==
    running =>
        /\ {stage, decoder} \subseteq {item, None}
        /\ rings \subseteq {item}
        /\ opened => session = item /\ segOf = item

FilmIsItsOwn == ~late => AllOfOneFilm

\* stream.c: "The workers must be OUT of a pass first". Nothing of a film is
\* left, or comes back, once it is closed: no decoder over the browser's
\* pages in video memory, no session, no segment and no sample.
ClosedIsClean ==
    ~late /\ owner = "idle" /\ ~running =>
        /\ decoder = None /\ ~soundOn /\ rings = {}
        /\ stage = None /\ ~opened
        /\ at = "out" /\ soundAt = "out"

\* Films one after another: nothing of one reaches the next or outlasts its
\* close.
FilmsApart == FilmIsItsOwn /\ ClosedIsClean

\* stream.h: an opening film's worker, its caller and the server's encoders
\* keep to what Opening promises, also when a wait has given up.
O == INSTANCE Opening WITH
        pass <- IF at = "asking" THEN "asking"
                ELSE IF at \in {"first", "firstwait"} THEN "starting" ELSE "none",
        film <- asked,
        call <- IF owner \in {"idle", "raise"} THEN owner ELSE then

OpeningSpec == O!Spec

\* A film that opens comes to play or to fail, unless it is closed first.
OpeningResolves ==
    running ~> (decoder # None \/ gaveUp \/ ~running)

=============================================================================
