------------------------------- MODULE Player -------------------------------
(***************************************************************************)
(* page/player.c between the two modules it drives: the stream, whose      *)
(* worker opens a play session at the server for every film and every      *)
(* seek (Opening), and the reports, whose worker tells the server what has *)
(* become of it (Reports). The page, the stream's two workers, the         *)
(* reports' worker and the connection all move on their own.               *)
(*                                                                         *)
(* A film here is one stream_open(): a seek makes another.                 *)
(***************************************************************************)
EXTENDS Naturals, Sequences

CONSTANTS
    MaxOpens,       \* of Opening
    ReportsMax, MaxCalls  \* of Reports

ASSUME PlayerAssumption == MaxOpens \in Nat /\ ReportsMax \in Nat \ {0} /\ MaxCalls \in Nat

VARIABLES
    running, opened, item, session, pass, film, call, encoders,     \* Opening
    queue, draining, job, ready, reporting, calls, told, sent, lost,
    replaced,                                                       \* Reports
    page,       \* "out", "film" between frames, or a place in end_session()
                \* and the stream_close() or stream_open() after it
    goes,       \* what follows the end of the session: "close" or "open"
    playing,    \* p->playing
    own         \* p->session: the film of the session the page goes by

S == INSTANCE Opening
R == INSTANCE Reports WITH Sessions <- 1 .. MaxOpens

streamVars == <<running, opened, item, session, pass, film, call, encoders>>
reportVars == <<queue, draining, job, ready, reporting, calls, told, sent, lost,
                replaced>>
pageVars   == <<page, goes, playing, own>>
playerVars == <<streamVars, reportVars, pageVars>>

None  == S!None
Films == S!Opens

PlayerTypeOK ==
    /\ S!TypeOK
    /\ R!ReportsTypeOK
    /\ page \in {"out", "film", "end", "stop", "off", "close", "closing"}
    /\ goes \in {"close", "open"}
    /\ playing \in BOOLEAN
    /\ own \in Films \cup {None}

PlayerInit ==
    /\ S!Init
    /\ R!ReportsInit
    /\ page = "out"
    /\ goes = "close"
    /\ playing = FALSE
    /\ own = None

-----------------------------------------------------------------------------
(* The page.                                                               *)

\* stream_session(): empty until the worker has opened the run.
stream_session == IF opened THEN session ELSE None

\* enter(): a page of its own for every film, which opens it at once.
Enter ==
    /\ page = "out"
    /\ item < MaxOpens
    /\ own' = None
    /\ page' = "end"
    /\ goes' = "open"
    /\ UNCHANGED <<streamVars, reportVars, playing>>

\* leave(): the viewer backs out or steps on, or the film ended or failed.
Leave ==
    /\ page = "film"
    /\ page' = "end"
    /\ goes' = "close"
    /\ UNCHANGED <<streamVars, reportVars, playing, own>>

\* A committed seek: open_at().
Seek ==
    /\ page = "film"
    /\ item < MaxOpens
    /\ page' = "end"
    /\ goes' = "open"
    /\ UNCHANGED <<streamVars, reportVars, playing, own>>

\* end_session() looks for a session the worker has opened since.
EndSession ==
    /\ page = "end"
    /\ own' = IF own = None THEN stream_session ELSE own
    /\ page' = IF own' = None THEN "close" ELSE "stop"
    /\ UNCHANGED <<streamVars, reportVars, goes, playing>>

TellStop ==
    /\ page = "stop"
    /\ R!reports_send("STOP", own)
    /\ page' = "off"
    /\ UNCHANGED <<streamVars, goes, playing, own>>

\* A slip: the page goes on by the session it has just ended.
TellOff_Keep ==
    /\ page = "off"
    /\ R!reports_send("ENCODING_OFF", own)
    /\ page' = "close"
    /\ UNCHANGED <<streamVars, goes, playing, own>>

TellOff ==
    /\ page = "off"
    /\ R!reports_send("ENCODING_OFF", own)
    /\ own' = None
    /\ page' = "close"
    /\ UNCHANGED <<streamVars, goes, playing>>

\* stream_close() or stream_open() is called ...
Closes ==
    /\ page = "close"
    /\ S!CloseBegins(goes)
    /\ page' = "closing"
    /\ UNCHANGED <<reportVars, goes, playing, own>>

\* ... and has returned.
Returns ==
    /\ page = "closing"
    /\ call = "idle"
    /\ page' = IF goes = "open" THEN "film" ELSE "out"
    /\ playing' = (goes = "open" /\ running)
    /\ UNCHANGED <<streamVars, reportVars, goes, own>>

\* frame() notices that the worker has opened the session.
TellStart ==
    /\ page = "film"
    /\ playing
    /\ own = None
    /\ stream_session # None
    /\ own' = stream_session
    /\ R!reports_send("START", own')
    /\ UNCHANGED <<streamVars, page, goes, playing>>

\* Ten seconds on, or the viewer paused or resumed.
TellProgress ==
    /\ page = "film"
    /\ own # None
    /\ R!reports_send("PROGRESS", own)
    /\ UNCHANGED <<streamVars, pageVars>>

Page ==
    \/ Enter \/ Leave \/ Seek
    \/ EndSession \/ TellStop \/ TellOff \/ Closes \/ Returns
    \/ TellStart \/ TellProgress

-----------------------------------------------------------------------------
(* The workers of the stream and of the reports.                           *)

StreamStep ==
    /\ S!Worker \/ S!CallGoesOn
    /\ UNCHANGED <<reportVars, pageVars>>

ReportStep ==
    /\ R!Serve \/ R!StageMoves
    /\ UNCHANGED <<streamVars, pageVars>>

\* The settings page is not over a film.
SettingMoves ==
    /\ page = "out"
    /\ R!PrefMoves
    /\ UNCHANGED <<streamVars, pageVars>>

PlayerNext == Page \/ StreamStep \/ ReportStep \/ SettingMoves

PlayerSpec == PlayerInit /\ [][PlayerNext]_playerVars

-----------------------------------------------------------------------------
(* Properties.                                                             *)

Is(j, what, f) == j.what = what /\ j.session = f

\* A report of this kind was made, waits, or was turned away.
Reported(what, f) == \E j \in R!In(R!Line) \cup lost : Is(j, what, f)

\* player.c: "the old one is stopped first or the server shows the film being
\* watched twice". The server hears of a new session only after it has heard
\* the end of every other it was told of -- unless the queue was full.
StoppedBeforeNext ==
    \A i \in DOMAIN sent : sent[i].what = "START" =>
        \A k \in 1 .. i - 1 : sent[k].what = "START" =>
            \/ \E m \in k .. i : Is(sent[m], "STOP", sent[k].session)
            \/ \E j \in lost : Is(j, "STOP", sent[k].session)

\* Nothing revives a session: once its end is told, no start and no position
\* of it follows, on whichever way round the replaced reports went.
NothingAfterStop ==
    \A i \in DOMAIN sent : sent[i].what = "STOP" =>
        \A k \in i + 1 .. Len(sent) :
            sent[k].what \in {"START", "PROGRESS"} => sent[k].session # sent[i].session

\* The server hears of one session at a time, and of none after its end.
SessionsInTurn == StoppedBeforeNext /\ NothingAfterStop

\* A session the server was told of is ended and its encoder turned off, as
\* far as the page is concerned, before the page goes on to another or goes.
ToldSessionsAreEnded ==
    page \in {"out", "film"} =>
        \A f \in Films \ {own} : Reported("START", f) =>
            Reported("STOP", f) /\ Reported("ENCODING_OFF", f)

\* player.c: "a viewer backing out mid-buffering would leave that transcode
\* running". No encoder is left behind that nobody turns off.
EncodersTurnedOff ==
    page \in {"out", "film"} =>
        \A f \in encoders : Reported("ENCODING_OFF", f) \/ (page = "film" /\ f = item)

\* reports.c: the queue is "Deeper than the player can fill before the worker
\* drains it", so an encoder's teardown never finds it full.
TeardownNeverLost == \A j \in lost : j.what # "ENCODING_OFF"

\* reports.h: "these queue in order; only a pending PROGRESS is replaced by a
\* later one". A position of a session follows the session's start.
ProgressAfterStart ==
    \A i \in DOMAIN sent : sent[i].what = "PROGRESS" =>
        \E k \in 1 .. i - 1 : Is(sent[k], "START", sent[i].session)

=============================================================================
