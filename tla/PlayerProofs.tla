---------------------------- MODULE PlayerProofs ----------------------------
(***************************************************************************)
(* The proofs about the player's page over its sessions (Player), about    *)
(* the clock a film plays by (PlayClock) and about the band over it        *)
(* (Band), for any number of films, reports and places in the queue, any   *)
(* turn of the clock and any pace of the keys; and about the segments it   *)
(* is cut from (Fmp4), for any that the server may send.                   *)
(*                                                                         *)
(* A session is a film's number, and films are numbered as they are        *)
(* opened. So a session the page may come upon is newer than any it has    *)
(* gone by (SessionsInv), and a STOP has been made of every session it has *)
(* gone by and left (EndsInv). What the server hears is the line of what   *)
(* was made (Reports' KeptInv), which keeps the order of the calls in all  *)
(* but the positions that were overtaken.                                  *)
(*                                                                         *)
(* An aim of the band is up, lasts and leaves the row no key (BandInv), by *)
(* every key of a frame and whatever the film says by its end.             *)
(***************************************************************************)
EXTENDS Player, PlayClock, Band, Fmp4, SequenceTheorems, WellFoundedInduction, TLAPS

-----------------------------------------------------------------------------
(* The page over its sessions: the invariant.                              *)

Jobs == R!Jobs
Made == R!Made
Kept == R!Kept

\* Every session the page has gone by is of an earlier film than this one.
Fresh(f) == own < f /\ \A j \in Made : j.session < f

\* A pass asks for a session only where there is none, and what it is answered
\* is of its film.
AnswersInv ==
    /\ pass # "none" => film \in Films /\ film <= item
    /\ pass = "asking" => session = None /\ ~opened
    /\ opened => session \in Films
    /\ running /\ ~opened => session = None
    /\ session <= item
    /\ page # "closing" => call = "idle"
    /\ call # "idle" => ~running

\* A session the page may still come upon is one it has not gone by: films are
\* numbered as they are opened, and a session is answered once.
SessionsInv ==
    /\ own <= item /\ \A j \in Made : j.session <= item
    /\ pass = "asking" => Fresh(film)
    /\ running /\ ~opened => Fresh(item)
    /\ opened /\ own = None
       /\ (page \in {"out", "film", "end"} \/ (page = "closing" /\ call \in {"raise", "idle"}))
       => Fresh(session)

PlaceInv ==
    /\ page \in {"out", "close", "closing"} => own = None
    /\ page \in {"stop", "off"} => own # None

\* How far the page is with the end of a session the server was told of.
EndsInv ==
    \A f \in Films : Reported("START", f) =>
        /\ f = own => reporting
        /\ f # own \/ page = "off" => Reported("STOP", f)
        /\ f # own => Reported("ENCODING_OFF", f)

\* What was reported of a session, by the calls that reported it.
NoStopOfOwn ==
    own # None /\ page # "off" => \A j \in Made : ~Is(j, "STOP", own)
StopIsLast ==
    \A j, k \in Made :
        j.what = "STOP" /\ k.session = j.session /\ k.what \in {"START", "PROGRESS"}
           => k.call < j.call
StopBetween ==
    \A j, k \in Kept :
        j.what = "START" /\ k.what = "START" /\ j.call < k.call
           => \E m \in Kept : Is(m, "STOP", j.session) /\ j.call < m.call /\ m.call < k.call

PlayerInv ==
    /\ PlayerTypeOK /\ R!KeptInv
    /\ AnswersInv /\ SessionsInv /\ PlaceInv /\ EndsInv
    /\ NoStopOfOwn /\ StopIsLast /\ StopBetween

-----------------------------------------------------------------------------
(* What its steps lean on.                                                 *)

LEMMA MadeFacts ==
    ASSUME PlayerTypeOK, R!KeptInv
    PROVE  /\ Made \subseteq Jobs /\ Kept \subseteq Made
           /\ \A j \in Made : j.call \in Nat /\ j.call <= calls /\ j.session \in Films
                              /\ j.session \in Nat
           /\ calls \in Nat
           /\ \A j \in Kept : j.what # "PROGRESS"
           /\ \A w, f : w # "PROGRESS" => (Reported(w, f) <=> \E j \in Kept : Is(j, w, f))
<1>1. queue \in Seq(Jobs) /\ sent \in Seq(Jobs) /\ lost \subseteq Jobs /\ replaced \subseteq Jobs
      /\ calls \in 0 .. MaxCalls /\ told \subseteq 1 .. calls
    BY DEF PlayerTypeOK, R!ReportsTypeOK, Jobs
<1>2. R!Line \in Seq(Jobs)
    BY <1>1 DEF R!Line
<1>3. R!In(R!Line) \subseteq Jobs
    BY <1>2 DEF R!In
<1>4. Made \subseteq Jobs /\ Kept \subseteq Made
    BY <1>1, <1>3 DEF Made, Kept, R!Made, R!Kept
<1>5. \A j \in Made : j.call \in told
    BY DEF Made, R!Made, R!KeptInv, R!Accounted
<1>6. calls \in Nat /\ \A j \in Made : j.call \in Nat /\ j.call <= calls
    <2>1. calls \in Nat
        BY <1>1, PlayerAssumption
    <2>2. \A c \in told : c \in Nat /\ c <= calls
        BY <1>1, <2>1
    <2> QED BY <1>5, <2>1, <2>2
<1>7. \A j \in Made : j.session \in Films /\ j.session \in Nat
    BY <1>4, PlayerAssumption DEF Jobs, R!Jobs, Films, S!Opens
<1> QED BY <1>4, <1>6, <1>7 DEF Kept, R!Kept, Reported, Is

LEMMA TellFacts ==
    ASSUME PlayerTypeOK, R!KeptInv, NEW w \in R!Whats, NEW f \in Films, R!reports_send(w, f)
    PROVE  /\ R!ReportsTypeOK' /\ R!KeptInv' /\ reporting' = reporting /\ calls' = calls + 1
           /\ \E j : /\ Is(j, w, f) /\ j.call = calls + 1
                     /\ Made' = IF R!Told(w) THEN Made \cup {j} ELSE Made
                     /\ Kept' = IF R!Told(w) /\ w # "PROGRESS" THEN Kept \cup {j} ELSE Kept
<1>1. R!ReportsTypeOK /\ f \in 1 .. MaxOpens
    BY DEF PlayerTypeOK, Films, S!Opens
<1>2. R!ReportsNext
    BY <1>1 DEF R!ReportsNext
<1>3. R!ReportsTypeOK'
    BY <1>1, <1>2, PlayerAssumption, R!ReportsTyped
<1>4. R!KeptInv'
    BY <1>1, <1>2, PlayerAssumption, R!ReportsStep
<1>5. PICK j : j = [what |-> w, session |-> f, call |-> calls + 1]
    OBVIOUS
<1>6. /\ R!Told(w) => Made' = Made \cup {j}
      /\ ~R!Told(w) => Made' = Made
      /\ R!Told(w) /\ w # "PROGRESS" => Kept' = Kept \cup {j}
      /\ ~(R!Told(w) /\ w # "PROGRESS") => Kept' = Kept
    BY <1>1, <1>5, PlayerAssumption, R!SendMakes DEF Made, Kept
<1>7. reporting' = reporting /\ calls' = calls + 1
    BY DEF R!reports_send
<1> QED BY <1>3, <1>4, <1>5, <1>6, <1>7 DEF Is

LEMMA ReportsStand ==
    ASSUME PlayerTypeOK, R!KeptInv, UNCHANGED reportVars
    PROVE  /\ R!ReportsTypeOK' /\ R!KeptInv' /\ Made' = Made /\ Kept' = Kept
           /\ reporting' = reporting
<1>1. UNCHANGED R!reportsVars
    BY DEF reportVars, R!reportsVars
<1>2. R!ReportsTypeOK /\ [R!ReportsNext]_R!reportsVars
    BY <1>1 DEF PlayerTypeOK
<1>3. R!ReportsTypeOK'
    BY <1>2, PlayerAssumption, R!ReportsTyped
<1>4. R!KeptInv'
    BY <1>2, PlayerAssumption, R!ReportsStep
<1>5. R!Line' = R!Line
    BY DEF reportVars, R!Line
<1> QED BY <1>3, <1>4, <1>5 DEF reportVars, Made, Kept, R!Made, R!Kept

\* How far a session's end is told is the same when no report is made and the
\* page goes by the same session.
LEMMA EndsStand ==
    ASSUME PlayerInv, Made' = Made, Kept' = Kept, PlayerTypeOK', R!KeptInv',
           own' = own, page' # "off", page # "off",
           \A f \in Films : f = own => reporting' = reporting
    PROVE  EndsInv' /\ NoStopOfOwn' /\ StopIsLast' /\ StopBetween'
<1>1. \A w, f : w # "PROGRESS" => (Reported(w, f) <=> \E j \in Kept : Is(j, w, f))
    BY DEF Reported, Is, Kept, R!Kept
<1>2. \A w, f : w # "PROGRESS" => (Reported(w, f)' <=> \E j \in Kept' : Is(j, w, f))
    BY DEF Reported, Is, Kept, R!Kept
<1> QED BY <1>1, <1>2 DEF PlayerInv, EndsInv, NoStopOfOwn, StopIsLast, StopBetween

-----------------------------------------------------------------------------
(* The page, between reports.                                              *)

LEMMA PageTypes ==
    ASSUME PlayerInv
    PROVE  /\ own \in Nat /\ item \in Nat /\ session \in Nat /\ film \in Nat
           /\ Films \subseteq Nat \ {0} /\ None = 0 /\ None \notin Films
           /\ \A j \in Made : j.session \in Nat /\ j.session \in Films
BY MadeFacts, PlayerAssumption DEF PlayerInv, PlayerTypeOK, S!TypeOK, Films, None, S!Opens, S!None

LEMMA PageMoves ==
    ASSUME PlayerInv, Enter \/ Leave \/ Seek \/ Closes \/ Returns
    PROVE  PlayerInv'
<1> USE DEF streamVars
<1>1. UNCHANGED reportVars /\ own' = own
    <2>1. own = None => own' = own \/ own' = None
        BY DEF Enter, Leave, Seek, Closes, Returns
    <2>2. Enter => own = None
        BY DEF Enter, PlayerInv, PlaceInv
    <2> QED BY <2>2 DEF Enter, Leave, Seek, Closes, Returns
<1>2. UNCHANGED <<opened, item, session, pass, film, encoders>>
    BY DEF Enter, Leave, Seek, Closes, Returns, S!CloseBegins
<1>3. /\ R!ReportsTypeOK' /\ R!KeptInv' /\ Made' = Made /\ Kept' = Kept /\ reporting' = reporting
    BY <1>1, ReportsStand DEF PlayerInv
<1>4. PlayerTypeOK'
    <2>1. S!TypeOK'
        <3>1. running' \in BOOLEAN
            BY Zenon DEF Enter, Leave, Seek, Closes, Returns, S!CloseBegins, PlayerInv, PlayerTypeOK,
                         S!TypeOK
        <3>2. call' \in {"idle", "close", "open", "raise"}
            BY DEF Enter, Leave, Seek, Closes, Returns, S!CloseBegins, PlayerInv, PlayerTypeOK,
                   S!TypeOK
        <3> QED BY <1>2, <3>1, <3>2 DEF PlayerInv, PlayerTypeOK, S!TypeOK
    <2>2. page' \in {"out", "film", "end", "stop", "off", "close", "closing"} /\ goes' \in {"close", "open"}
        BY DEF Enter, Leave, Seek, Closes, Returns, PlayerInv, PlayerTypeOK
    <2>3. playing' \in BOOLEAN
        BY Zenon DEF Enter, Leave, Seek, Closes, Returns, PlayerInv, PlayerTypeOK
    <2> QED BY <1>1, <1>3, <2>1, <2>2, <2>3 DEF PlayerInv, PlayerTypeOK
<1>5. AnswersInv'
    BY <1>2 DEF PlayerInv, AnswersInv, Enter, Leave, Seek, Closes, Returns, S!CloseBegins, PlayerTypeOK
<1>6. PlaceInv'
    BY <1>1 DEF PlayerInv, PlaceInv, Enter, Leave, Seek, Closes, Returns
<1>7. SessionsInv'
    <2>1. \A f : Fresh(f)' <=> Fresh(f)
        BY <1>1, <1>3 DEF Fresh
    <2>2. running' => running
        BY DEF Enter, Leave, Seek, Closes, Returns, S!CloseBegins
    <2>3. (page' \in {"out", "film", "end"} \/ (page' = "closing" /\ call' \in {"raise", "idle"}))
          => (page \in {"out", "film", "end"} \/ (page = "closing" /\ call \in {"raise", "idle"}))
        BY DEF Enter, Leave, Seek, Closes, Returns, S!CloseBegins, PlayerInv, PlayerTypeOK
    <2> QED BY <1>1, <1>2, <1>3, <2>1, <2>2, <2>3 DEF PlayerInv, SessionsInv
<1>8. EndsInv' /\ NoStopOfOwn' /\ StopIsLast' /\ StopBetween'
    <2>1. page # "off" /\ page' # "off"
        BY DEF Enter, Leave, Seek, Closes, Returns
    <2> QED BY <1>1, <1>3, <1>4, <2>1, EndsStand
<1> QED BY <1>3, <1>4, <1>5, <1>6, <1>7, <1>8 DEF PlayerInv

\* end_session() finds out which session it ends.
LEMMA EndSessionStep == ASSUME PlayerInv, EndSession PROVE PlayerInv'
<1>1. UNCHANGED <<streamVars, reportVars, goes, playing>> /\ page = "end"
      /\ own' = (IF own = None THEN stream_session ELSE own)
      /\ page' = (IF own' = None THEN "close" ELSE "stop")
    BY DEF EndSession
<1>2. /\ R!ReportsTypeOK' /\ R!KeptInv' /\ Made' = Made /\ Kept' = Kept /\ reporting' = reporting
    BY <1>1, ReportsStand DEF PlayerInv
<1>3. own' = own \/ (own = None /\ opened /\ own' = session /\ session \in Films)
    BY <1>1 DEF stream_session, PlayerInv, AnswersInv
<1>4. PlayerTypeOK'
    BY <1>1, <1>2, <1>3 DEF PlayerInv, PlayerTypeOK, S!TypeOK, streamVars
<1>5. AnswersInv'
    BY <1>1 DEF PlayerInv, AnswersInv, streamVars
<1>6. PlaceInv'
    BY <1>1 DEF PlayerInv, PlaceInv
<1>7. page' \in {"close", "stop"} /\ (page' = "close" => own' = None) /\ (own' = own => own = None \/ page' = "stop")
    BY <1>1
<1>8. SessionsInv'
    <2>1. \A f : Fresh(f) /\ own' < f => Fresh(f)'
        BY <1>2 DEF Fresh
    <2>2. CASE own' = own
        <3>1. \A f : Fresh(f)' <=> Fresh(f)
            BY <1>2, <2>2 DEF Fresh
        <3> QED BY <1>1, <1>2, <1>7, <2>2, <3>1 DEF PlayerInv, SessionsInv, streamVars
    <2>3. CASE own = None /\ opened /\ own' = session /\ session \in Films
        <3>1. pass # "asking" /\ own' # None /\ session <= item
            BY <2>3, PageTypes DEF PlayerInv, AnswersInv
        <3> QED BY <1>1, <1>2, <2>3, <3>1 DEF PlayerInv, SessionsInv, streamVars
    <2> QED BY <1>3, <2>2, <2>3
<1>9. EndsInv' /\ NoStopOfOwn' /\ StopIsLast' /\ StopBetween'
    <2>1. CASE own' = own
        BY <1>1, <1>2, <1>4, <1>7, <2>1, EndsStand
    <2>2. CASE own = None /\ opened /\ own' = session /\ session \in Films
        <3>1. \A j \in Made : j.session < session
            BY <1>1, <2>2 DEF PlayerInv, SessionsInv, Fresh
        <3>2. \A j \in Made : j.session # session
            BY <3>1, PageTypes
        <3>3. \A w, f : w # "PROGRESS" => (Reported(w, f)' <=> Reported(w, f))
            BY <1>2 DEF Reported, Is, Kept, R!Kept
        <3>4. ~Reported("START", session)
            BY <3>2 DEF Reported, Is, Made, R!Made
        <3>5. EndsInv'
            BY <1>7, <2>2, <3>3, <3>4, PageTypes DEF PlayerInv, EndsInv
        <3>6. NoStopOfOwn'
            BY <1>2, <2>2, <3>2 DEF NoStopOfOwn, Is
        <3> QED BY <1>2, <3>5, <3>6 DEF PlayerInv, StopIsLast, StopBetween
    <2> QED BY <1>3, <2>1, <2>2
<1> QED BY <1>2, <1>4, <1>5, <1>6, <1>8, <1>9 DEF PlayerInv

-----------------------------------------------------------------------------
(* The page's reports.                                                     *)

\* The report and the rest of the page's step.
LEMMA TellTypes ==
    ASSUME PlayerInv, TellStart \/ TellProgress \/ TellStop \/ TellOff
    PROVE  PlayerTypeOK' /\ R!KeptInv' /\ AnswersInv' /\ PlaceInv' /\ reporting' = reporting
           /\ UNCHANGED streamVars
<1>1. PlayerTypeOK /\ R!KeptInv /\ AnswersInv /\ PlaceInv
    BY DEF PlayerInv
<1>2. UNCHANGED <<streamVars, goes, playing>>
    BY DEF TellStart, TellProgress, TellStop, TellOff, pageVars
<1>3. \E w \in R!Whats, f \in Films : R!reports_send(w, f)
    <2>1. TellStart => own' \in Films /\ R!reports_send("START", own')
        BY <1>1 DEF TellStart, stream_session, AnswersInv
    <2>2. TellProgress \/ TellStop \/ TellOff
          => own \in Films /\ (\/ R!reports_send("PROGRESS", own) \/ R!reports_send("STOP", own)
                               \/ R!reports_send("ENCODING_OFF", own))
        BY <1>1 DEF TellProgress, TellStop, TellOff, PlayerTypeOK, PlaceInv
    <2> QED BY <2>1, <2>2 DEF R!Whats
<1>4. R!ReportsTypeOK' /\ R!KeptInv' /\ reporting' = reporting
    BY <1>1, <1>3, TellFacts
<1>5. own' \in Films \cup {None}
    BY <1>1 DEF TellStart, TellProgress, TellStop, TellOff, pageVars, stream_session, AnswersInv,
                PlayerTypeOK
<1>6. page' \in {"out", "film", "end", "stop", "off", "close", "closing"}
    BY <1>1 DEF TellStart, TellProgress, TellStop, TellOff, pageVars, PlayerTypeOK
<1>7. PlayerTypeOK'
    BY <1>1, <1>2, <1>4, <1>5, <1>6 DEF PlayerTypeOK, S!TypeOK, streamVars
<1>8. AnswersInv'
    BY <1>1, <1>2 DEF AnswersInv, streamVars, TellStart, TellProgress, TellStop, TellOff, pageVars
<1>9. PlaceInv'
    BY <1>1 DEF PlaceInv, TellStart, TellProgress, TellStop, TellOff, pageVars
<1> QED BY <1>2, <1>4, <1>7, <1>8, <1>9

\* What a report of the session the page goes by leaves as it was.
LEMMA TellKeeps ==
    ASSUME PlayerInv, TellStart \/ TellProgress \/ TellStop \/ TellOff,
           NEW j, NEW f \in Films, j.session = f, own \in {f, None}, own' \in {f, None},
           f <= item, Made' = Made \/ Made' = Made \cup {j},
           f = own \/ (opened /\ session = f)
    PROVE  SessionsInv'
<1>1. AnswersInv /\ SessionsInv /\ PlaceInv /\ UNCHANGED streamVars
    BY TellTypes DEF PlayerInv
<1>2. \A i \in Made' : i \in Made \/ i.session = f
    OBVIOUS
<1>3. ASSUME NEW x \in Nat, Fresh(x), f < x PROVE Fresh(x)'
    <2>1. own' < x
        BY <1>3, PageTypes
    <2> QED BY <1>2, <1>3, <2>1 DEF Fresh
<1>4. own' <= item /\ \A i \in Made' : i.session <= item
    BY <1>1, <1>2, PageTypes DEF SessionsInv
<1>5. pass = "asking" => f < film /\ Fresh(film)
    BY <1>1, PageTypes DEF SessionsInv, AnswersInv, Fresh
<1>6. running /\ ~opened => f < item /\ Fresh(item)
    BY <1>1, PageTypes DEF SessionsInv, Fresh
<1>7. own' = None => page' \notin {"out", "film", "end"} /\ page' # "closing"
    BY <1>1, PageTypes DEF TellStart, TellProgress, TellStop, TellOff, pageVars, stream_session,
                           PlaceInv
<1>8. film \in Nat /\ item \in Nat
    BY PageTypes
<1> QED BY <1>1, <1>3, <1>4, <1>5, <1>6, <1>7, <1>8 DEF SessionsInv, streamVars

LEMMA TellStartStep == ASSUME PlayerInv, TellStart PROVE PlayerInv'
<1>1. page = "film" /\ page' = "film" /\ own = None /\ opened /\ own' = session /\ own' \in Films
      /\ R!reports_send("START", own')
    BY DEF TellStart, stream_session, PlayerInv, AnswersInv
<1>2. PICK f \in Films : f = session
    BY <1>1
<1>3. PICK j : /\ Is(j, "START", f) /\ j.call = calls + 1 /\ calls' = calls + 1
               /\ Made' = IF reporting THEN Made \cup {j} ELSE Made
               /\ Kept' = IF reporting THEN Kept \cup {j} ELSE Kept
    BY <1>1, <1>2, TellFacts DEF PlayerInv, R!Told, R!Whats
<1>4. PlayerTypeOK' /\ R!KeptInv' /\ AnswersInv' /\ PlaceInv' /\ reporting' = reporting
    BY TellTypes
<1>5. \A i \in Made : i.session \in Nat /\ i.session < f /\ i.session # f
    BY <1>1, <1>2, PageTypes DEF PlayerInv, SessionsInv, Fresh
<1>6. \A i \in Made : i.call \in Nat /\ i.call <= calls /\ calls \in Nat
    BY MadeFacts DEF PlayerInv
<1>7. Kept \subseteq Made /\ \A w, g : w # "PROGRESS" => (Reported(w, g) <=> \E i \in Kept : Is(i, w, g))
    BY MadeFacts DEF PlayerInv
<1>8. \A w, g : w # "PROGRESS" => (Reported(w, g)' <=> \E i \in Kept' : Is(i, w, g))
    BY DEF Reported, Is, Kept, R!Kept
<1>9. SessionsInv'
    <2>1. f <= item
        BY <1>2 DEF PlayerInv, AnswersInv
    <2> QED BY <1>1, <1>2, <1>3, <2>1, TellKeeps DEF Is
<1>10. EndsInv'
    <2> SUFFICES ASSUME NEW g \in Films, Reported("START", g)'
                 PROVE  /\ g = f => reporting
                        /\ g # f => Reported("STOP", g)' /\ Reported("ENCODING_OFF", g)'
        BY <1>1, <1>2, <1>4 DEF EndsInv
    <2>1. PICK i \in Kept' : Is(i, "START", g)
        BY <1>8
    <2>2. CASE i \in Kept
        <3>1. Reported("START", g) /\ g # f /\ g # own
            BY <1>1, <1>5, <1>7, <2>1, <2>2, PageTypes DEF Is
        <3>2. Reported("STOP", g) /\ Reported("ENCODING_OFF", g)
            BY <3>1 DEF PlayerInv, EndsInv
        <3> QED BY <1>3, <1>7, <1>8, <3>1, <3>2
    <2>3. CASE i = j /\ reporting
        BY <1>3, <2>1, <2>3 DEF Is
    <2> QED BY <1>3, <2>2, <2>3
<1>11. NoStopOfOwn'
    BY <1>1, <1>2, <1>3, <1>5 DEF NoStopOfOwn, Is
<1>12. StopIsLast'
    BY <1>3, <1>5 DEF PlayerInv, StopIsLast, Is
<1>13. StopBetween'
    <2> SUFFICES ASSUME NEW i \in Kept', NEW k \in Kept', i.what = "START", k.what = "START",
                        i.call < k.call
                 PROVE  \E m \in Kept' : Is(m, "STOP", i.session) /\ i.call < m.call /\ m.call < k.call
        BY DEF StopBetween
    <2>1. i \in Kept
        BY <1>3, <1>6, <1>7
    <2>2. CASE k \in Kept
        BY <1>3, <2>1, <2>2 DEF PlayerInv, StopBetween
    <2>3. CASE k = j
        <3>1. PICK g \in Films : g = i.session /\ g # own
            BY <1>1, <1>7, <2>1, PageTypes
        <3>2. Reported("START", g)
            BY <1>7, <2>1, <3>1 DEF Is
        <3>3. PICK m \in Kept : Is(m, "STOP", g)
            BY <1>7, <3>1, <3>2 DEF PlayerInv, EndsInv
        <3>4. i.call < m.call
            BY <1>7, <2>1, <3>1, <3>3 DEF PlayerInv, StopIsLast, Is
        <3>5. m.call < k.call /\ m \in Kept'
            BY <1>3, <1>6, <1>7, <2>3, <3>3
        <3> QED BY <3>1, <3>3, <3>4, <3>5
    <2> QED BY <1>3, <2>2, <2>3
<1> QED BY <1>4, <1>9, <1>10, <1>11, <1>12, <1>13 DEF PlayerInv

\* A position, or an end, of the session the page goes by.
LEMMA TellOwnStep == ASSUME PlayerInv, TellProgress \/ TellStop \/ TellOff PROVE PlayerInv'
<1>1. own \in Films /\ own # None /\ page \in {"film", "stop", "off"}
      /\ own' = (IF page = "off" THEN None ELSE own)
      /\ page' = (IF page = "stop" THEN "off" ELSE IF page = "off" THEN "close" ELSE page)
    BY DEF TellProgress, TellStop, TellOff, PlayerInv, PlaceInv, PlayerTypeOK, pageVars
<1>2. PICK w \in R!Whats :
         /\ w = IF page = "film" THEN "PROGRESS" ELSE IF page = "stop" THEN "STOP" ELSE "ENCODING_OFF"
         /\ R!reports_send(w, own)
    <2>1. page = "film" => TellProgress
        BY DEF TellProgress, TellStop, TellOff
    <2>2. page = "stop" => TellStop
        BY DEF TellProgress, TellStop, TellOff
    <2>3. page = "off" => TellOff
        BY DEF TellProgress, TellStop, TellOff
    <2> QED BY <1>1, <2>1, <2>2, <2>3 DEF TellProgress, TellStop, TellOff, R!Whats
<1>3. PICK f \in Films : f = own
    BY <1>1
<1>4. PICK j : /\ Is(j, w, f) /\ j.call = calls + 1 /\ calls' = calls + 1
               /\ Made' = IF R!Told(w) THEN Made \cup {j} ELSE Made
               /\ Kept' = IF R!Told(w) /\ w # "PROGRESS" THEN Kept \cup {j} ELSE Kept
    BY <1>2, <1>3, TellFacts DEF PlayerInv
<1>5. PlayerTypeOK' /\ R!KeptInv' /\ AnswersInv' /\ PlaceInv' /\ reporting' = reporting
    BY TellTypes
<1>6. \A i \in Made : i.call \in Nat /\ i.call <= calls /\ calls \in Nat
    BY MadeFacts DEF PlayerInv
<1>7. Kept \subseteq Made /\ \A v, g : v # "PROGRESS" => (Reported(v, g) <=> \E i \in Kept : Is(i, v, g))
    BY MadeFacts DEF PlayerInv
<1>8. \A v, g : v # "PROGRESS" => (Reported(v, g)' <=> \E i \in Kept' : Is(i, v, g))
    BY DEF Reported, Is, Kept, R!Kept
<1>9. Kept \subseteq Kept'
    BY <1>4
<1>10. SessionsInv'
    <2>1. f <= item /\ f = own /\ own \in {f, None} /\ own' \in {f, None}
        BY <1>1, <1>3 DEF PlayerInv, SessionsInv
    <2>2. j.session = f /\ (Made' = Made \/ Made' = Made \cup {j})
        BY <1>4 DEF Is
    <2>3. TellStart \/ TellProgress \/ TellStop \/ TellOff
        OBVIOUS
    <2>4. f = own \/ (opened /\ session = f)
        BY <2>1
    <2> QED BY <2>1, <2>2, <2>3, <2>4, TellKeeps, Zenon
<1>11. EndsInv'
    <2> SUFFICES ASSUME NEW g \in Films, Reported("START", g)'
                 PROVE  /\ g = own' => reporting
                        /\ g # own' \/ page' = "off" => Reported("STOP", g)'
                        /\ g # own' => Reported("ENCODING_OFF", g)'
        BY <1>5 DEF EndsInv
    <2>1. PICK i \in Kept' : Is(i, "START", g)
        BY <1>8
    <2>2. i \in Kept
        BY <1>2, <1>4, <2>1 DEF Is
    <2>3. Reported("START", g)
        BY <1>7, <2>1, <2>2
    <2>4. /\ g = f => reporting
          /\ g # f \/ page = "off" => Reported("STOP", g)
          /\ g # f => Reported("ENCODING_OFF", g)
        BY <1>3, <2>3 DEF PlayerInv, EndsInv
    <2>5. \A v : v # "PROGRESS" /\ Reported(v, g) => Reported(v, g)'
        BY <1>7, <1>8, <1>9
    <2>6. CASE page = "film"
        BY <1>1, <1>3, <2>4, <2>5, <2>6
    <2>7. CASE page = "stop"
        <3>1. g = f => Reported("STOP", g)'
            BY <1>2, <1>4, <1>8, <2>4, <2>7 DEF R!Told, Is
        <3> QED BY <1>1, <1>3, <2>4, <2>5, <2>7, <3>1
    <2>8. CASE page = "off"
        <3>1. g = f => Reported("ENCODING_OFF", g)'
            BY <1>2, <1>4, <1>8, <2>8 DEF R!Told, Is
        <3>2. own' = None /\ g # own'
            BY <1>1, <2>8, PageTypes
        <3> QED BY <2>4, <2>5, <2>8, <3>1, <3>2, <1>1
    <2> QED BY <1>1, <2>6, <2>7, <2>8
<1>12. NoStopOfOwn'
    BY <1>1, <1>2, <1>4 DEF PlayerInv, NoStopOfOwn, Is
<1>13. StopIsLast'
    <2> SUFFICES ASSUME NEW i \in Made', NEW k \in Made', i.what = "STOP", k.session = i.session,
                        k.what \in {"START", "PROGRESS"}
                 PROVE  k.call < i.call
        BY DEF StopIsLast
    <2>1. CASE i \in Made /\ k \in Made
        BY <2>1 DEF PlayerInv, StopIsLast
    <2>2. CASE i = j /\ k \in Made
        BY <1>4, <1>6, <2>2
    <2>3. CASE k = j
        <3>1. w = "PROGRESS" /\ page = "film" /\ i # j /\ i \in Made
            BY <1>1, <1>2, <1>4, <2>3 DEF Is
        <3>2. ~Is(i, "STOP", own)
            BY <1>1, <3>1 DEF PlayerInv, NoStopOfOwn
        <3> QED BY <1>3, <1>4, <2>3, <3>2 DEF Is
    <2> QED BY <1>4, <2>1, <2>2, <2>3
<1>14. StopBetween'
    <2>1. \A i \in Kept' : i.what = "START" => i \in Kept
        BY <1>2, <1>4 DEF Is
    <2> QED BY <1>9, <2>1 DEF PlayerInv, StopBetween
<1> QED BY <1>5, <1>10, <1>11, <1>12, <1>13, <1>14 DEF PlayerInv

-----------------------------------------------------------------------------
(* The workers.                                                            *)

LEMMA StreamWorks == ASSUME PlayerInv, StreamStep PROVE PlayerInv'
<1>1. UNCHANGED reportVars /\ UNCHANGED pageVars /\ (S!Worker \/ S!CallGoesOn)
    BY DEF StreamStep
<1>2. /\ R!ReportsTypeOK' /\ R!KeptInv' /\ Made' = Made /\ Kept' = Kept /\ reporting' = reporting
      /\ own' = own /\ page' = page
    BY <1>1, ReportsStand DEF PlayerInv, pageVars
<1>3. PlayerTypeOK /\ AnswersInv /\ SessionsInv /\ PlaceInv /\ S!TypeOK
    BY DEF PlayerInv, PlayerTypeOK
<1>4. S!TypeOK'
    <2>1. running' \in BOOLEAN /\ opened' \in BOOLEAN
        <3>1. running \in BOOLEAN /\ opened \in BOOLEAN
            BY <1>3 DEF S!TypeOK
        <3> QED BY <1>1, <3>1, Zenon DEF S!Worker, S!Ask, S!Answer, S!Encode, S!Done, S!CallGoesOn,
                                         S!Down, S!Raise, S!Refuse
    <2>2. item' \in S!Opens \cup {S!None} /\ session' \in S!Opens \cup {S!None}
          /\ film' \in S!Opens \cup {S!None}
        BY <1>1, <1>3, PlayerAssumption
           DEF S!Worker, S!Ask, S!Answer, S!Encode, S!Done, S!CallGoesOn, S!Down, S!Raise, S!Refuse,
               S!TypeOK, S!Opens, S!None
    <2>3. pass' \in {"none", "asking", "starting"} /\ call' \in {"idle", "close", "open", "raise"}
        BY <1>1, <1>3
           DEF S!Worker, S!Ask, S!Answer, S!Encode, S!Done, S!CallGoesOn, S!Down, S!Raise, S!Refuse,
               S!TypeOK
    <2>4. encoders' \subseteq S!Opens
        BY <1>1, <1>3
           DEF S!Worker, S!Ask, S!Answer, S!Encode, S!Done, S!CallGoesOn, S!Down, S!Raise, S!Refuse,
               S!TypeOK, AnswersInv, Films
    <2> QED BY <2>1, <2>2, <2>3, <2>4 DEF S!TypeOK
<1>5. PlayerTypeOK'
    BY <1>1, <1>2, <1>3, <1>4 DEF PlayerTypeOK, pageVars
<1>6. PlaceInv'
    BY <1>2, <1>3 DEF PlaceInv
<1>7. EndsInv' /\ NoStopOfOwn' /\ StopIsLast' /\ StopBetween'
    <2>1. \A w, f : w # "PROGRESS" => (Reported(w, f)' <=> Reported(w, f))
        BY <1>2 DEF Reported, Is, Kept, R!Kept
    <2> QED BY <1>2, <2>1 DEF PlayerInv, EndsInv, NoStopOfOwn, StopIsLast, StopBetween
<1>8. \A x : Fresh(x)' <=> Fresh(x)
    BY <1>2 DEF Fresh
<1>9. AnswersInv' /\ SessionsInv'
    <2> USE DEF AnswersInv, SessionsInv
    <2>1. CASE S!Ask
        <3>1. item # 0 /\ item \in Films
            <4>1. own < item
                BY <1>3, <2>1 DEF S!Ask, Fresh
            <4> QED BY <1>3, <4>1, PageTypes DEF S!TypeOK, Films, None
        <3> QED BY <1>2, <1>3, <1>8, <2>1, <3>1, PageTypes DEF S!Ask
    <2>2. CASE S!Answer
        BY <1>2, <1>3, <1>8, <2>2, PageTypes DEF S!Answer
    <2>3. CASE S!Encode \/ S!Done
        BY <1>2, <1>3, <1>8, <2>3, PageTypes DEF S!Encode, S!Done
    <2>4. CASE S!Down
        BY <1>2, <1>3, <1>8, <2>4, PageTypes DEF S!Down
    <2>5. CASE S!Refuse
        BY <1>2, <1>3, <1>8, <2>5, PageTypes DEF S!Refuse
    <2>6. CASE S!Raise
        <3>1. item' = item + 1 /\ running' /\ ~opened' /\ session' = None /\ call' = "idle"
              /\ UNCHANGED <<pass, film>>
            BY <2>6 DEF S!Raise, None
        <3>2. Fresh(item + 1)
            BY <1>3, PageTypes DEF Fresh
        <3>3. own <= item + 1 /\ \A i \in Made : i.session <= item + 1
            BY <1>3, PageTypes
        <3>4. item \in Nat /\ film \in Nat
            BY PageTypes
        <3> QED BY <1>2, <1>3, <1>8, <3>1, <3>2, <3>3, <3>4, PageTypes
    <2> QED BY <1>1, <2>1, <2>2, <2>3, <2>4, <2>5, <2>6 DEF S!Worker, S!CallGoesOn
<1> QED BY <1>2, <1>5, <1>6, <1>7, <1>9 DEF PlayerInv

LEMMA OthersWork ==
    ASSUME PlayerInv, ReportStep \/ SettingMoves
    PROVE  PlayerInv'
<1>1. /\ R!Serve \/ R!StageMoves \/ R!PrefMoves
      /\ UNCHANGED streamVars /\ UNCHANGED pageVars
    BY DEF ReportStep, SettingMoves
<1>2. R!ReportsTypeOK /\ R!KeptInv /\ R!ReportsNext
    BY <1>1 DEF PlayerInv, PlayerTypeOK, R!ReportsNext
<1>3. R!ReportsTypeOK'
    BY <1>2, PlayerAssumption, R!ReportsTyped
<1>4. R!KeptInv'
    BY <1>2, PlayerAssumption, R!ReportsStep
<1>5. Made' = Made /\ Kept' = Kept
    BY <1>1, <1>2, PlayerAssumption, R!OthersMake DEF Made, Kept
<1>6. page' = page /\ own' = own /\ (page = "out" \/ reporting' = reporting)
    <2>1. R!Serve \/ R!StageMoves => reporting' = reporting
        BY DEF R!Serve, R!Begins, R!reports_take, R!Answers, R!Ends, R!StageMoves
    <2> QED BY <1>1, <2>1 DEF ReportStep, SettingMoves, pageVars
<1>7. PlayerTypeOK'
    BY <1>1, <1>3 DEF PlayerInv, PlayerTypeOK, S!TypeOK, streamVars, pageVars
<1>8. AnswersInv' /\ PlaceInv'
    BY <1>1, <1>6 DEF PlayerInv, AnswersInv, PlaceInv, streamVars
<1>9. SessionsInv'
    <2>1. \A x : Fresh(x)' <=> Fresh(x)
        BY <1>5, <1>6 DEF Fresh
    <2> QED BY <1>1, <1>5, <1>6, <2>1 DEF PlayerInv, SessionsInv, streamVars
<1>10. EndsInv'
    <2>1. \A w, f : w # "PROGRESS" => (Reported(w, f)' <=> Reported(w, f))
        BY <1>5 DEF Reported, Is, Kept, R!Kept
    <2>2. \A f \in Films : f = own => reporting' = reporting
        BY <1>6, PageTypes DEF PlayerInv, PlaceInv
    <2> QED BY <1>6, <2>1, <2>2 DEF PlayerInv, EndsInv
<1>11. NoStopOfOwn' /\ StopIsLast' /\ StopBetween'
    BY <1>5, <1>6 DEF PlayerInv, NoStopOfOwn, StopIsLast, StopBetween
<1> QED BY <1>3, <1>4, <1>7, <1>8, <1>9, <1>10, <1>11 DEF PlayerInv

-----------------------------------------------------------------------------
(* Together.                                                               *)

LEMMA PlayerBegins == PlayerInit => PlayerInv
<1> SUFFICES ASSUME PlayerInit PROVE PlayerInv
    OBVIOUS
<1>1. R!ReportsTypeOK /\ R!KeptInv
    BY PlayerAssumption, R!ReportsStartTyped, R!ReportsBegin DEF PlayerInit
<1>2. Made = {} /\ Kept = {}
    <2>1. R!Line = <<>>
        BY DEF PlayerInit, R!ReportsInit, R!Line
    <2> QED BY <2>1 DEF Made, Kept, R!Made, R!Kept, R!In, PlayerInit, R!ReportsInit
<1>3. PlayerTypeOK
    <2>1. S!TypeOK
        <3>1. running \in BOOLEAN /\ opened \in BOOLEAN
            BY DEF PlayerInit, S!Init
        <3> QED BY <3>1 DEF PlayerInit, S!Init, S!TypeOK
    <2>2. playing \in BOOLEAN
        BY DEF PlayerInit
    <2> QED BY <1>1, <2>1, <2>2 DEF PlayerInit, PlayerTypeOK, None
<1>4. AnswersInv /\ PlaceInv /\ SessionsInv
    BY <1>2 DEF PlayerInit, S!Init, AnswersInv, PlaceInv, SessionsInv, None, S!None
<1>5. EndsInv /\ NoStopOfOwn /\ StopIsLast /\ StopBetween
    <2>1. \A w, f : w # "PROGRESS" => ~Reported(w, f)
        BY <1>2 DEF Reported, Is, Kept, R!Kept
    <2> QED BY <1>2, <2>1 DEF EndsInv, NoStopOfOwn, StopIsLast, StopBetween
<1> QED BY <1>1, <1>3, <1>4, <1>5 DEF PlayerInv

LEMMA PlayerStep == PlayerInv /\ [PlayerNext]_playerVars => PlayerInv'
<1> SUFFICES ASSUME PlayerInv, [PlayerNext]_playerVars PROVE PlayerInv'
    OBVIOUS
<1>1. CASE Enter \/ Leave \/ Seek \/ Closes \/ Returns
    BY <1>1, PageMoves
<1>2. CASE EndSession
    BY <1>2, EndSessionStep
<1>3. CASE TellStart
    BY <1>3, TellStartStep
<1>4. CASE TellProgress \/ TellStop \/ TellOff
    BY <1>4, TellOwnStep
<1>5. CASE StreamStep
    BY <1>5, StreamWorks
<1>6. CASE ReportStep \/ SettingMoves
    BY <1>6, OthersWork
<1>7. CASE UNCHANGED playerVars
    <2>1. UNCHANGED streamVars /\ UNCHANGED reportVars /\ UNCHANGED pageVars
        BY <1>7 DEF playerVars
    <2>2. /\ R!ReportsTypeOK' /\ R!KeptInv' /\ Made' = Made /\ Kept' = Kept
          /\ reporting' = reporting
        BY <2>1, ReportsStand DEF PlayerInv
    <2>3. PlayerTypeOK' /\ AnswersInv' /\ PlaceInv'
        BY <2>1, <2>2 DEF PlayerInv, PlayerTypeOK, S!TypeOK, AnswersInv, PlaceInv, streamVars, pageVars
    <2>4. \A x : Fresh(x)' <=> Fresh(x)
        BY <2>1, <2>2 DEF Fresh, pageVars
    <2>5. SessionsInv'
        BY <2>1, <2>2, <2>4 DEF PlayerInv, SessionsInv, streamVars, pageVars
    <2>6. \A w, f : w # "PROGRESS" => (Reported(w, f)' <=> Reported(w, f))
        BY <2>2 DEF Reported, Is, Kept, R!Kept
    <2>7. EndsInv' /\ NoStopOfOwn' /\ StopIsLast' /\ StopBetween'
        BY <2>1, <2>2, <2>6 DEF PlayerInv, EndsInv, NoStopOfOwn, StopIsLast, StopBetween, pageVars
    <2> QED BY <2>2, <2>3, <2>5, <2>7 DEF PlayerInv
<1> QED BY <1>1, <1>2, <1>3, <1>4, <1>5, <1>6, <1>7 DEF PlayerNext, Page

\* What was sent is the beginning of the line, and the line is in the order of
\* the calls where it matters.
LEMMA SentIsInLine ==
    ASSUME PlayerInv
    PROVE  /\ R!Line \in Seq(Jobs) /\ Len(sent) \in Nat /\ Len(sent) <= Len(R!Line)
           /\ sent \in Seq(Jobs)
           /\ \A i \in 1 .. Len(sent) : R!Line[i] = sent[i]
           /\ \A i \in 1 .. Len(R!Line) : R!Line[i] \in Made /\ R!Line[i].call \in Nat
           /\ \A i \in 1 .. Len(R!Line) : R!Line[i].what # "PROGRESS" => R!Line[i] \in Kept
           /\ \A i, j \in 1 .. Len(R!Line) :
                 i < j /\ R!Line[i].what # "PROGRESS" => R!Line[i].call < R!Line[j].call
<1>1. sent \in Seq(Jobs) /\ queue \in Seq(Jobs)
    BY DEF PlayerInv, R!KeptInv, Jobs
<1>2. R!Line \in Seq(Jobs) /\ Len(R!Line) = Len(sent) + Len(queue)
      /\ \A i \in 1 .. Len(sent) : R!Line[i] = sent[i]
    BY <1>1 DEF R!Line
<1>3. \A i \in 1 .. Len(R!Line) : R!Line[i] \in R!In(R!Line)
    BY <1>2 DEF R!In
<1>4. \A i \in 1 .. Len(R!Line) : R!Line[i] \in Made /\ R!Line[i].call \in Nat
    BY <1>3, MadeFacts DEF PlayerInv, Made, R!Made
<1>5. \A i \in 1 .. Len(R!Line) : R!Line[i].what # "PROGRESS" => R!Line[i] \in Kept
    BY <1>3 DEF Kept, R!Kept
<1>6. \A i, j \in DOMAIN R!Line :
         i < j /\ R!Line[i].what # "PROGRESS" => R!Line[i].call < R!Line[j].call
    BY DEF PlayerInv, R!KeptInv, R!LineIs
<1>7. DOMAIN R!Line = 1 .. Len(R!Line) /\ Len(sent) \in Nat /\ Len(sent) <= Len(R!Line)
    BY <1>1, <1>2
<1> QED BY <1>1, <1>2, <1>4, <1>5, <1>6, <1>7

LEMMA HeardInTurn == PlayerInv => SessionsInTurn
<1> SUFFICES ASSUME PlayerInv PROVE SessionsInTurn
    OBVIOUS
<1>1. StoppedBeforeNext
    <2> SUFFICES ASSUME NEW i \in 1 .. Len(sent), sent[i].what = "START",
                        NEW k \in 1 .. i - 1, sent[k].what = "START"
                 PROVE  \/ \E m \in k .. i : Is(sent[m], "STOP", sent[k].session)
                        \/ \E j \in lost : Is(j, "STOP", sent[k].session)
        BY SentIsInLine, SMTT(30) DEF StoppedBeforeNext
    <2>1. k \in 1 .. Len(sent) /\ k < i /\ i \in 1 .. Len(R!Line) /\ k \in 1 .. Len(R!Line)
        BY SentIsInLine
    <2>2. PICK a, b : a = R!Line[k] /\ b = R!Line[i] /\ a = sent[k] /\ b = sent[i]
        BY <2>1, SentIsInLine
    <2>3. a \in Kept /\ b \in Kept /\ a.call < b.call /\ a.what = "START" /\ b.what = "START"
        BY <2>1, <2>2, SentIsInLine
    <2>4. PICK m \in Kept : Is(m, "STOP", a.session) /\ a.call < m.call /\ m.call < b.call
        BY <2>3 DEF PlayerInv, StopBetween
    <2>5. CASE m \in lost
        BY <2>2, <2>4, <2>5
    <2>6. CASE m \in R!In(R!Line)
        <3>1. PICK p \in DOMAIN R!Line : R!Line[p] = m
            BY <2>6 DEF R!In
        <3>2. p \in 1 .. Len(R!Line)
            BY <3>1, SentIsInLine
        <3>3. a.call \in Nat /\ b.call \in Nat /\ m.call \in Nat
            BY <2>1, <2>2, <3>1, <3>2, SentIsInLine
        <3>4. ~(p < k) /\ ~(i < p) /\ p # k /\ p # i
            BY <2>1, <2>2, <2>3, <2>4, <3>1, <3>2, <3>3, SentIsInLine DEF Is
        <3>5. p \in k .. i /\ p \in 1 .. Len(sent)
            BY <2>1, <3>2, <3>4
        <3>6. sent[p] = m
            BY <3>1, <3>5, SentIsInLine
        <3> QED BY <2>2, <2>4, <3>5, <3>6
    <2> QED BY <2>4, <2>5, <2>6 DEF Kept, R!Kept
<1>2. NothingAfterStop
    <2> SUFFICES ASSUME NEW i \in 1 .. Len(sent), sent[i].what = "STOP",
                        NEW k \in i + 1 .. Len(sent), sent[k].what \in {"START", "PROGRESS"},
                        sent[k].session = sent[i].session
                 PROVE  FALSE
        BY SentIsInLine DEF NothingAfterStop
    <2>1. i < k /\ k \in 1 .. Len(sent) /\ i \in 1 .. Len(R!Line) /\ k \in 1 .. Len(R!Line)
        BY SentIsInLine
    <2>2. PICK a, b : a = R!Line[i] /\ b = R!Line[k] /\ a = sent[i] /\ b = sent[k]
        BY <2>1, SentIsInLine
    <2>3. a \in Made /\ b \in Made /\ a.call < b.call /\ a.call \in Nat /\ b.call \in Nat
        BY <2>1, <2>2, SentIsInLine
    <2>4. b.call < a.call
        BY <2>2, <2>3 DEF PlayerInv, StopIsLast
    <2> QED BY <2>3, <2>4
<1> QED BY <1>1, <1>2 DEF SessionsInTurn

LEMMA Ended == PlayerInv => ToldSessionsAreEnded
<1> SUFFICES ASSUME PlayerInv, NEW f \in Films \ {own}, Reported("START", f)
             PROVE  Reported("STOP", f) /\ Reported("ENCODING_OFF", f)
    BY DEF ToldSessionsAreEnded
<1> QED BY DEF PlayerInv, EndsInv

-----------------------------------------------------------------------------

\* The page keeps its types over any number of films and reports: what it goes
\* by is a film, what it reports is a report.
THEOREM PlayerTypeCorrect == PlayerSpec => []PlayerTypeOK
<1>1. PlayerInv => PlayerTypeOK
    BY DEF PlayerInv
<1> QED BY PlayerBegins, PlayerStep, <1>1, PTL DEF PlayerSpec

\* However many films are opened and sought through, however the stream's and
\* the reports' workers lag and the link comes and goes: the server hears of a
\* next session only after the end of the last, unless that end found the queue
\* full, and never of a session it heard the end of.
THEOREM PlayerSessionsInTurn == PlayerSpec => []SessionsInTurn
<1> QED BY PlayerBegins, PlayerStep, HeardInTurn, PTL DEF PlayerSpec

\* A session whose start was reported has its stop and the end of its encoder
\* reported by the time the page goes by another or none.
THEOREM PlayerEndsSessions == PlayerSpec => []ToldSessionsAreEnded
<1> QED BY PlayerBegins, PlayerStep, Ended, PTL DEF PlayerSpec

-----------------------------------------------------------------------------
(* The clock. What the step will see, the difference of two readings of a  *)
(* clock that wraps, is the time that passed as long as that is below the  *)
(* cap; from there on it may be anything below a turn, and the cap is what *)
(* bounds the step.                                                        *)

Readings == 0 .. ClockWrap - 1

ClockInv ==
    /\ now \in Readings /\ lastUs \in Readings
    /\ gap \in 0 .. StepCap
    /\ gap < StepCap => Between(lastUs, now) = gap
    /\ pos \in Nat
    /\ soundFrom \in Nat /\ lookedFrom \in Nat /\ nextSound \in Nat
    /\ soundUs \subseteq Readings /\ lookedUs \subseteq Readings

\* A number less than a turn out is a turn away from its remainder.
LEMMA TurnOnce ==
  ASSUME NEW w \in Nat \ {0}, NEW x \in Int
  PROVE  /\ x \in 0 .. w - 1 => x % w = x
         /\ x \in w .. 2 * w - 1 => x % w = x - w
         /\ x \in -w .. -1 => x % w = x + w
BY SMT

LEMMA BetweenRange ==
  ASSUME NEW w \in Nat \ {0}, NEW a \in 0 .. w - 1, NEW b \in 0 .. w - 1
  PROVE  (b - a) % w = IF a <= b THEN b - a ELSE b - a + w
<1> DEFINE x == b - a
<1>1. x \in Int /\ (a <= b => x \in 0 .. w - 1) /\ (a > b => x \in -w .. -1)
  OBVIOUS
<1> HIDE DEF x
<1>2. (a <= b => x % w = x) /\ (a > b => x % w = x + w)
  BY <1>1, TurnOnce
<1> QED
  BY <1>2 DEF x

LEMMA SumRange ==
  ASSUME NEW w \in Nat \ {0}, NEW a \in 0 .. w - 1, NEW t \in 0 .. w - 1
  PROVE  (a + t) % w = IF a + t < w THEN a + t ELSE a + t - w
<1> DEFINE x == a + t
<1>1. x \in Int /\ (x < w => x \in 0 .. w - 1) /\ (x >= w => x \in w .. 2 * w - 1)
  OBVIOUS
<1> HIDE DEF x
<1>2. (x < w => x % w = x) /\ (x >= w => x % w = x - w)
  BY <1>1, TurnOnce
<1> QED
  BY <1>2 DEF x

LEMMA InTurn ==
  ASSUME NEW w \in Nat \ {0}, NEW x \in Int
  PROVE  x % w \in 0 .. w - 1
BY SMT

\* Time that passes adds to what is between, while the sum is below a turn.
LEMMA BetweenGrows ==
  ASSUME NEW w \in Nat \ {0}, NEW a \in 0 .. w - 1, NEW b \in 0 .. w - 1,
         NEW t \in Nat, ((b - a) % w) + t < w
  PROVE  (((b + t) % w) - a) % w = ((b - a) % w) + t
<1> DEFINE g == (b - a) % w
           c == (b + t) % w
<1>1. g = IF a <= b THEN b - a ELSE b - a + w
  BY BetweenRange
<1>2. g \in 0 .. w - 1 /\ t \in 0 .. w - 1
  BY <1>1, InTurn
<1>3. c = IF b + t < w THEN b + t ELSE b + t - w
  BY <1>2, SumRange
<1>4. c \in 0 .. w - 1
  BY InTurn
<1>5. (c - a) % w = IF a <= c THEN c - a ELSE c - a + w
  BY <1>4, BetweenRange
<1> HIDE DEF g, c
<1>6. g + t < w
  BY DEF g
<1>7. (c - a) % w = g + t
  BY <1>1, <1>2, <1>3, <1>4, <1>5, <1>6
<1> QED
  BY <1>7 DEF g, c

-----------------------------------------------------------------------------

LEMMA ClockBegins == ClockInit => ClockInv
<1> SUFFICES ASSUME ClockInit PROVE ClockInv
  OBVIOUS
<1>1. now \in Readings /\ lastUs = now
  BY PlayClockAssumption DEF ClockInit, Readings
<1>2. Between(lastUs, now) = 0
  BY <1>1, BetweenRange, PlayClockAssumption DEF Between, Readings
<1> QED
  BY <1>1, <1>2, PlayClockAssumption DEF ClockInit, ClockInv

LEMMA PassingKeeps ==
  ASSUME ClockInv, NEW t \in Passes, Passing(t)
  PROVE  ClockInv'
<1> USE PlayClockAssumption
<1>1. t \in Nat
  OBVIOUS
<1>2. now' \in Readings
  BY <1>1, InTurn DEF Passing, ClockInv, Readings
<1>3. gap' \in 0 .. StepCap
  BY <1>1 DEF Passing, ClockInv, Least
<1>4. ASSUME gap' < StepCap PROVE Between(lastUs, now)' = gap'
  <2>1. gap' = gap + t /\ gap + t < StepCap /\ gap < StepCap
    BY <1>1, <1>4 DEF Passing, ClockInv, Least
  <2>2. (now - lastUs) % ClockWrap = gap
    BY <2>1 DEF ClockInv, Between
  <2>3. (((now + t) % ClockWrap) - lastUs) % ClockWrap = gap + t
    BY <1>1, <2>1, <2>2, BetweenGrows, SMTT(30) DEF ClockInv, Readings
  <2>4. lastUs' = lastUs /\ now' = (now + t) % ClockWrap
    BY DEF Passing, stepVars
  <2> QED
    BY <2>1, <2>3, <2>4 DEF Between
<1>5. UNCHANGED <<pos, lastUs, lookedFrom, lookedUs, soundFrom, soundUs, nextSound>>
  BY DEF Passing, stepVars, soundOfClock
<1> QED
  BY <1>2, <1>3, <1>4, <1>5 DEF ClockInv, Readings

\* What a step of the clock adds: no more than the time that passed.
LEMMA SteppedAdds ==
  ASSUME ClockInv
  PROVE  Least(Between(lastUs, now), StepCap) \in 0 .. gap
<1>1. Between(lastUs, now) \in Nat
  BY InTurn, PlayClockAssumption DEF ClockInv, Between, Readings
<1> QED
  BY <1>1, PlayClockAssumption DEF Least, ClockInv

LEMMA FrameStepsKeeps ==
  ASSUME ClockInv, NEW marks \in BOOLEAN, FrameSteps(marks)
  PROVE  /\ ClockInv'
         /\ \/ pos' \in 0 .. pos + gap
            \/ lookedUs # {} /\ pos' <= lookedFrom + SoundFrame
<1> DEFINE runs == marks /\ ~frozen
           add == Least(Between(lastUs, now), StepCap)
<1> USE PlayClockAssumption
<1>1. add \in 0 .. gap
  BY SteppedAdds
<1>2. lastUs' = now /\ now' = now /\ gap' = 0 /\ lookedFrom' = 0 /\ lookedUs' = {}
      /\ UNCHANGED <<soundFrom, soundUs, nextSound>>
  BY DEF FrameSteps, Stepped, soundOfClock
<1>3. ASSUME Followed(runs) = {} PROVE pos' \in 0 .. pos + gap
  <2>1. pos' = IF runs THEN pos + add ELSE pos
    BY <1>3 DEF FrameSteps, Stepped
  <2> HIDE DEF runs, add
  <2> QED
    BY <1>1, <2>1 DEF ClockInv
<1>4. ASSUME Followed(runs) # {}
      PROVE  pos' \in Nat /\ lookedUs # {} /\ pos' <= lookedFrom + SoundFrame
  <2>1. PICK us \in Followed(runs) : pos' = lookedFrom + Least(Between(us, now), SoundFrame)
    BY <1>4 DEF FrameSteps
  <2>2. us \in lookedUs /\ us \in Readings
    BY DEF Followed, ClockInv
  <2>3. Between(us, now) \in Nat
    BY <2>2, InTurn DEF ClockInv, Between, Readings
  <2> QED
    BY <2>1, <2>2, <2>3 DEF Least, ClockInv
<1>5. pos' \in Nat /\ (pos' \in 0 .. pos + gap \/ (lookedUs # {} /\ pos' <= lookedFrom + SoundFrame))
  BY <1>3, <1>4 DEF ClockInv
<1>6. Between(lastUs, now)' = 0
  <2>1. (now - now) % ClockWrap = 0
    BY BetweenRange DEF ClockInv, Readings
  <2> QED
    BY <1>2, <2>1 DEF Between
<1>7. ClockInv'
  BY <1>2, <1>5, <1>6 DEF ClockInv, Readings
<1> QED
  BY <1>5, <1>7

\* The rest of the steps move the film no further than it is.
LEMMA OthersKeep ==
  ASSUME ClockInv,
         \/ \E on \in BOOLEAN : FrameBegins(on) \/ SoundStarts(on)
         \/ \E at \in 0..LastPos : FirstPicture(at)
         \/ FrameEnds \/ SoundTooLate \/ SoundGoesIn
         \/ UNCHANGED clockVars
  PROVE  ClockInv' /\ pos' <= pos + gap
<1> USE PlayClockAssumption DEF ClockInv, Readings, Between
<1>1. ASSUME NEW on \in BOOLEAN, FrameBegins(on) PROVE ClockInv' /\ pos' <= pos + gap
  BY <1>1 DEF FrameBegins, soundOfClock
<1>2. ASSUME NEW on \in BOOLEAN, SoundStarts(on) PROVE ClockInv' /\ pos' <= pos + gap
  <2>1. UNCHANGED <<now, gap, pos, lastUs, lookedFrom, lookedUs>>
        /\ nextSound' = nextSound + SoundFrame
    BY <1>2 DEF SoundStarts, stepVars
  <2>2. soundFrom' \in Nat
    BY <1>2 DEF SoundStarts
  <2>3. soundUs' \subseteq Readings
    <3>1. (IF now = 0 THEN 1 ELSE now) \in Readings
      OBVIOUS
    <3> QED
      BY <1>2, <3>1 DEF SoundStarts
  <2> QED
    BY <2>1, <2>2, <2>3
<1>3. ASSUME NEW at \in 0..LastPos, FirstPicture(at) PROVE ClockInv' /\ pos' <= pos + gap
  BY <1>3 DEF FirstPicture, soundOfClock
<1>4. CASE FrameEnds
  BY <1>4 DEF FrameEnds, soundOfClock
<1>5. CASE SoundTooLate
  BY <1>5 DEF SoundTooLate, stepVars
<1>6. CASE SoundGoesIn
  BY <1>6 DEF SoundGoesIn, stepVars
<1>7. CASE UNCHANGED clockVars
  BY <1>7 DEF clockVars, stepVars, soundOfClock
<1> QED
  BY <1>1, <1>2, <1>3, <1>4, <1>5, <1>6, <1>7

Moves == \/ pos' <= pos + gap
         \/ lookedUs # {} /\ pos' <= lookedFrom + SoundFrame

LEMMA ClockSteps == ClockInv /\ [ClockNext]_clockVars => ClockInv' /\ Moves
<1> SUFFICES ASSUME ClockInv, [ClockNext]_clockVars PROVE ClockInv' /\ Moves
  OBVIOUS
<1>1. ASSUME NEW t \in Passes, Passing(t) PROVE ClockInv' /\ Moves
  <2>1. pos' = pos
    BY <1>1 DEF Passing, stepVars
  <2> QED
    BY <1>1, <2>1, PassingKeeps, PlayClockAssumption DEF Moves, ClockInv
<1>2. ASSUME NEW marks \in BOOLEAN, FrameSteps(marks) PROVE ClockInv' /\ Moves
  <2>1. ClockInv' /\ (pos' \in 0 .. pos + gap \/ (lookedUs # {} /\ pos' <= lookedFrom + SoundFrame))
    BY <1>2, FrameStepsKeeps
  <2> QED
    BY <2>1 DEF Moves
<1>3. ASSUME \/ \E on \in BOOLEAN : FrameBegins(on) \/ SoundStarts(on)
             \/ \E at \in 0..LastPos : FirstPicture(at)
             \/ FrameEnds \/ SoundTooLate \/ SoundGoesIn
             \/ UNCHANGED clockVars
      PROVE  ClockInv' /\ Moves
  BY <1>3, OthersKeep DEF Moves
<1> QED
  BY <1>1, <1>2, <1>3 DEF ClockNext

\* Whatever the turn of the clock, the cap and the lengths of sound, and however
\* long the machine slept: no frame moves the film on by more than the time
\* since the frame before, or past the end of the sound that is playing.
THEOREM PlayClockNeverJumps == ClockSpec => ClockNeverJumps
<1>1. ClockSpec => []ClockInv
  BY ClockBegins, ClockSteps, PTL DEF ClockSpec
<1>2. ClockInv /\ [ClockNext]_clockVars => [Moves]_clockVars
  BY ClockSteps
<1>3. ClockSpec => [][Moves]_clockVars
  BY <1>1, <1>2, PTL DEF ClockSpec
<1> QED
  BY <1>3 DEF ClockNeverJumps, Moves

-----------------------------------------------------------------------------
(* The player's band (Band). *)

Ctls    == {"none", "prev", "play", "next"}
Caps    == {"buffering", "playing", "paused", "seeking"}
BandSet == [up : BOOLEAN, cap : Caps, ctl : Ctls, armed : BOOLEAN,
            to : Nat, pos : 0..Dur, paused : BOOLEAN, hide : Nat, mask : SUBSET SeekMask, wait : Nat,
            reps : Nat]

\* An aim is seen, it lasts, and the row has none of its keys.
AimOK(p) ==
  p.armed => /\ p.up /\ p.ctl = "none" /\ p.cap = "seeking" /\ p.hide = 0
             /\ p.to \in 0..(Dur - SeekTail)
BandInv ==
  /\ band \in BandSet /\ AimOK(band) /\ band.ctl \in {"none", "play"} \cup there
  /\ there \subseteq {"prev", "next"}

\* Of a frame: the band with the neighbours that are there by its end.
FrameOK(p) == p \in BandSet /\ AimOK(p) /\ p.ctl \in {"none", "play"} \cup there'

\* An aim given up.
LEMMA Disarmed ==
    ASSUME NEW p \in BandSet, NEW n, n = disarm(p)
    PROVE  n \in BandSet /\ ~n.armed /\ n.ctl = p.ctl /\ n.up = p.up /\ n.cap = p.cap
BY DEF disarm, BandSet

\* A key on the row is one that is there.
LEMMA CtlSet ==
    ASSUME NEW p \in BandSet, ~p.armed, NEW c \in Ctls, NEW n, n = ctl_set(p, c)
    PROVE  n \in BandSet /\ ~n.armed /\ n.ctl \in {"none", "play"} \cup there' /\ n.up = p.up
<1>1. PICK d \in Ctls : d = IF c = "none" \/ ctl_there(c) THEN c ELSE "play"
    BY DEF Ctls
<1>2. d \in {"none", "play"} \cup there'
    BY <1>1 DEF ctl_there
<1>3. PICK q : q = [p EXCEPT !.ctl = d]
    OBVIOUS
<1>4. q \in BandSet /\ ~q.armed /\ q.ctl = d /\ q.up = p.up
    BY <1>3 DEF BandSet
<1>5. n = IF q.ctl # "none" THEN disarm(q) ELSE q
    BY <1>1, <1>3 DEF ctl_set
<1> QED BY <1>2, <1>4, <1>5, Disarmed

\* A step along the row ends on one of its keys.
LEMMA CtlStep ==
    ASSUME NEW c \in Ctls, NEW dir \in {-1, 1} PROVE ctl_step(c, dir) \in Ctls
<1>1. PICK ahead : ahead = {i \in DOMAIN Controls : ctl_there(Controls[i]) /\ (i - Pos(c)) * dir > 0}
    OBVIOUS
<1>2. ahead \subseteq {1, 2, 3}
    BY <1>1 DEF Controls
<1>3. ahead = {} \/ \E i \in ahead : \A j \in ahead : i * dir <= j * dir
    <2>1. CASE dir = 1
        BY <1>2, <2>1
    <2>2. CASE dir = -1
        BY <1>2, <2>2
    <2> QED BY <2>1, <2>2
<1>4. PICK best : best = CHOOSE i \in ahead : \A j \in ahead : i * dir <= j * dir
    OBVIOUS
<1>5. ahead = {} \/ best \in {1, 2, 3}
    BY <1>2, <1>3, <1>4
<1>6. Controls[1] \in Ctls /\ Controls[2] \in Ctls /\ Controls[3] \in Ctls
    BY DEF Controls, Ctls
<1>7. ctl_step(c, dir) = IF ahead = {} THEN c ELSE Controls[best]
    BY <1>1, <1>4 DEF ctl_step
<1> QED BY <1>5, <1>6, <1>7

\* A band that is shown is up, and an aim is the one it is shown with.
LEMMA Shown ==
    ASSUME NEW p \in BandSet, NEW cap \in Caps, NEW aimed \in Nat,
           NEW n, n = show(p, cap, aimed)
    PROVE  /\ n \in BandSet /\ (n.armed <=> p.armed) /\ n.ctl = p.ctl /\ n.up /\ n.cap = cap
           /\ cap = "seeking" => n.to = aimed /\ n.hide = 0
BY BandAssumption DEF show, BandSet, Caps

\* What the band says of the film is shown.
LEMMA StateSaid ==
    ASSUME NEW p \in BandSet, NEW n, n = say_state(p)
    PROVE  n \in BandSet /\ (n.armed <=> p.armed) /\ n.ctl = p.ctl /\ n.up
<1>1. PICK cap \in Caps :
            cap = IF p.paused THEN "paused" ELSE "playing"
    BY DEF Caps
<1>2. PICK aimed \in Nat : aimed = 0
    OBVIOUS
<1>3. n = show(p, cap, aimed)
    BY <1>1, <1>2 DEF say_state
<1> QED BY ONLY <1>3, p \in BandSet, cap \in Caps, aimed \in Nat, Shown

\* A band that is away has no aim.
LEMMA Hides ==
    ASSUME NEW p \in BandSet, NEW n, n = Hidden(p)
    PROVE  n \in BandSet /\ ~n.armed /\ n.ctl = p.ctl
<1>1. PICK q : q = [p EXCEPT !.up = FALSE]
    OBVIOUS
<1>2. q \in BandSet /\ q.ctl = p.ctl
    BY <1>1 DEF BandSet
<1>3. n = disarm(q)
    BY <1>1 DEF Hidden
<1> QED BY <1>2, <1>3, Disarmed

\* Square puts it up or away.
LEMMA Squared ==
    ASSUME NEW p, FrameOK(p), NEW n, n = Square(p) PROVE FrameOK(n)
<1>1. CASE p.up
    BY <1>1, Hides DEF Square, FrameOK, AimOK
<1>2. CASE ~p.up
    <2>1. PICK q : q = show(p, p.cap, p.to)
        OBVIOUS
    <2>2. p \in BandSet /\ ~p.armed /\ p.cap \in Caps /\ p.to \in Nat
        BY <1>2 DEF FrameOK, AimOK, BandSet
    <2>3. q \in BandSet /\ ~q.armed
        BY ONLY <2>1, <2>2, Shown
    <2>4. n = ctl_set(q, "play")
        BY <1>2, <2>1 DEF Square
    <2> QED BY <2>3, <2>4, CtlSet DEF FrameOK, AimOK, Ctls
<1> QED BY <1>1, <1>2

\* The keys while the row has them.
LEMMA RowKeys ==
    ASSUME NEW p0, FrameOK(p0), p0.ctl # "none", NEW pressed, NEW n, n = OnRow(p0, pressed)
    PROVE  FrameOK(n.band) /\ n.leave \in {"no", "prev", "next"}
<1>1. p0 \in BandSet /\ ~p0.armed /\ p0.ctl \in Ctls
    BY DEF FrameOK, AimOK, BandSet
<1>2. PICK p1 : p1 = IF ctl_there(p0.ctl) THEN p0 ELSE ctl_set(p0, "play")
    OBVIOUS
<1>3. p1 \in BandSet /\ ~p1.armed /\ p1.ctl \in {"none", "play"} \cup there'
    <2>1. p0.ctl \in {"none", "play"} \cup there'
        BY DEF FrameOK
    <2> QED BY <1>1, <1>2, <2>1, CtlSet DEF Ctls
<1>4. PICK p2 : p2 = IF "left" \in pressed THEN ctl_set(p1, ctl_step(p1.ctl, -1)) ELSE p1
    OBVIOUS
<1>5. p2 \in BandSet /\ ~p2.armed /\ p2.ctl \in {"none", "play"} \cup there'
    <2>1. p1.ctl \in Ctls
        BY <1>3 DEF BandSet
    <2>2. ctl_step(p1.ctl, -1) \in Ctls
        BY <2>1, CtlStep
    <2> QED BY <1>3, <1>4, <2>2, CtlSet
<1>6. PICK p3 : p3 = IF "right" \in pressed THEN ctl_set(p2, ctl_step(p2.ctl, 1)) ELSE p2
    OBVIOUS
<1>7. p3 \in BandSet /\ ~p3.armed /\ p3.ctl \in {"none", "play"} \cup there'
    <2>1. p2.ctl \in Ctls
        BY <1>5 DEF BandSet
    <2>2. ctl_step(p2.ctl, 1) \in Ctls
        BY <2>1, CtlStep
    <2> QED BY <1>5, <1>6, <2>2, CtlSet
<1>8. PICK p4 : p4 = IF "down" \in pressed THEN ctl_set(p3, "none") ELSE p3
    OBVIOUS
<1>9. p4 \in BandSet /\ ~p4.armed /\ p4.ctl \in {"none", "play"} \cup there'
    BY <1>7, <1>8, CtlSet DEF Ctls
<1>10. PICK dp : dp = disarm(p4)
    OBVIOUS
<1>11. dp \in BandSet /\ ~dp.armed /\ dp.ctl = p4.ctl
    BY <1>9, <1>10, Disarmed
<1>12. PICK p : p = [dp EXCEPT !.mask = {}]
    OBVIOUS
<1>13. p \in BandSet /\ ~p.armed /\ p.ctl \in {"none", "play"} \cup there' /\ p.ctl \in Ctls
       /\ p.paused \in BOOLEAN
    BY <1>9, <1>11, <1>12 DEF BandSet
<1>14. PICK t : t = [p EXCEPT !.paused = ~p.paused]
    OBVIOUS
<1>15. t \in BandSet /\ ~t.armed /\ t.ctl = p.ctl
    BY <1>13, <1>14 DEF BandSet
<1>16. n = IF p.ctl = "none" \/ "cross" \notin pressed THEN [band |-> p, leave |-> "no"]
           ELSE IF p.ctl # "play" THEN [band |-> p, leave |-> p.ctl]
           ELSE [band |-> say_state(t), leave |-> "no"]
    BY <1>2, <1>4, <1>6, <1>8, <1>10, <1>12, <1>14 DEF OnRow
<1>17. FrameOK(p)
    BY <1>13 DEF FrameOK, AimOK
<1>18. FrameOK(say_state(t))
    BY <1>13, <1>15, StateSaid DEF FrameOK, AimOK
<1> QED BY <1>13, <1>16, <1>17, <1>18 DEF Ctls

\* The time a key is held.
LEMMA KeyTimed ==
    ASSUME NEW p \in BandSet, NEW mask \in SUBSET SeekMask, NEW n, n = Timed(p, mask)
    PROVE  /\ n \in BandSet /\ (n.armed <=> p.armed) /\ n.ctl = p.ctl /\ n.up = p.up /\ n.cap = p.cap
           /\ n.hide = p.hide /\ n.to = p.to
<1>1. CASE mask # p.mask
    BY <1>1 DEF Timed, BandSet
<1>2. CASE mask = p.mask
    <2>1. PICK reps \in Nat : reps = IF p.reps < 2 THEN p.reps + 1 ELSE p.reps
        BY DEF BandSet
    <2>2. CASE n = [p EXCEPT !.wait = 0, !.reps = reps]
        BY ONLY <2>2, p \in BandSet, reps \in Nat DEF BandSet
    <2>3. CASE n = p
        BY <2>3
    <2> QED BY <1>2, <2>1, <2>2, <2>3 DEF Timed
<1> QED BY <1>1, <1>2

\* An aim is within what may be asked for.
LEMMA SeekAimed ==
    ASSUME NEW p, FrameOK(p), p.ctl = "none", NEW step \in Int, NEW n, n = Aimed(p, step)
    PROVE  FrameOK(n)
<1>1. p \in BandSet /\ p.to \in Nat /\ p.pos \in 0..Dur
    BY DEF FrameOK, BandSet
<1>2. PICK from \in Nat : from = IF p.armed THEN p.to ELSE p.pos
    BY <1>1, BandAssumption
<1>3. PICK to : to = IF from + step < 0 THEN 0
                     ELSE IF from + step > Dur - SeekTail THEN Dur - SeekTail ELSE from + step
    OBVIOUS
<1>4. to \in 0..(Dur - SeekTail) /\ to \in Nat
    BY ONLY <1>3, BandAssumption, from \in Nat, step \in Int
<1>5. PICK q : q = [p EXCEPT !.armed = TRUE]
    OBVIOUS
<1>6. q \in BandSet /\ q.armed /\ q.ctl = "none"
    BY <1>1, <1>5 DEF BandSet
<1>7. PICK cap \in Caps : cap = "seeking"
    BY DEF Caps
<1>8. n = show(q, cap, to)
    BY <1>2, <1>3, <1>5, <1>7 DEF Aimed
<1>9. n \in BandSet /\ n.armed /\ n.ctl = "none" /\ n.up /\ n.cap = "seeking" /\ n.to = to /\ n.hide = 0
    BY ONLY <1>4, <1>6, <1>7, <1>8, cap \in Caps, Shown
<1> QED BY <1>4, <1>9 DEF FrameOK, AimOK

\* An aim that is asked for is one no more.
LEMMA SeekCommitted ==
    ASSUME NEW p, FrameOK(p), p.armed, NEW n, n = Committed(p) PROVE FrameOK(n)
<1>1. p \in BandSet /\ p.ctl = "none" /\ p.to \in 0..(Dur - SeekTail) /\ p.to \in Nat /\ p.to \in 0..Dur
    BY BandAssumption DEF FrameOK, AimOK, BandSet
<1>2. PICK q : q = [p EXCEPT !.pos = p.to, !.armed = FALSE, !.paused = FALSE]
    OBVIOUS
<1>3. q \in BandSet /\ ~q.armed /\ q.ctl = "none"
    BY <1>1, <1>2 DEF BandSet
<1>4. PICK cap \in Caps, to \in Nat : cap = "buffering" /\ to = p.to
    BY <1>1 DEF Caps
<1>5. n = show(q, cap, to)
    BY <1>2, <1>4 DEF Committed
<1>6. n \in BandSet /\ ~n.armed /\ n.ctl = "none"
    BY ONLY <1>3, <1>5, cap \in Caps, to \in Nat, Shown
<1> QED BY <1>6 DEF FrameOK, AimOK

\* The keys while the bar has them.
LEMMA BarKeys ==
    ASSUME NEW p0, FrameOK(p0), p0.ctl = "none", NEW pad, NEW pressed, NEW n, n = OnBar(p0, pad, pressed)
    PROVE  FrameOK(n)
<1>1. PICK mask \in SUBSET SeekMask : mask = pad \cap SeekMask
    OBVIOUS
<1>2. PICK p1 : p1 = Timed(p0, mask)
    OBVIOUS
<1>3. /\ p1 \in BandSet /\ (p1.armed <=> p0.armed) /\ p1.ctl = "none" /\ p1.up = p0.up /\ p1.cap = p0.cap
      /\ p1.hide = p0.hide /\ p1.to = p0.to
    <2>1. p0 \in BandSet
        BY DEF FrameOK
    <2> QED BY <1>2, <2>1, KeyTimed
<1>4. FrameOK(p1)
    BY <1>3 DEF FrameOK, AimOK
<1>5. PICK step : step = StepOf(mask, p1.reps)
    OBVIOUS
<1>6. step \in Int
    BY <1>5, BandAssumption DEF StepOf
<1>7. PICK ap : ap = Aimed(p1, step)
    OBVIOUS
<1>8. FrameOK(ap)
    BY <1>3, <1>4, <1>6, <1>7, SeekAimed
<1>9. PICK p : p = IF Fires(p0, mask) THEN ap ELSE p1
    OBVIOUS
<1>10. FrameOK(p) /\ p \in BandSet
    BY <1>4, <1>8, <1>9 DEF FrameOK
<1>11. PICK dp : dp = disarm(p)
    OBVIOUS
<1>12. PICK t : t = [p EXCEPT !.paused = ~p.paused]
    OBVIOUS
<1>13. n = CASE p.armed /\ "cross" \in pressed  -> Committed(p)
            [] p.armed /\ "circle" \in pressed -> say_state(dp)
            [] ~p.armed /\ "cross" \in pressed -> ctl_set(say_state(t), "play")
            [] OTHER -> p
    BY <1>1, <1>2, <1>5, <1>7, <1>9, <1>11, <1>12 DEF OnBar
<1>14. p.armed => FrameOK(Committed(p))
    BY <1>10, SeekCommitted
<1>15. FrameOK(say_state(dp))
    <2>1. dp \in BandSet /\ ~dp.armed /\ dp.ctl = p.ctl
        BY <1>10, <1>11, Disarmed
    <2>2. PICK q : q = say_state(dp)
        OBVIOUS
    <2>3. q \in BandSet /\ ~q.armed /\ q.ctl = p.ctl
        BY <2>1, <2>2, StateSaid
    <2> QED BY <1>10, <2>2, <2>3 DEF FrameOK, AimOK
<1>16. ~p.armed => FrameOK(ctl_set(say_state(t), "play"))
    <2> SUFFICES ASSUME ~p.armed PROVE FrameOK(ctl_set(say_state(t), "play"))
        OBVIOUS
    <2>1. t \in BandSet /\ ~t.armed
        BY <1>10, <1>12 DEF BandSet
    <2>2. PICK q : q = say_state(t)
        OBVIOUS
    <2>3. q \in BandSet /\ ~q.armed
        BY <2>1, <2>2, StateSaid
    <2>4. PICK m : m = ctl_set(q, "play")
        OBVIOUS
    <2>5. m \in BandSet /\ ~m.armed /\ m.ctl \in {"none", "play"} \cup there'
        <3>1. "play" \in Ctls
            BY DEF Ctls
        <3> QED BY ONLY <2>3, <2>4, <3>1, CtlSet
    <2> QED BY <2>2, <2>4, <2>5 DEF FrameOK, AimOK
<1> QED BY <1>10, <1>13, <1>14, <1>15, <1>16

\* What the pressed keys do.
LEMMA ActKeeps ==
    ASSUME NEW p, FrameOK(p), NEW pad, NEW pressed, NEW r, r = act(p, pad, pressed)
    PROVE  FrameOK(r.band)
<1>1. PICK q : q = IF ~p.up /\ pressed \cap {"left", "right"} # {}
                   THEN [p EXCEPT !.up = TRUE, !.ctl = "none"] ELSE p
    OBVIOUS
<1>2. FrameOK(q)
    BY <1>1 DEF FrameOK, AimOK, BandSet, Ctls
<1>3. PICK s : s = say_state(p)
    OBVIOUS
<1>4. r = IF "select" \in pressed \/ (~p.armed /\ "circle" \in pressed)
          THEN [band |-> p, leave |-> "stopped"]
          ELSE IF "square" \in pressed THEN [band |-> Square(p), leave |-> "no"]
          ELSE IF ~p.armed /\ p.ctl = "none" /\ "up" \in pressed
          THEN [band |-> ctl_set(s, "play"), leave |-> "no"]
          ELSE IF q.ctl # "none" THEN OnRow(q, pressed)
          ELSE [band |-> OnBar(q, pad, pressed), leave |-> "no"]
    BY <1>1, <1>3 DEF act
<1>5. FrameOK(Square(p))
    BY Squared
<1>6. ~p.armed => FrameOK(ctl_set(s, "play"))
    <2>1. ~p.armed => s \in BandSet /\ ~s.armed
        BY <1>3, StateSaid DEF FrameOK
    <2>2. "play" \in Ctls
        BY DEF Ctls
    <2>3. PICK m : m = ctl_set(s, "play")
        OBVIOUS
    <2>4. ~p.armed => m \in BandSet /\ ~m.armed /\ m.ctl \in {"none", "play"} \cup there'
        BY ONLY <2>1, <2>2, <2>3, CtlSet
    <2> QED BY <2>3, <2>4 DEF FrameOK, AimOK
<1>7. q.ctl # "none" => FrameOK(OnRow(q, pressed).band)
    BY <1>2, RowKeys
<1>8. q.ctl = "none" => FrameOK(OnBar(q, pad, pressed))
    BY <1>2, BarKeys
<1>9. CASE "select" \in pressed \/ (~p.armed /\ "circle" \in pressed)
    BY <1>4, <1>9
<1>10. CASE ~("select" \in pressed \/ (~p.armed /\ "circle" \in pressed)) /\ "square" \in pressed
    BY <1>4, <1>5, <1>10
<1>11. CASE /\ ~("select" \in pressed \/ (~p.armed /\ "circle" \in pressed)) /\ "square" \notin pressed
            /\ ~p.armed /\ p.ctl = "none" /\ "up" \in pressed
    BY <1>4, <1>6, <1>11
<1>12. CASE /\ ~("select" \in pressed \/ (~p.armed /\ "circle" \in pressed)) /\ "square" \notin pressed
            /\ ~(~p.armed /\ p.ctl = "none" /\ "up" \in pressed)
    <2>1. r = IF q.ctl # "none" THEN OnRow(q, pressed)
              ELSE [band |-> OnBar(q, pad, pressed), leave |-> "no"]
        BY <1>4, <1>12
    <2> QED BY <1>7, <1>8, <2>1
<1> QED BY <1>9, <1>10, <1>11, <1>12

\* The clock: an aim does not expire, and the film stands still under it.
LEMMA TickKeeps ==
    ASSUME NEW p, FrameOK(p), NEW n, n = Ticked(p) PROVE FrameOK(n)
<1>1. PICK hide \in Nat : hide = IF p.hide > 0 THEN p.hide - 1 ELSE 0
    BY DEF FrameOK, BandSet
<1>2. PICK wait \in Nat : wait = IF p.wait < Delay THEN p.wait + 1 ELSE p.wait
    BY DEF FrameOK, BandSet
<1>3. PICK up \in BOOLEAN : up = (p.up /\ ~(p.hide > 0 /\ hide = 0))
    OBVIOUS
<1>4. n = [p EXCEPT !.wait = wait, !.hide = hide, !.up = up]
    BY <1>1, <1>2, <1>3 DEF Ticked
<1>5. n \in BandSet /\ (n.armed <=> p.armed) /\ n.ctl = p.ctl /\ n.cap = p.cap /\ n.to = p.to /\ n.up = up
      /\ n.hide = hide
    BY <1>4 DEF FrameOK, BandSet
<1>6. p.armed => up /\ hide = 0
    <2>1. p.armed => p.up /\ p.hide = 0
        BY DEF FrameOK, AimOK
    <2>2. p.armed => ~(p.hide > 0) /\ hide = 0
        BY ONLY <1>1, <2>1
    <2> QED BY ONLY <1>3, <2>1, <2>2, Zenon
<1> QED BY <1>5, <1>6 DEF FrameOK, AimOK

\* Where the film is.
LEMMA PositionKeeps ==
    ASSUME NEW p, FrameOK(p), NEW at \in 0..Dur, NEW n, n = [p EXCEPT !.pos = at] PROVE FrameOK(n)
BY DEF FrameOK, AimOK, BandSet

\* A frame of the band.
LEMMA BandSteps ==
    ASSUME BandInv, NEW pressed, NEW kept \in BOOLEAN, NEW picture \in BOOLEAN, BandFrame(pressed, kept, picture)
    PROVE  BandInv'
<1>1. PICK b : b = band
    OBVIOUS
<1>2. there' \subseteq {"prev", "next"} /\ there \subseteq there'
    BY DEF BandInv, BandFrame
<1>3. FrameOK(b) /\ b.pos \in 0..Dur
    BY <1>1, <1>2 DEF BandInv, FrameOK, BandSet
<1>4. PICK next \in 0..Dur : next = IF b.pos < Dur THEN b.pos + 1 ELSE Dur
    BY <1>3, BandAssumption
<1>5. PICK tb : tb = Ticked(b)
    OBVIOUS
<1>6. FrameOK(tb)
    BY <1>3, <1>5, TickKeeps
<1>7. FrameOK(Pictured(tb, next))
    <2>1. PICK s : s = IF tb.cap = "buffering" THEN say_state(tb) ELSE tb
        OBVIOUS
    <2>2. FrameOK(s)
        <3>1. CASE tb.cap = "buffering"
            <4>1. tb \in BandSet /\ ~tb.armed
                BY <1>6, <3>1 DEF FrameOK, AimOK
            <4>2. s \in BandSet /\ ~s.armed /\ s.ctl = tb.ctl
                BY <2>1, <3>1, <4>1, StateSaid
            <4> QED BY <1>6, <4>2 DEF FrameOK, AimOK
        <3>2. CASE tb.cap # "buffering"
            BY <1>6, <2>1, <3>2
        <3> QED BY <3>1, <3>2
    <2>3. Pictured(tb, next) = [s EXCEPT !.pos = next]
        BY <2>1 DEF Pictured
    <2> QED BY <2>2, <2>3, PositionKeeps
<1>8. FrameOK(Ticked(advance(b)))
    <2>1. PICK ab : ab = advance(b)
        OBVIOUS
    <2>2. FrameOK(ab)
        <3>1. CASE b.paused \/ b.armed \/ b.pos = Dur
            BY <1>3, <2>1, <3>1 DEF advance
        <3>2. CASE ~(b.paused \/ b.armed \/ b.pos = Dur)
            <4>1. b.pos < Dur
                BY <1>3, <3>2, BandAssumption
            <4>2. ab = [b EXCEPT !.pos = next]
                BY <1>4, <2>1, <3>2, <4>1 DEF advance
            <4> QED BY <1>3, <4>2, PositionKeeps
        <3> QED BY <3>1, <3>2
    <2> QED BY <2>1, <2>2, TickKeeps
<1>9. PICK p : p = IF picture THEN Pictured(tb, next) ELSE Ticked(advance(b))
    OBVIOUS
<1>10. FrameOK(p)
    BY <1>7, <1>8, <1>9
<1>11. PICK pad : pad = pressed \cup IF kept THEN b.mask ELSE {}
    OBVIOUS
<1>12. band' = act(p, pad, pressed).band
    BY <1>1, <1>4, <1>5, <1>9, <1>11 DEF BandFrame
<1>13. FrameOK(band')
    BY <1>10, <1>12, ActKeeps
<1> QED BY <1>2, <1>13 DEF BandInv, FrameOK, AimOK

\* "An aim nobody can see is one nobody can cancel", "the last 5 s is never
\* asked for", "ctl is never an absent neighbour": of every film, every tail of
\* it that is never asked for, and every pace of the keys and of the hiding.
THEOREM AimsAreSeen == BandSpec => []AimIsSeen
<1>1. BandInit => BandInv
    BY BandAssumption DEF BandInit, BandInv, BandSet, AimOK, Ctls, Caps
<1>2. BandInv /\ [BandNext]_bandVars => BandInv'
    <2> SUFFICES ASSUME BandInv, [BandNext]_bandVars PROVE BandInv'
        OBVIOUS
    <2>1. CASE \E pressed \in Pressed, kept, picture \in BOOLEAN : BandFrame(pressed, kept, picture)
        BY <2>1, BandSteps
    <2>2. CASE UNCHANGED <<band, there>>
        BY <2>2 DEF BandInv, AimOK
    <2> QED BY <2>1, <2>2 DEF BandNext, StreamEnds, bandVars
<1>3. BandInv => AimIsSeen
    BY DEF BandInv, AimOK, AimIsSeen
<1> QED BY <1>1, <1>2, <1>3, PTL DEF BandSpec

-----------------------------------------------------------------------------
(* The segments (Fmp4). What the initialisation segment says of the tracks *)
(* is walked as recursive functions, which are unrolled box by box.        *)

EntrySet  == [dur : Nat, size : Nat]
SampleSet == [track : {"video", "audio"}, at : Nat, len : Nat, dts : Nat]

Fmp4Inv ==
    /\ TracksApart
    /\ source \in Segments /\ turns \in Nat /\ mdat \in Seq(Nat)
    /\ trafs \in Seq(Trafs) /\ inTraf \in Seq(TrafBoxes)
    /\ inRun \in [n : Nat, own : BOOLEAN, entries : Seq(EntrySet)] /\ cur \in Nat
    /\ track \in {"none", "video", "audio"} /\ (inRun.n > 0 => track # "none")
    /\ deflt \in EntrySet /\ dts \in [{"video", "audio"} -> Nat]
    /\ handed \in Seq(SampleSet) /\ HandedOverIsInside
    /\ walk \in {"init", "boxes"} => handed = <<>>

\* A set that holds 0 and with a number the next holds all up to n.
LEMMA UpToLast ==
    ASSUME NEW n \in Nat, NEW T, 0 \in T, \A i \in T : i \in 0 .. n - 1 => i + 1 \in T
    PROVE  0 .. n \subseteq T
<1> SUFFICES ASSUME NEW k \in 0 .. n, k \notin T PROVE FALSE
    OBVIOUS
<1>1. PICK M : M = {i \in Nat : i <= n /\ i \notin T}
    OBVIOUS
<1>2. M \subseteq Nat /\ M # {}
    BY <1>1
<1>3. PICK m \in M : \A j \in M : ~(<<j, m>> \in OpToRel(<, Nat))
    BY <1>2, WFMin, NatLessThanWellFounded
<1>4. m \in Nat /\ m <= n /\ m \notin T /\ m # 0
    BY <1>1
<1>5. m - 1 \in Nat /\ m - 1 \in 0 .. n - 1 /\ m - 1 < m
    BY <1>4
<1>6. m - 1 \in M \/ m - 1 \in T
    BY <1>1, <1>4, <1>5
<1>7. m - 1 \notin M
    BY <1>2, <1>3, <1>5 DEF OpToRel
<1>8. (m - 1) + 1 \in T
    BY <1>5, <1>6, <1>7
<1> QED BY <1>4, <1>8

\* A line of numbers has a first of those of a kind.
LEMMA FirstOfAll ==
    ASSUME NEW Q, Q \subseteq Nat, Q # {}
    PROVE  (CHOOSE i \in Q : \A j \in Q : i <= j) \in Q
<1>1. PICK m \in Q : \A j \in Q : ~(<<j, m>> \in OpToRel(<, Nat))
    BY WFMin, NatLessThanWellFounded
<1>2. ASSUME NEW j \in Q PROVE m <= j
    <2>1. m \in Nat /\ j \in Nat
        OBVIOUS
    <2> SUFFICES ASSUME j < m PROVE FALSE
        BY <2>1
    <2> QED BY <1>1, <2>1 DEF OpToRel
<1> QED BY <1>1, <1>2

LEMMA LastOfAll ==
    ASSUME NEW n \in Nat, NEW Q, Q \subseteq 1 .. n, Q # {}
    PROVE  (CHOOSE i \in Q : \A j \in Q : j <= i) \in Q
<1>1. PICK K : K = {k \in Nat : k <= n /\ n - k \in Q}
    OBVIOUS
<1>2. K \subseteq Nat /\ \A j \in Q : n - j \in K /\ n - (n - j) = j
    BY <1>1
<1>3. PICK m \in K : \A k \in K : ~(<<k, m>> \in OpToRel(<, Nat))
    BY <1>2, WFMin, NatLessThanWellFounded
<1>4. n - m \in Q /\ m \in Nat
    BY <1>1, <1>2
<1>5. ASSUME NEW j \in Q PROVE j <= n - m
    <2>1. j \in Nat /\ n - j \in K /\ n - j \in Nat
        BY <1>1, <1>2
    <2> SUFFICES ASSUME n - j < m PROVE FALSE
        BY <1>4, <2>1
    <2> QED BY <1>3, <1>4, <2>1 DEF OpToRel
<1> QED BY <1>4, <1>5

\* A function each of whose values is made of the one before is there.
LEMMA BoxByBox ==
    ASSUME NEW boxes, NEW n \in Nat
    PROVE  \E f : f = [i \in 0 .. n |-> IF i = 0 THEN NoTrak ELSE TakeBox(boxes[i], f[i - 1])]
<1>1. PICK T : T = {k \in 0 .. n : \E f : f = [i \in 0 .. k |-> IF i = 0 THEN NoTrak ELSE TakeBox(boxes[i], f[i - 1])]}
    OBVIOUS
<1>2. 0 \in T
    <2>1. PICK f : f = [i \in 0 .. 0 |-> NoTrak]
        OBVIOUS
    <2>2. \A i \in 0 .. 0 : i = 0
        OBVIOUS
    <2>3. f = [i \in 0 .. 0 |-> IF i = 0 THEN NoTrak ELSE TakeBox(boxes[i], f[i - 1])]
        BY <2>1, <2>2
    <2> QED BY <1>1, <2>3
<1>3. ASSUME NEW k \in T, k \in 0 .. n - 1 PROVE k + 1 \in T
    <2>1. PICK f : f = [i \in 0 .. k |-> IF i = 0 THEN NoTrak ELSE TakeBox(boxes[i], f[i - 1])]
        BY <1>1
    <2>2. PICK g : g = [i \in 0 .. k + 1 |-> IF i = k + 1 THEN TakeBox(boxes[i], f[k]) ELSE f[i]]
        OBVIOUS
    <2>3. k \in Nat /\ k + 1 \in 0 .. n
        BY <1>3
    <2>4. ASSUME NEW i \in 0 .. k + 1
          PROVE  g[i] = IF i = 0 THEN NoTrak ELSE TakeBox(boxes[i], g[i - 1])
        <3>1. CASE i = k + 1
            <4>1. i # 0 /\ i - 1 = k /\ k \in 0 .. k + 1 /\ k # k + 1
                BY <2>3, <3>1
            <4>2. g[i] = TakeBox(boxes[i], f[k]) /\ g[i - 1] = f[k]
                BY <2>2, <3>1, <4>1
            <4> QED BY <4>1, <4>2
        <3>2. CASE i # k + 1
            <4>1. i \in 0 .. k /\ g[i] = f[i]
                BY <2>2, <2>3, <3>2
            <4>2. f[i] = IF i = 0 THEN NoTrak ELSE TakeBox(boxes[i], f[i - 1])
                BY <2>1, <4>1
            <4>3. CASE i = 0
                BY <4>1, <4>2, <4>3
            <4>4. CASE i # 0
                <5>1. i - 1 \in 0 .. k + 1 /\ i - 1 # k + 1
                    BY <2>3, <4>1, <4>4
                <5>2. g[i - 1] = f[i - 1]
                    BY <2>2, <5>1
                <5> QED BY <4>1, <4>2, <4>4, <5>2
            <4> QED BY <4>3, <4>4
        <3> QED BY <3>1, <3>2
    <2>5. g = [i \in 0 .. k + 1 |-> IF i = 0 THEN NoTrak ELSE TakeBox(boxes[i], g[i - 1])]
        BY <2>2, <2>4
    <2> QED BY <1>1, <2>3, <2>5
<1>4. 0 .. n \subseteq T
    BY <1>2, <1>3, UpToLast
<1>5. n \in T
    BY <1>4
<1> QED BY <1>1, <1>5

TrakOf(t, boxes) ==
    /\ t = [id |-> t.id, scale |-> t.scale, sps |-> t.sps, pps |-> t.pps, rate |-> t.rate, asc |-> t.asc]
    /\ t.asc # 0 => \E b \in Elements(boxes) : b.type = "esds"
    /\ t.sps # 0 => \E b \in Elements(boxes) : b.type = "avcC"

LEMMA OneBoxMore ==
    ASSUME NEW boxes, NEW b \in Elements(boxes), NEW t, TrakOf(t, boxes)
    PROVE  TrakOf(TakeBox(b, t), boxes)
<1>1. t = [id |-> t.id, scale |-> t.scale, sps |-> t.sps, pps |-> t.pps, rate |-> t.rate, asc |-> t.asc]
    BY DEF TrakOf
<1>2. CASE b.type = "tkhd"
    BY <1>1, <1>2 DEF TrakOf, TakeBox
<1>3. CASE b.type = "mdhd"
    BY <1>1, <1>3 DEF TrakOf, TakeBox
<1>4. CASE b.type = "avcC"
    BY <1>1, <1>4 DEF TrakOf, TakeBox
<1>5. CASE b.type = "mp4a"
    BY <1>1, <1>5 DEF TrakOf, TakeBox
<1>6. CASE b.type = "esds"
    BY <1>1, <1>6 DEF TrakOf, TakeBox
<1>7. CASE b.type \notin {"tkhd", "mdhd", "avcC", "mp4a", "esds"}
    BY <1>1, <1>7 DEF TrakOf, TakeBox
<1> QED BY <1>2, <1>3, <1>4, <1>5, <1>6, <1>7

\* What a walk says of a trak stands in its boxes.
LEMMA WalkedIs ==
    ASSUME NEW boxes, Len(boxes) \in Nat, DOMAIN boxes = 1 .. Len(boxes)
    PROVE  TrakOf(Walked(boxes), boxes)
<1>1. PICK n \in Nat : n = Len(boxes)
    OBVIOUS
<1>2. PICK f : f = CHOOSE g : g = [i \in 0 .. n |-> IF i = 0 THEN NoTrak ELSE TakeBox(boxes[i], g[i - 1])]
    OBVIOUS
<1>3. f = [i \in 0 .. n |-> IF i = 0 THEN NoTrak ELSE TakeBox(boxes[i], f[i - 1])]
    BY <1>2, BoxByBox
<1>4. Walked(boxes) = f[n]
    BY <1>1, <1>2 DEF Walked
<1>5. PICK T : T = {i \in 0 .. n : TrakOf(f[i], boxes)}
    OBVIOUS
<1>6. 0 \in T
    <2>1. f[0] = NoTrak
        BY <1>3
    <2> QED BY <1>5, <2>1 DEF TrakOf, NoTrak
<1>7. ASSUME NEW i \in T, i \in 0 .. n - 1 PROVE i + 1 \in T
    <2>1. i + 1 \in 0 .. n /\ i + 1 # 0 /\ (i + 1) - 1 = i /\ i + 1 \in DOMAIN boxes
        BY <1>1, <1>7
    <2>2. f[i + 1] = TakeBox(boxes[i + 1], f[i])
        BY <1>3, <2>1
    <2>3. boxes[i + 1] \in Elements(boxes)
        BY <2>1 DEF Elements
    <2> QED BY <1>5, <2>1, <2>2, <2>3, OneBoxMore
<1>8. 0 .. n \subseteq T
    BY <1>6, <1>7, UpToLast
<1> QED BY <1>4, <1>5, <1>8

LEMMA FittingIs ==
    ASSUME NEW t \in Traks
    PROVE  LET f == Fitting(t)
           IN  Len(f) \in Nat /\ DOMAIN f = 1 .. Len(f) /\ Elements(f) \subseteq Elements(t)
<1>1. t \in Seq(TrakBoxes)
    BY Fmp4Assumption
<1>2. Len(t) \in Nat /\ DOMAIN t = 1 .. Len(t)
    BY <1>1, LenProperties
<1>3. PICK torn : torn = {i \in DOMAIN t : t[i].type = Torn}
    OBVIOUS
<1>4. CASE torn = {}
    BY <1>2, <1>3, <1>4 DEF Fitting
<1>5. CASE torn # {}
    <2>1. PICK k : k = CHOOSE i \in torn : \A j \in torn : i <= j
        OBVIOUS
    <2>2. k \in 1 .. Len(t)
        <3>1. torn \subseteq Nat /\ torn \subseteq 1 .. Len(t)
            BY <1>2, <1>3
        <3> QED BY <1>5, <2>1, <3>1, FirstOfAll
    <2>3. Fitting(t) = SubSeq(t, 1, k - 1)
        BY <1>3, <1>5, <2>1 DEF Fitting
    <2>4. PICK f : f = SubSeq(t, 1, k - 1)
        OBVIOUS
    <2>5. k - 1 \in 0 .. Len(t)
        BY <1>2, <2>2
    <2>6. Len(f) = k - 1 /\ DOMAIN f = 1 .. k - 1 /\ \A i \in 1 .. k - 1 : f[i] = t[i] /\ i \in 1 .. Len(t)
        BY <1>1, <1>2, <2>4, <2>5
    <2>7. k - 1 \in Nat
        BY <2>5
    <2> QED BY <1>2, <2>3, <2>4, <2>6, <2>7 DEF Elements
<1> QED BY <1>4, <1>5

LEMMA TrakByTrak ==
    ASSUME NEW traks, NEW n \in Nat
    PROVE  \E f : f = [i \in 0 .. n |-> IF i = 0 THEN [video |-> NoTrak, audio |-> NoTrak]
                                        ELSE TakeTrak(f[i - 1], traks[i])]
<1>0. PICK none : none = [video |-> NoTrak, audio |-> NoTrak]
    OBVIOUS
<1>1. PICK T : T = {k \in 0 .. n : \E f : f = [i \in 0 .. k |-> IF i = 0 THEN none ELSE TakeTrak(f[i - 1], traks[i])]}
    OBVIOUS
<1>2. 0 \in T
    <2>1. PICK f : f = [i \in 0 .. 0 |-> none]
        OBVIOUS
    <2>2. \A i \in 0 .. 0 : i = 0
        OBVIOUS
    <2>3. f = [i \in 0 .. 0 |-> IF i = 0 THEN none ELSE TakeTrak(f[i - 1], traks[i])]
        BY <2>1, <2>2
    <2> QED BY <1>1, <2>3
<1>3. ASSUME NEW k \in T, k \in 0 .. n - 1 PROVE k + 1 \in T
    <2>1. PICK f : f = [i \in 0 .. k |-> IF i = 0 THEN none ELSE TakeTrak(f[i - 1], traks[i])]
        BY <1>1
    <2>2. PICK g : g = [i \in 0 .. k + 1 |-> IF i = k + 1 THEN TakeTrak(f[k], traks[i]) ELSE f[i]]
        OBVIOUS
    <2>3. k \in Nat /\ k + 1 \in 0 .. n
        BY <1>3
    <2>4. ASSUME NEW i \in 0 .. k + 1
          PROVE  g[i] = IF i = 0 THEN none ELSE TakeTrak(g[i - 1], traks[i])
        <3>1. CASE i = k + 1
            <4>1. i # 0 /\ i - 1 = k /\ k \in 0 .. k + 1 /\ k # k + 1
                BY <2>3, <3>1
            <4>2. g[i] = TakeTrak(f[k], traks[i]) /\ g[i - 1] = f[k]
                BY <2>2, <3>1, <4>1
            <4> QED BY <4>1, <4>2
        <3>2. CASE i # k + 1
            <4>1. i \in 0 .. k /\ g[i] = f[i]
                BY <2>2, <2>3, <3>2
            <4>2. f[i] = IF i = 0 THEN none ELSE TakeTrak(f[i - 1], traks[i])
                BY <2>1, <4>1
            <4>3. CASE i = 0
                BY <4>1, <4>2, <4>3
            <4>4. CASE i # 0
                <5>1. i - 1 \in 0 .. k + 1 /\ i - 1 # k + 1
                    BY <2>3, <4>1, <4>4
                <5>2. g[i - 1] = f[i - 1]
                    BY <2>2, <5>1
                <5> QED BY <4>1, <4>2, <4>4, <5>2
            <4> QED BY <4>3, <4>4
        <3> QED BY <3>1, <3>2
    <2>5. g = [i \in 0 .. k + 1 |-> IF i = 0 THEN none ELSE TakeTrak(g[i - 1], traks[i])]
        BY <2>2, <2>4
    <2> QED BY <1>1, <2>3, <2>5
<1>4. 0 .. n \subseteq T
    BY <1>2, <1>3, UpToLast
<1>5. n \in T
    BY <1>4
<1> QED BY <1>0, <1>1, <1>5

TwoTracks(m) == m = [video |-> m.video, audio |-> m.audio] /\ m.video.asc = 0 /\ m.audio.sps = 0

\* One trak more: its record is one medium's, as the trak is.
LEMMA OneTrakMore ==
    ASSUME NEW t \in Traks, NEW m, TwoTracks(m)
    PROVE  TwoTracks(TakeTrak(m, t))
<1>1. PICK w : w = Walked(Fitting(t))
    OBVIOUS
<1>2. TrakOf(w, t)
    <2>1. PICK f : f = Fitting(t)
        OBVIOUS
    <2>2. Len(f) \in Nat /\ DOMAIN f = 1 .. Len(f) /\ Elements(f) \subseteq Elements(t)
        BY <2>1, FittingIs
    <2>3. TrakOf(w, f)
        BY <1>1, <2>1, <2>2, WalkedIs
    <2> QED BY <2>2, <2>3 DEF TrakOf
<1>3. Elements(t) \subseteq TrakBoxes
    BY DEF TrakBoxes
<1>4. w.asc = 0 \/ w.sps = 0
    BY <1>2, <1>3, Fmp4Assumption DEF TrakOf
<1>5. CASE w.asc # 0 /\ m.audio.asc = 0
    <2>1. w = [id |-> w.id, scale |-> w.scale, sps |-> w.sps, pps |-> w.pps, rate |-> w.rate, asc |-> w.asc]
        BY <1>2 DEF TrakOf
    <2>2. PICK x : x = [w EXCEPT !.rate = IF @ = 0 THEN w.scale ELSE @]
        OBVIOUS
    <2>3. x.sps = w.sps
        BY <2>1, <2>2
    <2>4. TakeTrak(m, t) = [m EXCEPT !.audio = x]
        BY <1>1, <1>5, <2>2 DEF TakeTrak
    <2> QED BY <1>4, <1>5, <2>3, <2>4 DEF TwoTracks
<1>6. CASE ~(w.asc # 0 /\ m.audio.asc = 0) /\ w.sps # 0 /\ m.video.sps = 0
    <2>1. TakeTrak(m, t) = [m EXCEPT !.video = w]
        BY <1>1, <1>6 DEF TakeTrak
    <2> QED BY <1>4, <1>6, <2>1 DEF TwoTracks
<1>7. CASE ~(w.asc # 0 /\ m.audio.asc = 0) /\ ~(w.sps # 0 /\ m.video.sps = 0)
    <2>1. TakeTrak(m, t) = m
        BY <1>1, <1>7 DEF TakeTrak
    <2> QED BY <2>1
<1> QED BY <1>5, <1>6, <1>7

LEMMA TakenIs == ASSUME NEW traks \in Inits PROVE TwoTracks(TakeTraks(traks))
<1>0. traks \in Seq(Traks)
    BY Fmp4Assumption
<1>1. PICK n \in Nat : n = Len(traks) /\ DOMAIN traks = 1 .. n /\ \A i \in 1 .. n : traks[i] \in Traks
    BY <1>0, LenProperties, ElementOfSeq
<1>2. PICK f : f = CHOOSE g : g = [i \in 0 .. n |-> IF i = 0 THEN [video |-> NoTrak, audio |-> NoTrak]
                                                  ELSE TakeTrak(g[i - 1], traks[i])]
    OBVIOUS
<1>3. f = [i \in 0 .. n |-> IF i = 0 THEN [video |-> NoTrak, audio |-> NoTrak] ELSE TakeTrak(f[i - 1], traks[i])]
    BY <1>2, TrakByTrak
<1>4. TakeTraks(traks) = f[n]
    BY <1>1, <1>2 DEF TakeTraks
<1>5. PICK T : T = {i \in 0 .. n : TwoTracks(f[i])}
    OBVIOUS
<1>6. 0 \in T
    <2>1. f[0] = [video |-> NoTrak, audio |-> NoTrak]
        BY <1>3
    <2> QED BY <1>5, <2>1 DEF TwoTracks, NoTrak
<1>7. ASSUME NEW i \in T, i \in 0 .. n - 1 PROVE i + 1 \in T
    <2>1. i + 1 \in 0 .. n /\ i + 1 # 0 /\ (i + 1) - 1 = i /\ i + 1 \in 1 .. n
        BY <1>7
    <2>2. f[i + 1] = TakeTrak(f[i], traks[i + 1])
        BY <1>3, <2>1
    <2> QED BY <1>1, <1>5, <2>1, <2>2, OneTrakMore
<1>8. 0 .. n \subseteq T
    BY <1>6, <1>7, UpToLast
<1> QED BY <1>4, <1>5, <1>8

LEMMA InitKeeps == ASSUME Fmp4Inv, fmp4_init PROVE Fmp4Inv'
<1>1. TracksApart'
    <2>1. PICK traks \in Inits : fmp4' = TakeTraks(traks)
        BY DEF fmp4_init
    <2> QED BY <2>1, TakenIs DEF TwoTracks, TracksApart
<1>2. UNCHANGED <<source, turns, mdat, trafs, inTraf, track, deflt, inRun, cur, dts, handed>>
    BY DEF fmp4_init, trafVars, runVars
<1>3. handed = <<>>
    BY DEF fmp4_init, Fmp4Inv
<1> QED BY <1>1, <1>2, <1>3 DEF Fmp4Inv, HandedOverIsInside

LEMMA RefusedKeeps == ASSUME Fmp4Inv, Refused PROVE Fmp4Inv'
<1>1. UNCHANGED <<fmp4, source, turns, mdat, trafs, inTraf, track, deflt, inRun, cur, dts, handed>>
      /\ walk' = "done"
    BY DEF Refused, trafVars, runVars
<1> QED BY <1>1 DEF Fmp4Inv, TracksApart, HandedOverIsInside

\* The boxes that are looked at are the segment's.
LEMMA LastIs ==
    ASSUME Fmp4Inv, NEW type, Found(type) # {}
    PROVE  LastBox(type) \in MediaBoxes /\ LastBox(type).type = type
<1>1. source \in Seq(MediaBoxes)
    BY Fmp4Assumption DEF Fmp4Inv
<1>2. PICK l : l = Looked
    OBVIOUS
<1>3. l \in Seq(MediaBoxes)
    <2>1. PICK pairs : pairs = {i \in 2..Len(source) : source[i].type = "mdat" /\ source[i - 1].type = "moof"}
        OBVIOUS
    <2>2. CASE pairs = {}
        BY <1>1, <1>2, <2>1, <2>2 DEF Looked
    <2>3. CASE pairs # {}
        <3>1. PICK k : k = CHOOSE i \in pairs : \A j \in pairs : i <= j
            OBVIOUS
        <3>2. Len(source) \in Nat
            BY <1>1, LenProperties
        <3>3. pairs \subseteq Nat /\ pairs \subseteq 1 .. Len(source)
            BY <2>1, <3>2
        <3>4. k \in 1 .. Len(source)
            BY <2>3, <3>1, <3>3, FirstOfAll
        <3>5. SubSeq(source, 1, k) \in Seq(MediaBoxes)
            BY <1>1, <3>2, <3>4
        <3> QED BY <1>2, <2>1, <2>3, <3>1, <3>5 DEF Looked
    <2> QED BY <2>2, <2>3
<1>4. PICK n \in Nat : n = Len(l) /\ DOMAIN l = 1 .. n /\ \A i \in 1 .. n : l[i] \in MediaBoxes
    BY <1>3, LenProperties, ElementOfSeq
<1>5. PICK Q : Q = Found(type)
    OBVIOUS
<1>6. Q # {} /\ Q \subseteq 1 .. n /\ \A i \in Q : l[i].type = type
    BY <1>2, <1>4, <1>5 DEF Found
<1>7. PICK i : i = CHOOSE k \in Q : \A j \in Q : j <= k
    OBVIOUS
<1>8. i \in Q
    BY <1>6, <1>7, LastOfAll
<1>9. LastBox(type) = l[i]
    BY <1>2, <1>5, <1>7 DEF LastBox
<1> QED BY <1>4, <1>6, <1>8, <1>9

LEMMA FindsBoxesKeeps == ASSUME Fmp4Inv, FindsBoxes PROVE Fmp4Inv'
<1>1. CASE Fitting(Looked) # Looked \/ Found("moof") = {} \/ Found("mdat") = {}
    BY <1>1, RefusedKeeps DEF FindsBoxes
<1>2. CASE ~(Fitting(Looked) # Looked \/ Found("moof") = {} \/ Found("mdat") = {})
    <2>1. PICK f, g : f = LastBox("moof") /\ g = LastBox("mdat")
        OBVIOUS
    <2>2. trafs' = f.trafs /\ mdat' = g.words
        BY <1>2, <2>1 DEF FindsBoxes
    <2>3. f \in MediaBoxes /\ f.type = "moof"
        BY <1>2, <2>1, LastIs
    <2>4. g \in MediaBoxes /\ g.type = "mdat"
        BY <1>2, <2>1, LastIs
    <2>5. trafs' \in Seq(Trafs) /\ mdat' \in Seq(Nat)
        BY <2>2, <2>3, <2>4, Fmp4Assumption
    <2>6. UNCHANGED <<fmp4, source, turns, inTraf, track, deflt, inRun, cur, dts, handed>> /\ walk' = "table"
        BY <1>2 DEF FindsBoxes, runVars
    <2>7. handed = <<>> /\ DOMAIN handed = {}
        BY DEF FindsBoxes, Fmp4Inv
    <2> QED BY <2>5, <2>6, <2>7 DEF Fmp4Inv, TracksApart, HandedOverIsInside
<1> QED BY <1>1, <1>2

LEMMA TrafBeginsKeeps == ASSUME Fmp4Inv, TrafBegins PROVE Fmp4Inv'
<1>1. CASE trafs # <<>>
    <2>1. /\ inTraf' = Head(trafs) /\ trafs' = Tail(trafs) /\ track' = "none"
          /\ deflt' = [dur |-> 0, size |-> 0] /\ inRun.n = 0 /\ walk = "table"
          /\ UNCHANGED <<fmp4, source, turns, walk, mdat, inRun, cur, dts, handed>>
        BY <1>1 DEF TrafBegins, runVars
    <2>2. trafs \in Seq(Trafs) /\ trafs # <<>>
        BY <1>1 DEF Fmp4Inv
    <2>3. Head(trafs) \in Trafs /\ Tail(trafs) \in Seq(Trafs)
        BY <2>2
    <2>4. Trafs \subseteq Seq(TrafBoxes)
        BY Fmp4Assumption
    <2>5. deflt' \in EntrySet
        BY <2>1 DEF EntrySet
    <2> QED BY <2>1, <2>3, <2>4, <2>5 DEF Fmp4Inv, TracksApart, HandedOverIsInside
<1>2. CASE trafs = <<>> /\ handed = <<>>
    BY <1>2, RefusedKeeps DEF TrafBegins
<1>3. CASE trafs = <<>> /\ handed # <<>>
    <2>1. UNCHANGED <<fmp4, source, turns, mdat, trafs, inTraf, track, deflt, inRun, cur, dts, handed>>
          /\ walk' = "done"
        BY <1>3 DEF TrafBegins, trafVars, runVars
    <2> QED BY <2>1 DEF Fmp4Inv, TracksApart, HandedOverIsInside
<1> QED BY <1>1, <1>2, <1>3

\* The next box of a traf is one of the table's.
LEMMA AtItsBox ==
    ASSUME Fmp4Inv, NEW type, AtBox(type)
    PROVE  /\ Head(inTraf) \in TrafBoxes /\ Head(inTraf).type = type /\ Tail(inTraf) \in Seq(TrafBoxes)
           /\ walk = "table" /\ inRun.n = 0
<1>1. inTraf \in Seq(TrafBoxes) /\ inTraf # <<>> /\ Head(inTraf).type = type /\ walk = "table" /\ inRun.n = 0
    BY DEF AtBox, Fmp4Inv
<1>2. Head(inTraf) \in TrafBoxes /\ Tail(inTraf) \in Seq(TrafBoxes)
    BY <1>1
<1> QED BY <1>1, <1>2

LEMMA TfhdKeeps == ASSUME Fmp4Inv, TakesTfhd PROVE Fmp4Inv'
<1>1. PICK b : b = Head(inTraf)
    OBVIOUS
<1>2. b \in TrafBoxes /\ b.type = "tfhd" /\ Tail(inTraf) \in Seq(TrafBoxes) /\ walk = "table" /\ inRun.n = 0
    BY <1>1, AtItsBox DEF TakesTfhd
<1>3. b.dur \in Nat /\ b.size \in Nat
    BY <1>2, Fmp4Assumption
<1>4. CASE b.cut
    BY <1>1, <1>4, RefusedKeeps DEF TakesTfhd
<1>5. CASE ~b.cut
    <2>1. /\ track' = TrackOf(b.id) /\ inTraf' = Tail(inTraf)
          /\ deflt' = [dur |-> IF b.dur = 0 THEN deflt.dur ELSE b.dur,
                       size |-> IF b.size = 0 THEN deflt.size ELSE b.size]
          /\ UNCHANGED <<fmp4, source, turns, walk, mdat, trafs, inRun, cur, dts, handed>>
        BY <1>1, <1>5 DEF TakesTfhd, runVars
    <2>2. track' \in {"none", "video", "audio"}
        BY <2>1 DEF TrackOf
    <2>3. deflt' \in EntrySet
        BY <1>3, <2>1 DEF EntrySet, Fmp4Inv
    <2> QED BY <1>2, <2>1, <2>2, <2>3 DEF Fmp4Inv, TracksApart, HandedOverIsInside
<1> QED BY <1>4, <1>5

LEMMA TfdtKeeps == ASSUME Fmp4Inv, TakesTfdt PROVE Fmp4Inv'
<1>1. PICK b : b = Head(inTraf)
    OBVIOUS
<1>2. b \in TrafBoxes /\ b.type = "tfdt" /\ Tail(inTraf) \in Seq(TrafBoxes) /\ walk = "table" /\ inRun.n = 0
    BY <1>1, AtItsBox DEF TakesTfdt
<1>3. b.at \in Nat
    BY <1>2, Fmp4Assumption
<1>4. dts' \in [{"video", "audio"} -> Nat]
    BY <1>1, <1>3 DEF TakesTfdt, Fmp4Inv
<1>5. inTraf' = Tail(inTraf)
      /\ UNCHANGED <<fmp4, source, turns, walk, mdat, trafs, track, deflt, inRun, cur, handed>>
    BY DEF TakesTfdt, runVars
<1> QED BY <1>2, <1>4, <1>5 DEF Fmp4Inv, TracksApart, HandedOverIsInside

LEMMA BeginsRunKeeps == ASSUME Fmp4Inv, BeginsRun PROVE Fmp4Inv'
<1>1. PICK b : b = Head(inTraf)
    OBVIOUS
<1>2. b \in TrafBoxes /\ b.type = "trun" /\ Tail(inTraf) \in Seq(TrafBoxes) /\ walk = "table" /\ inRun.n = 0
    BY <1>1, AtItsBox DEF BeginsRun
<1>3. b.n \in Nat /\ b.own \in BOOLEAN /\ b.entries \in Seq(EntrySet) /\ b.lead \in Int
    BY <1>2, Fmp4Assumption DEF EntrySet
<1>4. CASE track # "none" /\ b.lead < 0
    BY <1>1, <1>4, RefusedKeeps DEF BeginsRun
<1>5. CASE ~(track # "none" /\ b.lead < 0)
    <2>1. inTraf' = Tail(inTraf)
          /\ UNCHANGED <<fmp4, source, turns, walk, mdat, trafs, track, deflt, dts, handed>>
        BY <1>1, <1>5 DEF BeginsRun
    <2>2. CASE track = "none"
        <3>1. UNCHANGED <<inRun, cur>>
            BY <1>1, <1>5, <2>2 DEF BeginsRun, runVars
        <3> QED BY <1>2, <2>1, <3>1 DEF Fmp4Inv, TracksApart, HandedOverIsInside
    <2>3. CASE track # "none"
        <3>1. inRun' = [n |-> b.n, own |-> b.own, entries |-> b.entries] /\ cur' = b.lead
            BY <1>1, <1>5, <2>3 DEF BeginsRun
        <3>2. inRun' \in [n : Nat, own : BOOLEAN, entries : Seq(EntrySet)] /\ cur' \in Nat
            BY <1>3, <1>5, <2>3, <3>1
        <3> QED BY <1>2, <2>1, <2>3, <3>2 DEF Fmp4Inv, TracksApart, HandedOverIsInside
    <2> QED BY <2>2, <2>3
<1> QED BY <1>4, <1>5

LEMMA RunEndsKeeps == ASSUME Fmp4Inv, RunEnds PROVE Fmp4Inv'
<1>1. inRun' = NoRun /\ UNCHANGED <<fmp4, source, turns, walk, mdat, trafs, inTraf, track, deflt, cur, dts, handed>>
    BY DEF RunEnds, trafVars
<1>2. inRun'.n = 0 /\ inRun' \in [n : Nat, own : BOOLEAN, entries : Seq(EntrySet)]
    BY <1>1 DEF NoRun
<1> QED BY <1>1, <1>2 DEF Fmp4Inv, TracksApart, HandedOverIsInside

LEMMA RunSampleKeeps == ASSUME Fmp4Inv, RunSample PROVE Fmp4Inv'
<1>1. /\ inRun \in [n : Nat, own : BOOLEAN, entries : Seq(EntrySet)] /\ inRun.n > 0
      /\ track \in {"video", "audio"} /\ walk = "table"
      /\ deflt \in EntrySet /\ cur \in Nat /\ dts \in [{"video", "audio"} -> Nat]
    BY DEF RunSample, Fmp4Inv
<1>2. CASE inRun.own /\ inRun.entries = <<>>
    BY <1>2, RefusedKeeps DEF RunSample
<1>3. CASE ~(inRun.own /\ inRun.entries = <<>>)
    <2>1. PICK e : e = IF inRun.own THEN Head(inRun.entries) ELSE deflt
        OBVIOUS
    <2>2. e \in EntrySet
        BY <1>1, <1>3, <2>1
    <2>3. PICK size, dur \in Nat : size = e.size /\ dur = e.dur
        BY <2>2 DEF EntrySet
    <2>4. CASE ~Inside(e.size) \/ ~Agrees(e.size)
        BY <1>3, <2>1, <2>4, RefusedKeeps DEF RunSample
    <2>5. CASE Inside(e.size) /\ Agrees(e.size)
        <3>1. PICK s : s = [track |-> track, at |-> cur, len |-> size, dts |-> dts[track]]
            OBVIOUS
        <3>2. /\ handed' = Append(handed, s) /\ cur' = cur + size
              /\ dts' = [dts EXCEPT ![track] = @ + dur]
              /\ inRun' = [inRun EXCEPT !.n = @ - 1, !.entries = IF inRun.own THEN Tail(@) ELSE @]
              /\ UNCHANGED <<fmp4, source, turns, walk, mdat, trafs, inTraf, track, deflt>>
            BY <1>3, <2>1, <2>3, <2>5, <3>1 DEF RunSample, trafVars
        <3>3. s \in SampleSet /\ s.at = cur /\ s.len = size
            BY <1>1, <3>1 DEF SampleSet
        <3>4. Len(mdat) \in Nat /\ size > 0 /\ cur + size <= Len(mdat)
            <4>1. mdat \in Seq(Nat)
                BY DEF Fmp4Inv
            <4>2. Len(mdat) \in Nat
                BY <4>1, LenProperties
            <4> QED BY <1>1, <2>3, <2>5, <4>2 DEF Inside
        <3>5. handed' \in Seq(SampleSet) /\ HandedOverIsInside'
            <4>1. handed \in Seq(SampleSet) /\ HandedOverIsInside
                BY DEF Fmp4Inv
            <4>2. /\ handed' \in Seq(SampleSet) /\ DOMAIN handed' = 1 .. Len(handed) + 1 /\ Len(handed) \in Nat
                  /\ \A i \in 1 .. Len(handed) : handed'[i] = handed[i]
                  /\ handed'[Len(handed) + 1] = s /\ DOMAIN handed = 1 .. Len(handed)
                BY <3>2, <3>3, <4>1, AppendProperties, LenProperties
            <4>3. \A i \in DOMAIN handed' : i \in 1 .. Len(handed) \/ i = Len(handed) + 1
                BY <4>2
            <4> QED BY <3>2, <3>3, <3>4, <4>1, <4>2, <4>3 DEF HandedOverIsInside
        <3>6. inRun' \in [n : Nat, own : BOOLEAN, entries : Seq(EntrySet)]
            <4>1. inRun.own => inRun.entries # <<>> /\ Tail(inRun.entries) \in Seq(EntrySet)
                BY <1>1, <1>3
            <4>2. inRun' = [n |-> inRun.n - 1, own |-> inRun.own,
                            entries |-> IF inRun.own THEN Tail(inRun.entries) ELSE inRun.entries]
                BY <1>1, <3>2
            <4>3. inRun.n - 1 \in Nat /\ inRun.own \in BOOLEAN
                  /\ (IF inRun.own THEN Tail(inRun.entries) ELSE inRun.entries) \in Seq(EntrySet)
                BY <1>1, <4>1
            <4> QED BY <4>2, <4>3
        <3>7. cur' \in Nat /\ dts' \in [{"video", "audio"} -> Nat]
            BY <1>1, <3>2
        <3> QED BY <1>1, <3>2, <3>5, <3>6, <3>7 DEF Fmp4Inv, TracksApart
    <2> QED BY <2>4, <2>5
<1> QED BY <1>2, <1>3

\* Whatever the segments say, nothing of the picture's track is in the sound's
\* or the other way, and no sample that was handed over reaches past the bytes
\* (model/fmp4.c: fmp4_init, emit_run); of segments of any length, tracks of any
\* number and tables that lie in any way.
THEOREM NothingPastTheBytes == Fmp4Spec => [](TracksApart /\ HandedOverIsInside)
<1>1. Fmp4Init => Fmp4Inv
    <2> SUFFICES ASSUME Fmp4Init PROVE Fmp4Inv
        OBVIOUS
    <2>1. TracksApart
        BY DEF Fmp4Init, TracksApart, NoTrak
    <2>2. inRun \in [n : Nat, own : BOOLEAN, entries : Seq(EntrySet)] /\ inRun.n = 0
        BY DEF Fmp4Init, NoRun
    <2>3. turns \in Nat /\ deflt \in EntrySet
        BY Fmp4Assumption DEF Fmp4Init, EntrySet
    <2>4. handed \in Seq(SampleSet) /\ HandedOverIsInside
        BY DEF Fmp4Init, HandedOverIsInside
    <2> QED BY <2>1, <2>2, <2>3, <2>4 DEF Fmp4Init, Fmp4Inv
<1>2. Fmp4Inv /\ [Fmp4Next]_fmp4Vars => Fmp4Inv'
    <2> SUFFICES ASSUME Fmp4Inv, [Fmp4Next]_fmp4Vars PROVE Fmp4Inv'
        OBVIOUS
    <2>1. CASE TrafTorn
        BY <2>1, RefusedKeeps DEF TrafTorn
    <2>2. CASE UNCHANGED fmp4Vars
        BY <2>2 DEF fmp4Vars, trafVars, runVars, Fmp4Inv, TracksApart, HandedOverIsInside
    <2> QED BY <2>1, <2>2, InitKeeps, FindsBoxesKeeps, TrafBeginsKeeps, TfhdKeeps, TfdtKeeps, BeginsRunKeeps,
               RunEndsKeeps, RunSampleKeeps DEF Fmp4Next
<1>3. Fmp4Inv => TracksApart /\ HandedOverIsInside
    BY DEF Fmp4Inv
<1> QED BY <1>1, <1>2, <1>3, PTL DEF Fmp4Spec

=============================================================================
