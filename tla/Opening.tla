------------------------------ MODULE Opening ------------------------------
(***************************************************************************)
(* What model/stream.h promises its caller about play sessions, with       *)
(* nothing of how it is done: stream_open() returns at once and a session  *)
(* comes later, or never; stream_session() is empty until then and again   *)
(* once the film is closed; the server starts an encoder only for a film   *)
(* that was still wanted when its segment was asked for.                   *)
(*                                                                         *)
(* A film is the number of the stream_open() that asked for it. Stream     *)
(* implements this, and Player uses it.                                    *)
(***************************************************************************)
EXTENDS Naturals

CONSTANT MaxOpens   \* bound: calls of stream_open

None  == 0
Opens == 1 .. MaxOpens

VARIABLES
    running,    \* a film is open, as far as the caller is concerned
    opened,     \* its session is there
    item,       \* the film opened last
    session,    \* the film the session was opened for
    pass,       \* the worker: "none", "asking" the server for a session, or
                \* "starting" the film with its first segment
    film,       \* the film it is doing that for
    call,       \* the caller: "idle", or in "close", in "open", or in the
                \* rest of an open, "raise"
    encoders    \* the films the server has started an encoder for

vars == <<running, opened, item, session, pass, film, call, encoders>>

TypeOK ==
    /\ {running, opened} \subseteq BOOLEAN
    /\ {item, session, film} \subseteq Opens \cup {None}
    /\ pass \in {"none", "asking", "starting"}
    /\ call \in {"idle", "close", "open", "raise"}
    /\ encoders \subseteq Opens

Init ==
    /\ running = FALSE /\ opened = FALSE
    /\ item = None /\ session = None
    /\ pass = "none" /\ film = None
    /\ call = "idle"
    /\ encoders = {}

-----------------------------------------------------------------------------
(* The worker.                                                             *)

Ask ==
    /\ pass = "none"
    /\ running
    /\ ~opened
    /\ pass' = "asking"
    /\ film' = item
    /\ UNCHANGED <<running, opened, item, session, call, encoders>>

\* The session is there. The film may have been closed meanwhile.
Answer ==
    /\ pass = "asking"
    /\ session' = film
    /\ opened' = TRUE
    /\ pass' = "starting"
    /\ UNCHANGED <<running, item, film, call, encoders>>

Encode ==
    /\ pass = "starting"
    /\ running
    /\ encoders' = encoders \cup {film}
    /\ UNCHANGED <<running, opened, item, session, pass, film, call>>

\* The start is over, or failed, or the session was refused.
Done ==
    /\ pass # "none"
    /\ pass' = "none"
    /\ UNCHANGED <<running, opened, item, session, film, call, encoders>>

Worker == Ask \/ Answer \/ Encode \/ Done

-----------------------------------------------------------------------------
(* The caller.                                                             *)

CloseBegins(why) ==
    /\ call = "idle"
    /\ running' = FALSE
    /\ call' = why
    /\ UNCHANGED <<opened, item, session, pass, film, encoders>>

\* The film is torn down, whether the worker is out of its pass or not.
Down ==
    /\ call \in {"close", "open"}
    /\ opened' = FALSE
    /\ call' = IF call = "open" THEN "raise" ELSE "idle"
    /\ UNCHANGED <<running, item, session, pass, film, encoders>>

Raise ==
    /\ call = "raise"
    /\ item < MaxOpens
    /\ item' = item + 1
    /\ session' = None
    /\ opened' = FALSE
    /\ running' = TRUE
    /\ call' = "idle"
    /\ UNCHANGED <<pass, film, encoders>>

Refuse ==
    /\ call = "raise"
    /\ call' = "idle"
    /\ UNCHANGED <<running, opened, item, session, pass, film, encoders>>

CallGoesOn == Down \/ Raise \/ Refuse

-----------------------------------------------------------------------------

Next == Worker \/ CloseBegins("close") \/ CloseBegins("open") \/ CallGoesOn

Spec == Init /\ [][Next]_vars

=============================================================================
