----------------------------- MODULE MCPlaying -----------------------------
(***************************************************************************)
(* What plays a film, each part by itself and side by side: one film over  *)
(* its two rings (Film), a ring with its bytes (SampleRing), films opened  *)
(* and closed one after another (Stream) and the queue of what the server  *)
(* is told (Reports). No step of one moves another, so a behaviour is of   *)
(* one of them, which `part` names, and the rest stands still.             *)
(***************************************************************************)
EXTENDS Film, SampleRing, Stream, Reports

VARIABLE part

(* Small films for Film.                                                   *)

V(t, len) == [track |-> "video", at |-> t, len |-> len]
S(t)      == [track |-> "sound", at |-> t, len |-> 1]

\* Small pictures, so that slots run out before bytes, and the sound after
\* the pictures, as the server writes it.
Small == << [len |-> 4, samples |-> <<V(1, 1), V(2, 1), S(1)>>],
            [len |-> 4, samples |-> <<V(3, 1), V(4, 1), S(3)>>],
            [len |-> 4, samples |-> <<V(5, 1), V(6, 1)>>] >>

\* Uneven pictures: the third segment meets the join of the ring part way and
\* is refused there.  Sound before pictures, and after.
Uneven == << [len |-> 4, samples |-> <<S(1), V(1, 1), V(2, 2)>>],
             [len |-> 7, samples |-> <<S(3), V(3, 3), V(4, 3)>>],
             [len |-> 5, samples |-> <<V(5, 3), V(6, 1), S(5)>>] >>

MCFilms == {Small, Uneven}

-----------------------------------------------------------------------------
(* One part moves.                                                         *)

sideVars == <<playVars, ringVars, streamVars, reportsVars>>
partVars == <<part, sideVars>>

\* A part that stands still begins in one of its initial states.
PlayingInit ==
    /\ part \in {"film", "ring", "stream", "reports"}
    /\ FilmInit /\ (part = "film" \/ (film = Small /\ audioOn))
    /\ RingInit
    /\ StreamInit
    /\ ReportsInit /\ (part = "reports" \/ (ready /\ reporting))

\* One part moves.
FilmMoves(step) ==
    part = "film" /\ step /\ UNCHANGED <<part, ringVars, streamVars, reportsVars>>
RingMoves(step) ==
    part = "ring" /\ step /\ UNCHANGED <<part, playVars, streamVars, reportsVars>>
StreamMoves(step) ==
    part = "stream" /\ step /\ UNCHANGED <<part, playVars, ringVars, reportsVars>>
ReportsMoves(step) ==
    part = "reports" /\ step /\ UNCHANGED <<part, playVars, ringVars, streamVars>>

PlayingNext ==
    \/ FilmMoves(FilmNext) \/ RingMoves(RingNext)
    \/ StreamMoves(StreamNext) \/ ReportsMoves(ReportsNext)

\* The fairness of FilmFairSpec, StreamFairSpec and ReportsFairSpec.
PlayingSpec ==
    /\ PlayingInit /\ [][PlayingNext]_partVars
    /\ WF_partVars(FilmMoves(FetchArrives \/ FetchEnds))
    /\ WF_partVars(FilmMoves(CutBegins))
    /\ WF_partVars(FilmMoves(Cut))
    /\ WF_partVars(FilmMoves(FrameFails \/ FrameLooks \/ FrameClocks \/ FrameEmpty))
    /\ WF_partVars(FilmMoves(FrameWaits \/ FrameShows))
    /\ SF_partVars(FilmMoves(FrameShows))
    /\ SF_partVars(FilmMoves(Resume))
    /\ WF_partVars(StreamMoves(Opener /\ at' # at))
    /\ WF_partVars(StreamMoves(OwnerGoesOn))
    /\ WF_partVars(ReportsMoves(Serve))

\* A film comes to its end: the marks, the room and the refusals never leave
\* the fetching thread and the player waiting for each other. A film that is
\* opening comes to play or to fail unless it is closed first. A report does
\* not wait for ever (FilmPlaysOut, OpeningResolves and Drained, each for the
\* part that moves).
PlayingResolves ==
    /\ part = "film" \/ (part = "stream" /\ running)
       ~> \/ part = "film" /\ over # "no"
          \/ part = "stream" /\ (decoder # None \/ gaveUp \/ ~running)
    /\ Drained

=============================================================================
