------------------------------ MODULE MCPlayer ------------------------------
(***************************************************************************)
(* What the player goes by, each part by itself and side by side: its page *)
(* over the stream's sessions and the reports (Player), the clock a film   *)
(* plays by (PlayClock) and the segments it is cut from (Fmp4). A          *)
(* behaviour is of one of them, which `part` names, and the rest stands    *)
(* still.                                                                  *)
(***************************************************************************)
EXTENDS Player, PlayClock, Fmp4, SequencesExt

(* Segments for Fmp4.                                                      *)

Picture == [type |-> "avcC", sps |-> <<2>>, pps |-> <<1>>, len |-> 14]
Sound   == [type |-> "esds", asc |-> 2]
Tkhd(id) == [type |-> "tkhd", id |-> id]
Mdhd(scale) == [type |-> "mdhd", scale |-> scale]
VideoTrak == <<Tkhd(1), Mdhd(10), Picture>>
SoundTrak == <<Tkhd(2), Mdhd(8), [type |-> "mp4a", rate |-> 0], Sound>>
Cut       == <<Tkhd(1), Mdhd(10), [Picture EXCEPT !.len = 11]>>

InitSegments == {
    <<VideoTrak, SoundTrak>>, <<SoundTrak, VideoTrak>>, <<VideoTrak, SoundTrak, VideoTrak>>,
    <<Cut, SoundTrak>>, <<SoundTrak, <<Tkhd(3)>>, <<Tkhd(1), Picture, [type |-> Torn], Mdhd(10)>> >> }

\* The words of samples: a picture begins with its length, and what is inside
\* one reads as a length no sample has.
Words(sizes) == FoldLeft(LAMBDA w, l : w \o <<l - 1>> \o [j \in 1..l - 1 |-> 99], <<>>, sizes)

Tfhd(id, d, size) == [type |-> "tfhd", id |-> id, dur |-> d, size |-> size, cut |-> FALSE]
Tfdt(at) == [type |-> "tfdt", at |-> at]
Table(lead, entries) == [type |-> "trun", lead |-> lead, n |-> Len(entries), own |-> TRUE,
                         entries |-> entries]
Run(lead, n) == [type |-> "trun", lead |-> lead, n |-> n, own |-> FALSE, entries |-> <<>>]
E(d, size) == [dur |-> d, size |-> size]
Moof(all) == [type |-> "moof", trafs |-> all]
Mdat == [type |-> "mdat", words |-> Words(<<2, 3, 1, 1>>)]
Other == [type |-> "free"]

\* Two pictures, then two frames of sound, in the server's order.
Pictures == <<Tfhd(1, 0, 0), Tfdt(40), Table(0, <<E(8, 2), E(5, 3)>>)>>
Sounds   == <<Tfhd(2, 4, 1), Tfdt(30), Run(5, 1), Run(6, 1)>>
Carried == << [track |-> "video", at |-> 0, len |-> 2, dts |-> 40],
              [track |-> "video", at |-> 2, len |-> 3, dts |-> 48],
              [track |-> "audio", at |-> 5, len |-> 1, dts |-> 30],
              [track |-> "audio", at |-> 6, len |-> 1, dts |-> 34] >>

TrueSegments == {
    <<Moof(<<Pictures, Sounds>>), Mdat>>,
    <<Other, Moof(<<Pictures, <<Tfhd(9, 1, 1), Run(0, 1)>>, Sounds>>), Mdat, Moof(<<Sounds>>), Mdat>> }

WholeOnes == [s \in TrueSegments |-> Carried]

\* The pictures' table with one thing in it that does not fit.
Lie(t) == <<Moof(<< <<Tfhd(1, 0, 0), Tfdt(40), t>>, Sounds>>), Mdat>>

Lies == {
    Lie(Table(0, <<E(8, 2), E(5, 6)>>)), Lie(Table(6, <<E(8, 1), E(5, 1)>>)), Lie(Table(-1, <<E(8, 2)>>)),
    Lie(Table(1, <<E(8, 2)>>)), Lie(Table(0, <<E(8, 2), E(5, 0)>>)),
    Lie([Table(0, <<E(8, 2)>>) EXCEPT !.n = 2]),
    Lie(Run(0, 1)), Lie([type |-> Torn]), Lie([Tfhd(1, 0, 0) EXCEPT !.cut = TRUE]), Lie(Run(9, 0)),
    <<Moof(<<Pictures>>), Other, Mdat>>, <<Moof(<<Pictures>>), [type |-> Torn]>>,
    <<Mdat, Moof(<<Pictures>>)>>,
    <<Mdat>>, <<Moof(<<Pictures>>)>>, <<Moof(<< <<>> >>), Mdat>>,
    <<Moof(<<Pictures>>), [Mdat EXCEPT !.words = <<1>>]>> }

Media == TrueSegments \cup Lies

-----------------------------------------------------------------------------
VARIABLE part

PartsInit ==
    /\ part \in {"page", "clock", "file"}
    /\ PlayerInit /\ (part = "page" \/ (ready /\ reporting))
    /\ ClockInit /\ (part = "clock" \/ now = 0)
    /\ Fmp4Init
    /\ \/ part = "file"
       \/ (source = CHOOSE s \in Segments : TRUE) /\ (turns = CHOOSE n \in TurnsAway : TRUE)

\* One part moves.
PageMoves(step)  == part = "page" /\ step /\ UNCHANGED <<part, clockVars, fmp4Vars>>
ClockMoves(step) == part = "clock" /\ step /\ UNCHANGED <<part, playerVars, fmp4Vars>>
FileMoves(step)  == part = "file" /\ step /\ UNCHANGED <<part, playerVars, clockVars>>

PartsNext == PageMoves(PlayerNext) \/ ClockMoves(ClockNext) \/ FileMoves(Fmp4Next)

PartsSpec == PartsInit /\ [][PartsNext]_<<part, playerVars, clockVars, fmp4Vars>>

=============================================================================
