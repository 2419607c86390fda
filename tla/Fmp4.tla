-------------------------------- MODULE Fmp4 --------------------------------
(***************************************************************************)
(* model/fmp4.c: the initialisation segment says which trak is the picture *)
(* and which the sound, and a media segment is walked box by box and its   *)
(* samples handed to take_sample() of model/stream.c, which may turn one   *)
(* away.                                                                   *)
(*                                                                         *)
(* A box that runs past the bytes it is in is Torn and ends the walk it is *)
(* in. A length counts words of four bytes. A box of a trak stands where   *)
(* the boxes around it have been gone into. What a word of the mdat reads  *)
(* as is its value; a run's lead is its offset less the moof and eight.    *)
(***************************************************************************)
EXTENDS Integers, Sequences

CONSTANTS
    Inits,      \* initialisation segments: the moov's traks, each a sequence of boxes
    Segments,   \* media segments: sequences of boxes
    ParamMax,   \* FMP4_PARAM_MAX
    TurnsAway,  \* after how many samples the ring turns one away, 0 for never
    Whole       \* what a segment that does not lie carries, by segment

Elements(s) == {s[i] : i \in DOMAIN s}
Traks      == UNION {Elements(s) : s \in Inits}
TrakBoxes  == UNION {Elements(t) : t \in Traks}
MediaBoxes == UNION {Elements(s) : s \in Segments}
Trafs      == UNION {Elements(b.trafs) : b \in {b \in MediaBoxes : b.type = "moof"}}
TrafBoxes  == UNION {Elements(t) : t \in Trafs}

\* The fields are read as unsigned, a run's lead may be any; and a trak is of
\* one medium, it has a picture's record or a sound's.
ASSUME Fmp4Assumption ==
    /\ TurnsAway \subseteq Nat
    /\ Inits \subseteq Seq(Traks) /\ Traks \subseteq Seq(TrakBoxes)
    /\ \A t \in Traks, b, c \in TrakBoxes :
          b \in Elements(t) /\ c \in Elements(t) => ~(b.type = "avcC" /\ c.type = "esds")
    /\ Segments \subseteq Seq(MediaBoxes) /\ Trafs \subseteq Seq(TrafBoxes)
    /\ \A b \in MediaBoxes :
          /\ b.type = "moof" => b.trafs \in Seq(Trafs)
          /\ b.type = "mdat" => b.words \in Seq(Nat)
    /\ \A b \in TrafBoxes :
          /\ b.type = "tfhd" => b.dur \in Nat /\ b.size \in Nat
          /\ b.type = "tfdt" => b.at \in Nat
          /\ b.type = "trun" => /\ b.n \in Nat /\ b.own \in BOOLEAN /\ b.lead \in Int
                                /\ b.entries \in Seq([dur : Nat, size : Nat])

VARIABLES
    fmp4,       \* the two tracks: [video, audio]
    source,     \* the segment that is walked
    turns,      \* its element of TurnsAway
    walk,       \* "init", "boxes", "table" or "done"
    mdat,       \* the words of the mdat
    trafs,      \* what is left of the moof,
    inTraf,     \* of the traf it is in,
    inRun,      \* and of the run: [n, own, entries]
    track, deflt,   \* walk_traf()'s locals
    cur,        \* emit_run()'s at
    dts,        \* of each track
    pace,       \* m->sample_duration
    handed,     \* the samples handed over
    answer      \* what fmp4_fragment() returns, -1 with "refused"

runVars  == <<inRun, cur>>
trafVars == <<trafs, inTraf, track, deflt>>
fmp4Vars == <<fmp4, source, turns, walk, mdat, trafVars, runVars, dts, pace, handed, answer>>

Torn == "torn"
NoRun == [n |-> 0, own |-> FALSE, entries |-> <<>>]
NoTrak == [id |-> 0, scale |-> 0, sps |-> 0, pps |-> 0, rate |-> 0, asc |-> 0]

-----------------------------------------------------------------------------
(* fmp4_init().                                                            *)

\* take_avcc(): the first of each set, if all up to it is there.
AvccFits(b) ==
    /\ b.sps # <<>> /\ b.pps # <<>>
    /\ Head(b.sps) <= ParamMax /\ Head(b.pps) <= ParamMax
    /\ LET past[i \in 0 .. Len(b.sps)] == IF i = 0 THEN 9 ELSE past[i - 1] + 2 + b.sps[i]
       IN  past[Len(b.sps)] + Head(b.pps) <= b.len

\* walk_trak() of one box.
TakeBox(b, t) ==
    CASE b.type = "tkhd" -> [t EXCEPT !.id = b.id]
      [] b.type = "mdhd" -> [t EXCEPT !.scale = b.scale]
      [] b.type = "avcC" -> IF AvccFits(b) THEN [t EXCEPT !.sps = Head(b.sps), !.pps = Head(b.pps)]
                                           ELSE [t EXCEPT !.sps = 0]
      [] b.type = "mp4a" -> [t EXCEPT !.rate = b.rate]
      [] b.type = "esds" -> IF b.asc \in 1..ParamMax THEN [t EXCEPT !.asc = b.asc] ELSE t
      [] OTHER -> t

\* The boxes of a walk, up to the one that does not fit.
Fitting(boxes) ==
    LET torn == {i \in DOMAIN boxes : boxes[i].type = Torn}
    IN  IF torn = {} THEN boxes ELSE SubSeq(boxes, 1, (CHOOSE i \in torn : \A j \in torn : i <= j) - 1)

\* walk_trak() of a trak, into a record of its own.
Walked(boxes) ==
    LET walked[i \in 0 .. Len(boxes)] == IF i = 0 THEN NoTrak ELSE TakeBox(boxes[i], walked[i - 1])
    IN  walked[Len(boxes)]

\* The first trak with sound in it is the sound, the first other one with a
\* picture the picture.
TakeTrak(m, boxes) ==
    LET t == Walked(Fitting(boxes))
    IN  IF t.asc # 0 /\ m.audio.asc = 0
           THEN [m EXCEPT !.audio = [t EXCEPT !.rate = IF @ = 0 THEN t.scale ELSE @]]
        ELSE IF t.sps # 0 /\ m.video.sps = 0 THEN [m EXCEPT !.video = t]
        ELSE m

TakeTraks(traks) ==
    LET taken[i \in 0 .. Len(traks)] ==
            IF i = 0 THEN [video |-> NoTrak, audio |-> NoTrak] ELSE TakeTrak(taken[i - 1], traks[i])
    IN  taken[Len(traks)]

fmp4_init ==
    /\ walk = "init"
    /\ \E traks \in Inits : fmp4' = TakeTraks(traks)
    /\ IF fmp4'.video.sps = 0 \/ fmp4'.video.scale = 0
          THEN walk' = "done" /\ answer' = "refused"
          ELSE walk' = "boxes" /\ UNCHANGED answer
    /\ UNCHANGED <<source, turns, mdat, trafVars, runVars, dts, pace, handed>>

-----------------------------------------------------------------------------
(* fmp4_fragment().                                                        *)

Refused ==
    /\ walk' = "done" /\ answer' = "refused"
    /\ UNCHANGED <<fmp4, source, turns, mdat, trafVars, runVars, dts, pace, handed>>

\* The boxes looked at: as far as an mdat right behind its moof.
Looked ==
    LET pairs == {i \in 2..Len(source) : source[i].type = "mdat" /\ source[i - 1].type = "moof"}
    IN  IF pairs = {} THEN source ELSE SubSeq(source, 1, CHOOSE i \in pairs : \A j \in pairs : i <= j)

Found(type) == {i \in DOMAIN Looked : Looked[i].type = type}
LastBox(type) == Looked[CHOOSE i \in Found(type) : \A j \in Found(type) : j <= i]

FindsBoxes ==
    /\ walk = "boxes"
    /\ IF Fitting(Looked) # Looked \/ Found("moof") = {} \/ Found("mdat") = {} THEN Refused
       ELSE /\ trafs' = LastBox("moof").trafs /\ mdat' = LastBox("mdat").words
            /\ walk' = "table"
            /\ UNCHANGED <<fmp4, source, turns, inTraf, track, deflt, runVars, dts, pace,
                           handed, answer>>

\* The next traf of the moof, or the end.
TrafBegins ==
    /\ walk = "table" /\ inTraf = <<>> /\ inRun.n = 0
    /\ IF trafs # <<>>
          THEN /\ inTraf' = Head(trafs) /\ trafs' = Tail(trafs)
               /\ track' = "none" /\ deflt' = [dur |-> 0, size |-> 0]
               /\ UNCHANGED <<fmp4, source, turns, walk, mdat, runVars, dts, pace, handed, answer>>
       ELSE IF handed = <<>> THEN Refused
       ELSE /\ walk' = "done" /\ answer' = "samples"
            /\ UNCHANGED <<fmp4, source, turns, mdat, trafVars, runVars, dts, pace, handed>>

\* walk_traf() looks at its next box.
AtBox(type) == walk = "table" /\ inTraf # <<>> /\ inRun.n = 0 /\ Head(inTraf).type = type

TrackOf(id) ==
    IF id = fmp4.video.id THEN "video"
    ELSE IF fmp4.audio.asc # 0 /\ id = fmp4.audio.id THEN "audio" ELSE "none"

TakesTfhd ==
    /\ AtBox("tfhd")
    /\ LET b == Head(inTraf)
       IN  IF b.cut THEN Refused
           ELSE /\ track' = TrackOf(b.id)
                /\ deflt' = [dur |-> IF b.dur = 0 THEN deflt.dur ELSE b.dur,
                             size |-> IF b.size = 0 THEN deflt.size ELSE b.size]
                /\ inTraf' = Tail(inTraf)
                /\ UNCHANGED <<fmp4, source, turns, walk, mdat, trafs, runVars, dts, pace,
                               handed, answer>>

\* "The only thing that survives a discontinuity; durations alone drift".
TakesTfdt ==
    /\ AtBox("tfdt")
    /\ dts' = IF track = "none" THEN dts ELSE [dts EXCEPT ![track] = Head(inTraf).at]
    /\ inTraf' = Tail(inTraf)
    /\ UNCHANGED <<fmp4, source, turns, walk, mdat, trafs, track, deflt, runVars, pace, handed,
                   answer>>

\* emit_run() of a track that is handed over; its offset cannot be in the moof.
BeginsRun ==
    /\ AtBox("trun")
    /\ LET b == Head(inTraf)
       IN  IF track # "none" /\ b.lead < 0 THEN Refused
           ELSE /\ IF track = "none" THEN UNCHANGED runVars
                   ELSE /\ inRun' = [n |-> b.n, own |-> b.own, entries |-> b.entries]
                        /\ cur' = b.lead
                /\ inTraf' = Tail(inTraf)
                /\ UNCHANGED <<fmp4, source, turns, walk, mdat, trafs, track, deflt, dts,
                               pace, handed, answer>>

\* A box that does not fit ends the traf, and with it the fragment.
TrafTorn == AtBox(Torn) /\ Refused

\* The callback has turned a sample away.
Stopped == turns # 0 /\ Len(handed) >= turns

RunEnds ==
    /\ inRun.n > 0 /\ Stopped /\ walk = "table"
    /\ inRun' = NoRun
    /\ UNCHANGED <<fmp4, source, turns, walk, mdat, trafVars, cur, dts, pace, handed, answer>>

\* A slip: what is before the sample is not taken off.
Inside_FromStart(size) == size > 0 /\ cur <= Len(mdat) /\ size <= Len(mdat)

\* The bytes are the mdat's.
Inside(size) == size > 0 /\ cur <= Len(mdat) /\ size <= Len(mdat) - cur

\* "the first NAL's length is the cheap check that table and bytes agree".
Agrees(size) == track = "video" => mdat[cur + 1] <= size - 1

RunSample ==
    /\ inRun.n > 0 /\ ~Stopped /\ walk = "table"
    /\ IF inRun.own /\ inRun.entries = <<>> THEN Refused
       ELSE LET e == IF inRun.own THEN Head(inRun.entries) ELSE deflt
            IN  IF ~Inside(e.size) \/ ~Agrees(e.size) THEN Refused
                ELSE /\ handed' = Append(handed, [track |-> track, at |-> cur, len |-> e.size,
                                                  dts |-> dts[track]])
                     /\ pace' = IF track = "video" /\ e.dur # 0 THEN e.dur ELSE pace
                     /\ dts' = [dts EXCEPT ![track] = @ + e.dur]
                     /\ cur' = cur + e.size
                     /\ inRun' = [inRun EXCEPT !.n = @ - 1, !.entries = IF inRun.own THEN Tail(@) ELSE @]
                     /\ UNCHANGED <<fmp4, source, turns, walk, mdat, trafVars, answer>>

-----------------------------------------------------------------------------

Fmp4Init ==
    /\ fmp4 = [video |-> NoTrak, audio |-> NoTrak]
    /\ source \in Segments /\ turns \in TurnsAway
    /\ walk = "init" /\ mdat = <<>> /\ trafs = <<>> /\ inTraf = <<>>
    /\ inRun = NoRun /\ cur = 0
    /\ track = "none" /\ deflt = [dur |-> 0, size |-> 0]
    /\ dts = [t \in {"video", "audio"} |-> 0] /\ pace = 0
    /\ handed = <<>> /\ answer = "none"

Fmp4Next ==
    \/ fmp4_init \/ FindsBoxes
    \/ TrafBegins \/ TakesTfhd \/ TakesTfdt \/ BeginsRun \/ TrafTorn
    \/ RunEnds \/ RunSample

Fmp4Spec == Fmp4Init /\ [][Fmp4Next]_fmp4Vars

-----------------------------------------------------------------------------
(* Properties.                                                             *)

\* fmp4.c: "walking the whole moov into one lets the audio track overwrite the
\* video one". Nothing of either is in the other.
TracksApart == fmp4.video.asc = 0 /\ fmp4.audio.sps = 0

\* A segment whose table is true is handed over whole, every sample in its
\* place and with its own track's time, up to the one that is turned away.
TrueIsWhole ==
    source \in DOMAIN Whole /\ walk = "done" /\ fmp4.video.scale # 0 =>
        /\ answer = "samples"
        /\ handed = IF turns = 0 THEN Whole[source] ELSE SubSeq(Whole[source], 1, turns)

\* However the table lies, no sample reaches past the bytes of the mdat, and
\* what was handed over before it was refused is what went in.
HandedOverIsInside ==
    \A i \in DOMAIN handed : handed[i].len > 0 /\ handed[i].at + handed[i].len <= Len(mdat)

\* The three together.
SamplesAreTheFiles == TracksApart /\ TrueIsWhole /\ HandedOverIsInside

=============================================================================
