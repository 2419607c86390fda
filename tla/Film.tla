-------------------------------- MODULE Film --------------------------------
(***************************************************************************)
(* One open film of model/stream.c: the stream worker takes segments off   *)
(* the link and cuts them into the two sample rings (fetch_one,            *)
(* take_sample), the drawing thread decodes the pictures as they come due  *)
(* (stream_frame), and the sound worker plays the sound (serve_audio).     *)
(* The three run concurrently over the rings, the two marks of the         *)
(* buffering and the flags g_ended and g_failed.                           *)
(*                                                                         *)
(* Time is left out: a picture may or may not be due when it is looked at, *)
(* and a frame of sound may or may not be late.                            *)
(***************************************************************************)
EXTENDS Ring, FiniteSets, Functions

CONSTANTS
    Films,              \* the films there are: sequences of segments
    VideoCap, SoundCap, \* mem_size() of the two rings
    VideoSlots,         \* SAMPLES
    SoundSlots,         \* ASAMPLES
    SegSlots,           \* SEG_SLOTS
    Low,                \* BUFFER_LOW_SAMPLES
    Go,                 \* BUFFER_GO_SAMPLES
    Tries,              \* TRIES
    MaxPauses           \* bound: pauses of the viewer

\* A segment is [len, samples]: its size on the stage, and its samples in the
\* order the file has them, each [track, at, len].
Tracks == {"video", "sound"}

Samples  == [track : Tracks, at : Nat, len : Nat \ {0}]
Segments == [len : Nat, samples : Seq(Samples) \ {<<>>}]

\* What the server's files are: a track's stamps grow from sample to sample and
\* from segment to segment (take_sample's `film <= q->took_at` goes by it), and
\* a segment is a second of film, of no more pictures than SEG_SLOTS.
FilmsGrow ==
    \A f \in Films : \A i, k \in DOMAIN f :
        \A j \in DOMAIN f[i].samples, l \in DOMAIN f[k].samples :
            /\ i < k \/ (i = k /\ j < l)
            /\ f[i].samples[j].track = f[k].samples[l].track
            => f[i].samples[j].at < f[k].samples[l].at

PicturesIn(s) == {j \in DOMAIN s.samples : s.samples[j].track = "video"}

ASSUME FilmAssumption ==
    /\ VideoCap \in Nat \ {0} /\ SoundCap \in Nat \ {0}
    /\ VideoSlots \in Nat \ {0} /\ SoundSlots \in Nat \ {0} /\ Tries \in Nat \ {0}
    /\ SegSlots \in Nat /\ Low \in Nat /\ Go \in Nat /\ MaxPauses \in Nat
    /\ \A f \in Films : f \in Seq(Segments) \ {<<>>}
    /\ FilmsGrow
    /\ \A f \in Films : \A i \in DOMAIN f : Cardinality(PicturesIn(f[i])) <= SegSlots

VARIABLES
    film,       \* the film that is open
    audioOn,    \* g_audio_on
    ring,       \* ring[t]: g_video, g_audio
    seg,        \* g_next_seg
    staged,     \* g_staged
    cursor,     \* the sample of the staged segment being cut, 0 between cuts
    fails,      \* serve()'s count
    ended,      \* g_ended
    failed,     \* g_failed
    playing,    \* g_clock.playing
    paused,     \* g_clock.paused
    frame,      \* stream_frame(): "idle", "looked", "clocked"
    held,       \* its locals: how many pictures were waiting,
    next,       \*   and the oldest of them in a set
    sound,      \* serve_audio(): the frame it peeked at, in a set
    over,       \* what stream_frame() said last of all: "no", "ended", "failed"
    pauses,     \* how often the viewer has paused
    shown,      \* history: the pictures the decoder was handed
    heard,      \* history: the sound played
    gone        \* history: the sound audio_dropped counts

feedVars == <<seg, staged, cursor, fails, ended>>
frameVars  == <<playing, paused, frame, held, next, over, pauses, shown>>
soundVars  == <<sound, heard>>
playVars == <<film, audioOn, ring, failed, gone, feedVars, frameVars, soundVars>>

CapOf(t)   == IF t = "video" THEN VideoCap ELSE SoundCap
SlotsOf(t) == IF t = "video" THEN VideoSlots ELSE SoundSlots

Segment == film[seg]

\* The stamps of a track in the segments up to n.
StampsIn(t, s) == {x.at : x \in {y \in Range(s.samples) : y.track = t}}
StampsOf(t, n) == UNION {StampsIn(t, film[i]) : i \in 1 .. n}

Waiting(t) == [i \in DOMAIN ring[t].samp |-> ring[t].samp[i].at]

FilmTypeOK ==
    /\ film \in Films
    /\ audioOn \in BOOLEAN
    /\ ring \in [Tracks -> Ring]
    /\ seg \in 1 .. Len(film) + 1
    /\ staged \in BOOLEAN
    /\ cursor \in Nat
    /\ fails \in 0 .. Tries
    /\ {ended, failed, playing, paused} \subseteq BOOLEAN
    /\ frame \in {"idle", "looked", "clocked"}
    /\ held \in 0 .. VideoSlots
    /\ next \subseteq Sample /\ sound \subseteq Sample
    /\ over \in {"no", "ended", "failed"}
    /\ pauses \in 0 .. MaxPauses
    /\ shown \in Seq(Nat) /\ heard \in Seq(Nat) /\ gone \subseteq Nat

\* The worker has the first segment staged and the init read (open_init).
FilmInit ==
    /\ film \in Films
    /\ audioOn \in BOOLEAN
    /\ ring = [t \in Tracks |-> EmptyRing]
    /\ seg = 1
    /\ staged = TRUE
    /\ cursor = 0
    /\ fails = 0
    /\ ended = FALSE
    /\ failed = FALSE
    /\ playing = FALSE
    /\ paused = FALSE
    /\ frame = "idle"
    /\ held = 0
    /\ next = {}
    /\ sound = {}
    /\ over = "no"
    /\ pauses = 0
    /\ shown = <<>>
    /\ heard = <<>>
    /\ gone = {}

-----------------------------------------------------------------------------
(* The stream worker.                                                      *)

\* A slip: a film that has failed is served on.
Serving_Failed == over = "no" /\ ~ended

\* serve() goes on: the film runs, and has neither ended nor failed.
Serving == over = "no" /\ ~failed /\ ~ended

\* seg_fetch() brought the next segment.
FetchArrives ==
    /\ Serving
    /\ ~staged
    /\ seg <= Len(film)
    /\ staged' = TRUE
    /\ UNCHANGED <<film, audioOn, ring, seg, cursor, fails, ended, failed, gone, frameVars,
                   soundVars>>

\* A slip: the last segment is taken to be past the end.
FetchEnds_Early ==
    /\ Serving
    /\ ~staged
    /\ seg >= Len(film)
    /\ ended' = TRUE
    /\ UNCHANGED <<film, audioOn, ring, seg, staged, cursor, fails, failed, gone, frameVars,
                   soundVars>>

\* seg_fetch() asked past the last segment.
FetchEnds ==
    /\ Serving
    /\ ~staged
    /\ seg = Len(film) + 1
    /\ ended' = TRUE
    /\ UNCHANGED <<film, audioOn, ring, seg, staged, cursor, fails, failed, gone, frameVars,
                   soundVars>>

\* serve()'s account of a pass that came back -1.
CountFailure ==
    /\ fails' = fails + 1
    /\ failed' = (failed \/ fails + 1 >= Tries)

\* seg_fetch() failed.
FetchFails ==
    /\ Serving
    /\ ~staged
    /\ CountFailure
    /\ UNCHANGED <<film, audioOn, ring, seg, staged, cursor, ended, gone, frameVars, soundVars>>

\* A slip: room means bytes, and the slots are not asked about.
HasRoom_BytesOnly == VideoCap - Used(ring["video"]) >= Segment.len

\* Room is bytes and slots.
HasRoom ==
    /\ VideoCap - Used(ring["video"]) >= Segment.len
    /\ VideoSlots - Queued(ring["video"]) >= SegSlots

\* fmp4_fragment() starts on the staged segment, from its first sample.
CutBegins ==
    /\ Serving
    /\ staged
    /\ cursor = 0
    /\ HasRoom
    /\ cursor' = 1
    /\ UNCHANGED <<film, audioOn, ring, seg, staged, fails, ended, failed, gone, frameVars,
                   soundVars>>

\* The fragment has a sample at the cursor.
Cutting == cursor > 0 /\ cursor \in DOMAIN Segment.samples

\* take_sample() of one that is passed over: sound nobody plays, or a sample
\* the ring had before the segment was refused.
CutSkips ==
    /\ Cutting
    /\ LET s == Segment.samples[cursor]
       IN  (s.track = "sound" /\ ~audioOn) \/ Had(ring[s.track], s.at)
    /\ cursor' = cursor + 1
    /\ UNCHANGED <<film, audioOn, ring, seg, staged, fails, ended, failed, gone, frameVars,
                   soundVars>>

\* A slip: nothing says what the ring took before a refusal.
Offered_Again(s) == s.track = "sound" => audioOn

\* A sample take_sample() offers to its ring.
Offered(s) ==
    /\ s.track = "sound" => audioOn
    /\ ~Had(ring[s.track], s.at)

\* take_sample() of one the ring takes.
CutTakes ==
    /\ Cutting
    /\ LET s == Segment.samples[cursor]
       IN  /\ Offered(s)
           /\ Fits(ring[s.track], CapOf(s.track), SlotsOf(s.track), s.len)
           /\ ring' = [ring EXCEPT ![s.track] = Put(@, CapOf(s.track), s.len, s.at)]
    /\ cursor' = cursor + 1
    /\ UNCHANGED <<film, audioOn, seg, staged, fails, ended, failed, gone, frameVars, soundVars>>

\* take_sample() of sound the ring has no room for: dropped and counted.
CutDrops ==
    /\ Cutting
    /\ LET s == Segment.samples[cursor]
       IN  /\ Offered(s)
           /\ s.track = "sound"
           /\ ~Fits(ring[s.track], SoundCap, SoundSlots, s.len)
           /\ gone' = gone \cup {s.at}
    /\ cursor' = cursor + 1
    /\ UNCHANGED <<film, audioOn, ring, seg, staged, fails, ended, failed, frameVars, soundVars>>

\* A slip: the rest of a refused segment is let go.
CutRefused_LetGo ==
    /\ Cutting
    /\ LET s == Segment.samples[cursor]
       IN  /\ Offered(s)
           /\ s.track = "video"
           /\ ~Fits(ring[s.track], VideoCap, VideoSlots, s.len)
    /\ cursor' = 0
    /\ staged' = FALSE
    /\ seg' = seg + 1
    /\ fails' = 0
    /\ UNCHANGED <<film, audioOn, ring, ended, failed, gone, frameVars, soundVars>>

\* take_sample() of a picture the ring has no room for (g_refused): the cut
\* stops there and the segment stays staged, to be cut again from its start.
CutRefused ==
    /\ Cutting
    /\ LET s == Segment.samples[cursor]
       IN  /\ Offered(s)
           /\ s.track = "video"
           /\ ~Fits(ring[s.track], VideoCap, VideoSlots, s.len)
    /\ cursor' = 0
    /\ UNCHANGED <<film, audioOn, ring, seg, staged, fails, ended, failed, gone, frameVars,
                   soundVars>>

\* The sample table does not fit its bytes: what went in stays in, and the
\* segment is fetched again.
CutBreaks ==
    /\ cursor > 0
    /\ cursor' = 0
    /\ staged' = FALSE
    /\ CountFailure
    /\ UNCHANGED <<film, audioOn, ring, seg, ended, gone, frameVars, soundVars>>

\* The whole segment is cut.
CutEnds ==
    /\ cursor > 0
    /\ cursor = Len(Segment.samples) + 1
    /\ cursor' = 0
    /\ staged' = FALSE
    /\ seg' = seg + 1
    /\ fails' = 0
    /\ UNCHANGED <<film, audioOn, ring, ended, failed, gone, frameVars, soundVars>>

Cut == CutSkips \/ CutTakes \/ CutDrops \/ CutRefused \/ CutEnds

Feeder == FetchArrives \/ FetchEnds \/ FetchFails \/ CutBegins \/ CutBreaks \/ Cut

-----------------------------------------------------------------------------
(* The drawing thread: stream_frame().                                     *)

ClockRuns == playing /\ ~paused

\* The viewer's pause, handed to the clock as the next frame begins.
Pause ==
    /\ over = "no"
    /\ frame = "idle"
    /\ ~paused
    /\ pauses < MaxPauses
    /\ paused' = TRUE
    /\ pauses' = pauses + 1
    /\ UNCHANGED <<film, audioOn, ring, failed, gone, feedVars, soundVars,
                   playing, frame, held, next, over, shown>>

Resume ==
    /\ over = "no"
    /\ frame = "idle"
    /\ paused
    /\ paused' = FALSE
    /\ UNCHANGED <<film, audioOn, ring, failed, gone, feedVars, soundVars,
                   playing, frame, held, next, over, pauses, shown>>

\* A film that has failed is over, whatever is still buffered.
FrameFails ==
    /\ over = "no"
    /\ frame = "idle"
    /\ failed
    /\ over' = "failed"
    /\ UNCHANGED <<film, audioOn, ring, failed, gone, feedVars, soundVars,
                   playing, paused, frame, held, next, pauses, shown>>

\* The look under the lock.
FrameLooks ==
    /\ over = "no"
    /\ frame = "idle"
    /\ ~failed
    /\ held' = Queued(ring["video"])
    /\ next' = IF Queued(ring["video"]) > 0 THEN {Head(ring["video"].samp)} ELSE {}
    /\ frame' = "looked"
    /\ UNCHANGED <<film, audioOn, ring, failed, gone, feedVars, soundVars,
                   playing, paused, over, pauses, shown>>

\* A slip: once stopped, the clock waits for the go mark even at the end.
FrameClocks_GoOnly ==
    /\ frame = "looked"
    /\ playing' = IF ClockRuns
                     THEN held >= Low \/ ended
                     ELSE playing \/ held >= Go
    /\ frame' = "clocked"
    /\ UNCHANGED <<film, audioOn, ring, failed, gone, feedVars, soundVars,
                   paused, held, next, over, pauses, shown>>

\* The two marks: a running clock stops below the low one, a stopped one goes
\* at the high one, and neither holds once the film is all here.
FrameClocks ==
    /\ frame = "looked"
    /\ playing' = IF ClockRuns
                     THEN held >= Low \/ ended
                     ELSE playing \/ held >= Go \/ (ended /\ next # {})
    /\ frame' = "clocked"
    /\ UNCHANGED <<film, audioOn, ring, failed, gone, feedVars, soundVars,
                   paused, held, next, over, pauses, shown>>

\* The frame's locals go with it.
FrameReturns ==
    /\ frame' = "idle"
    /\ held' = 0
    /\ next' = {}

\* Nothing was waiting: the film has ended, or has nothing new yet.
FrameEmpty ==
    /\ frame = "clocked"
    /\ next = {}
    /\ over' = IF ended THEN "ended" ELSE over
    /\ FrameReturns
    /\ UNCHANGED <<film, audioOn, ring, failed, gone, feedVars, soundVars,
                   playing, paused, pauses, shown>>

\* The clock is stopped, or the picture's time has not come.
FrameWaits ==
    /\ frame = "clocked"
    /\ next # {}
    /\ FrameReturns
    /\ UNCHANGED <<film, audioOn, ring, failed, gone, feedVars, soundVars,
                   playing, paused, over, pauses, shown>>

\* The picture is due: the decoder is handed it and it is given up. A decoder
\* that gives nothing for it yet has had it all the same; one that refuses it
\* ends the film.
FrameShows ==
    /\ frame = "clocked"
    /\ ClockRuns
    /\ \E r \in next :
          /\ ring' = [ring EXCEPT !["video"] = Pop(@, r)]
          /\ \/ shown' = Append(shown, r.at) /\ UNCHANGED <<failed, over>>
             \/ failed' = TRUE /\ over' = "failed" /\ UNCHANGED shown
    /\ FrameReturns
    /\ UNCHANGED <<film, audioOn, gone, feedVars, soundVars,
                   playing, paused, pauses>>

Frame == FrameFails \/ FrameLooks \/ FrameClocks \/ FrameEmpty \/ FrameWaits
         \/ FrameShows

-----------------------------------------------------------------------------
(* The sound worker: serve_audio().                                        *)

\* Silent while the picture is frozen.
SoundLooks ==
    /\ over = "no"
    /\ audioOn
    /\ ClockRuns
    /\ sound = {}
    /\ Queued(ring["sound"]) > 0
    /\ sound' = {Head(ring["sound"].samp)}
    /\ UNCHANGED <<film, audioOn, ring, failed, gone, feedVars, frameVars, heard>>

\* Only the film's first frame of sound waits, for the first picture.
SoundWaits ==
    /\ sound # {}
    /\ heard = <<>>
    /\ sound' = {}
    /\ UNCHANGED <<film, audioOn, ring, failed, gone, feedVars, frameVars, heard>>

MayStart == heard # <<>> \/ shown # <<>>

\* A frame whose time has passed is dropped, never played late.
SoundDrops ==
    /\ MayStart
    /\ \E r \in sound :
          /\ ring' = [ring EXCEPT !["sound"] = Pop(@, r)]
          /\ gone' = gone \cup {r.at}
    /\ sound' = {}
    /\ UNCHANGED <<film, audioOn, failed, feedVars, frameVars, heard>>

\* audio_play() took the frame, and it is given up when that returns.
SoundPlays ==
    /\ MayStart
    /\ \E r \in sound :
          /\ ring' = [ring EXCEPT !["sound"] = Pop(@, r)]
          /\ heard' = Append(heard, r.at)
    /\ sound' = {}
    /\ UNCHANGED <<film, audioOn, failed, gone, feedVars, frameVars>>

SoundWorker == SoundLooks \/ SoundWaits \/ SoundDrops \/ SoundPlays

-----------------------------------------------------------------------------

FilmNext == Feeder \/ Pause \/ Resume \/ Frame \/ SoundWorker

FilmSpec == FilmInit /\ [][FilmNext]_playVars

\* The stream worker's thread runs and the server answers in the end; the
\* drawing thread draws; a picture whose clock runs comes due; the viewer
\* comes back from a pause.
FilmFairSpec ==
    /\ FilmSpec
    /\ WF_playVars(FetchArrives \/ FetchEnds)
    /\ WF_playVars(CutBegins)
    /\ WF_playVars(Cut)
    /\ WF_playVars(FrameFails \/ FrameLooks \/ FrameClocks \/ FrameEmpty)
    /\ WF_playVars(FrameWaits \/ FrameShows)
    /\ SF_playVars(FrameShows)
    /\ SF_playVars(Resume)

-----------------------------------------------------------------------------
(* Properties.                                                             *)

Growing(stamps) == \A i, j \in DOMAIN stamps : i < j => stamps[i] < stamps[j]

Pictures == shown \o Waiting("video")
Sounds   == heard \o Waiting("sound")

\* stream.h, "a caller gets each picture once": the pictures the decoder was
\* handed and those waiting are the film's, in order, none twice, and none
\* missing before the newest of them, however often a segment was refused or
\* broken and cut again.
PicturesWhole ==
    ~failed =>
        LET all == StampsOf("video", Len(film))
        IN  /\ Growing(Pictures)
            /\ Range(Pictures) \subseteq all
            /\ \A x \in Range(Pictures) : \A s \in all : s <= x => s \in Range(Pictures)

\* Sound comes out in the film's order and no frame twice, and a frame of a
\* segment that is done with was played, waits, or was dropped and counted.
SoundAccounted ==
    /\ Growing(Sounds)
    /\ audioOn => StampsOf("sound", seg - 1) \subseteq Range(Sounds) \cup gone

\* take_sample's refusal is "a backstop": with SEG_SLOTS free before a cut and
\* no more pictures in a segment than that, slots never run out during one.
SlotsSuffice ==
    Cutting =>
        LET s == Segment.samples[cursor]
        IN  s.track = "video" /\ Offered(s) => Queued(ring["video"]) < VideoSlots

\* stream_frame() says the film has ended only when every segment has been
\* cut up; what it may not have noticed is still in the ring.
EndIsReal ==
    over = "ended" => ~failed /\ Range(Pictures) = StampsOf("video", Len(film))

\* One film: its pictures and its sound, and the end it says it has come to.
FilmIsWhole == PicturesWhole /\ SoundAccounted /\ SlotsSuffice /\ EndIsReal

\* stream.h: -1 is "the film ended", and "a caller gets each picture once".
EndedAfterLastPicture ==
    over = "ended" => Range(shown) = StampsOf("video", Len(film))

\* The film comes to its end: the two marks and the room a segment needs
\* never leave the fetching thread and the player waiting for each other.
FilmPlaysOut == <>(over # "no")

=============================================================================
