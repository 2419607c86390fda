----------------------------- MODULE PlayClock -----------------------------
(***************************************************************************)
(* The film's clock, model/play_clock.c, between the frame that steps it   *)
(* (stream_frame) and the sound worker whose frames it follows             *)
(* (serve_audio). Time is the 32-bit microsecond clock of the platform,    *)
(* which wraps; it passes by a frame's time, by a stall's, or by a         *)
(* suspend's, which may be a whole turn of it. A tick of film is a         *)
(* microsecond here. Whether enough is buffered is Film's, any value here. *)
(***************************************************************************)
EXTENDS Integers

CONSTANTS
    ClockWrap,      \* 2^32
    StepCap,        \* PLAY_CLOCK_STEP_CAP_US
    SoundFrame,     \* PLAY_CLOCK_SOUND_FRAME_US
    SoundStale,     \* PLAY_CLOCK_SOUND_STALE_US
    SoundAlone,     \* SOUND_ALONE_US
    Passes,         \* how much time may pass at once
    LastPos         \* bound: how far the film goes

ASSUME PlayClockAssumption ==
    /\ StepCap \in Nat \ {0} /\ SoundFrame \in Nat \ {0} /\ SoundStale \in Nat \ {0}
    /\ SoundAlone \in Nat \ {0} /\ LastPos \in Nat \ {0}
    /\ ClockWrap \in Nat \ {0} /\ StepCap < ClockWrap
    /\ Passes \subseteq Nat

VARIABLES
    now,            \* platform_clock_us()
    gap,            \* history: the time since the last step, up to StepCap
    pos, lastUs,    \* of g_clock
    buffered,       \* g_clock.playing
    frozen,         \* g_clock.paused
    drawing,        \* stream_frame(): "idle", "looked" or "stepped"
    frameUs,        \* g_frame_us
    firstUp,        \* g_first_us is set
    soundFrom,      \* g_sound_at
    soundUs,        \* g_sound_us in a set, which is empty for its zero
    lookedFrom, lookedUs,   \* the copies stream_frame() made of them
    nextSound,      \* the stamp of the oldest frame of sound in its ring
    inHardware      \* audio_play() has it

stepVars  == <<pos, lastUs, buffered, frozen, drawing, frameUs, firstUp, lookedFrom, lookedUs>>
soundOfClock == <<soundFrom, soundUs, nextSound, inHardware>>
clockVars == <<now, gap, stepVars, soundOfClock>>

Least(a, b) == IF a < b THEN a ELSE b
Between(a, b) == (b - a) % ClockWrap

ClockInit ==
    /\ now \in {0, ClockWrap - 1} /\ gap = 0
    /\ pos = 0 /\ lastUs = now /\ buffered = FALSE /\ frozen = FALSE
    /\ drawing = "idle" /\ frameUs = 0 /\ firstUp = FALSE
    /\ soundFrom = 0 /\ soundUs = {} /\ lookedFrom = 0 /\ lookedUs = {}
    /\ nextSound = 0 /\ inHardware = FALSE

\* Time passes.
Passing(t) ==
    /\ pos < LastPos
    /\ now' = (now + t) % ClockWrap
    /\ gap' = Least(gap + t, StepCap)
    /\ UNCHANGED <<stepVars, soundOfClock>>

Running == buffered /\ ~frozen

-----------------------------------------------------------------------------
(* stream_frame().                                                         *)

\* The viewer's pause is handed over, and the sound's stamp copied.
FrameBegins(pause) ==
    /\ drawing = "idle"
    /\ frozen' = pause
    /\ frameUs' = now
    /\ lookedFrom' = soundFrom /\ lookedUs' = soundUs
    /\ drawing' = "looked"
    /\ UNCHANGED <<now, gap, pos, lastUs, buffered, firstUp, soundOfClock>>

\* A slip: the clock looks at the time only while it runs.
Stepped_Running(runs) ==
    /\ pos' = IF runs THEN pos + Least(Between(lastUs, now), StepCap) ELSE pos
    /\ lastUs' = IF runs THEN now ELSE lastUs

\* play_clock_step(): the time is taken though nothing runs.
Stepped(runs) ==
    /\ pos' = IF runs THEN pos + Least(Between(lastUs, now), StepCap) ELSE pos
    /\ lastUs' = now

\* play_clock_follow() has something to follow: sound that is not stale.
Followed(runs) == {us \in lookedUs : runs /\ Between(us, now) <= SoundStale}

\* The marks, then the step, then the sound.
FrameSteps(marks) ==
    /\ drawing = "looked"
    /\ buffered' = marks
    /\ LET runs == marks /\ ~frozen
       IN  IF Followed(runs) = {} THEN Stepped(runs)
           ELSE /\ \E us \in Followed(runs) :
                      pos' = lookedFrom + Least(Between(us, now), SoundFrame)
                /\ lastUs' = now
    /\ gap' = 0
    /\ lookedFrom' = 0 /\ lookedUs' = {}
    /\ drawing' = "stepped"
    /\ UNCHANGED <<now, frozen, frameUs, firstUp, soundOfClock>>

\* The first picture, which was due, says where the film is.
FirstPicture(at) ==
    /\ drawing = "stepped"
    /\ Running /\ ~firstUp
    /\ at <= pos
    /\ pos' = at /\ firstUp' = TRUE
    /\ drawing' = "idle"
    /\ UNCHANGED <<now, gap, lastUs, buffered, frozen, frameUs, lookedFrom, lookedUs, soundOfClock>>

\* Any other picture, or none, moves nothing.
FrameEnds ==
    /\ drawing = "stepped"
    /\ drawing' = "idle"
    /\ UNCHANGED <<now, gap, pos, lastUs, buffered, frozen, frameUs, firstUp, lookedFrom,
                   lookedUs, soundOfClock>>

-----------------------------------------------------------------------------
(* serve_audio().                                                          *)

\* It looks for a frame: not while the picture is frozen or stands still.
SoundMay == ~inHardware /\ Running /\ Between(frameUs, now) <= SoundAlone /\ nextSound < LastPos

\* Its time has passed: dropped.
SoundTooLate ==
    /\ SoundMay
    /\ nextSound + SoundFrame < pos
    /\ soundUs # {} \/ firstUp
    /\ nextSound' = nextSound + SoundFrame
    /\ UNCHANGED <<now, gap, stepVars, soundFrom, soundUs, inHardware>>

\* audio_play() is called: the film's first frame waits for the picture.
SoundGoesIn ==
    /\ SoundMay
    /\ nextSound + SoundFrame >= pos
    /\ soundUs # {} \/ (firstUp /\ nextSound <= pos)
    /\ inHardware' = TRUE
    /\ UNCHANGED <<now, gap, stepVars, soundFrom, soundUs, nextSound>>

\* It returns as the frame starts to play, however long the channel and a
\* suspend kept it, or refuses the frame.
SoundStarts(taken) ==
    /\ inHardware
    /\ inHardware' = FALSE
    /\ nextSound' = nextSound + SoundFrame
    /\ IF taken
          THEN soundFrom' = nextSound /\ soundUs' = {IF now = 0 THEN 1 ELSE now}
          ELSE UNCHANGED <<soundFrom, soundUs>>
    /\ UNCHANGED <<now, gap, stepVars>>

-----------------------------------------------------------------------------

ClockNext ==
    \/ \E t \in Passes : Passing(t)
    \/ \E on \in BOOLEAN : FrameBegins(on) \/ FrameSteps(on) \/ SoundStarts(on)
    \/ \E at \in 0..LastPos : FirstPicture(at)
    \/ FrameEnds
    \/ SoundTooLate \/ SoundGoesIn

ClockSpec == ClockInit /\ [][ClockNext]_clockVars

-----------------------------------------------------------------------------
(* Properties.                                                             *)

\* play_clock.h: "time paused or rebuffering is not paid back on the next
\* step", and "Accumulating turns a sleep into one capped step". Whatever was
\* paused, suspended or wrapped, a frame moves the film on by no more than the
\* time since the frame before and no more than the cap -- or to the sound,
\* and then "never past the end of the one playing".
ClockNeverJumps ==
    [][\/ pos' <= pos + gap
       \/ lookedUs # {} /\ pos' <= lookedFrom + SoundFrame]_clockVars

=============================================================================
