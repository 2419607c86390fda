-------------------------------- MODULE Card --------------------------------
(***************************************************************************)
(* What the program keeps on the memory card in the open: base/log.c's log *)
(* and base/prefs.c's settings. The two share nothing but the card.        *)
(***************************************************************************)
EXTENDS Integers, Sequences, SequencesExt

-----------------------------------------------------------------------------
(* The log. Lines gather in a buffer under a lock; one thread copies them  *)
(* out, writes them without the lock and removes them only once the write  *)
(* and the close have gone well. A write may break anywhere, as a suspend  *)
(* cuts it short. A file past its size is begun anew. log_mark() waits,    *)
(* with a bound, for its line to be on the card.                           *)

CONSTANTS
    CardRoom,   \* LOG_BUF_BYTES, in lines
    KeepLines,       \* LOG_KEEP_BYTES, in lines
    MaxLines,   \* bound: lines said
    MaxBreaks   \* bound: writes that break

ASSUME LogAssumption == {CardRoom, KeepLines, MaxLines, MaxBreaks} \subseteq Nat

VARIABLES
    card,       \* g_card
    copy,       \* g_scratch
    cardFile,   \* the file's lines
    cardSize,   \* g_card_size
    writer,     \* writer(): "idle", "writing", "removing", "ended"
    writerOn,   \* g_writer_on
    opened,     \* g_card_path is set
    toCard,     \* g_to_card
    mark,       \* log_mark(): "out", "waiting", "returned", or "late", and its line
    said,       \* history: how many lines were said
    taken,      \* history: those the buffer took
    wiped,      \* history: those a new file left behind
    breaks

logVars == <<card, copy, cardFile, cardSize, writer, writerOn, opened, toCard, mark, said,
             taken, wiped, breaks>>

\* log_open(), its banner line 0.
LogInit ==
    /\ card = <<0>> /\ copy = <<>>
    /\ cardFile = <<>> /\ cardSize = 0
    /\ writer = "idle" /\ writerOn = TRUE /\ opened = TRUE
    /\ toCard \in BOOLEAN
    /\ mark = <<"out", 0>>
    /\ said = 0 /\ taken = {0} /\ wiped = {}
    /\ breaks = 0

\* emit(): a full buffer drops the line and counts it.
Emit(forced) ==
    /\ said < MaxLines
    /\ said' = said + 1
    /\ IF opened /\ (toCard \/ forced) /\ Len(card) < CardRoom
       THEN card' = Append(card, said') /\ taken' = taken \cup {said'}
       ELSE UNCHANGED <<card, taken>>

LogLine ==
    /\ Emit(FALSE)
    /\ UNCHANGED <<copy, cardFile, cardSize, writer, writerOn, opened, toCard, mark, wiped, breaks>>

LogMark ==
    /\ mark[1] # "waiting"
    /\ Emit(TRUE)
    /\ mark' = <<"waiting", said'>>
    /\ UNCHANGED <<copy, cardFile, cardSize, writer, writerOn, opened, toCard, wiped, breaks>>

\* card_empty()
CardEmpty == card = <<>> \/ ~writerOn

MarkReturns ==
    /\ mark[1] = "waiting"
    /\ \/ CardEmpty /\ mark' = <<IF writerOn THEN "returned" ELSE "late", mark[2]>>
       \/ ~CardEmpty /\ mark' = <<"late", mark[2]>>
    /\ UNCHANGED <<card, copy, cardFile, cardSize, writer, writerOn, opened, toCard, said,
                   taken, wiped, breaks>>

\* drain(): what there is is copied out under the lock.
DrainCopies ==
    /\ writer = "idle"
    /\ copy' = card
    /\ writer' = IF card # <<>> THEN "writing" ELSE IF writerOn THEN "idle" ELSE "ended"
    /\ UNCHANGED <<card, cardFile, cardSize, writerOn, opened, toCard, mark, said, taken,
                   wiped, breaks>>

\* card_write(): "wb" past the size, "ab" below it.
Opens == IF cardSize > KeepLines THEN <<>> ELSE cardFile
Wiped == IF cardSize > KeepLines THEN wiped \cup Range(cardFile) ELSE wiped

CardWrites ==
    /\ writer = "writing"
    /\ cardFile' = Opens \o copy /\ wiped' = Wiped
    /\ cardSize' = Len(cardFile')
    /\ writer' = "removing"
    /\ UNCHANGED <<card, copy, writerOn, opened, toCard, mark, said, taken, breaks>>

\* What did not get through whole is kept, and the size is what it was.
AfterBreak == IF writerOn THEN "idle" ELSE "ended"

CardBreaks ==
    /\ writer = "writing" /\ breaks < MaxBreaks
    /\ breaks' = breaks + 1
    /\ \/ UNCHANGED <<cardFile, wiped>>
       \/ \E n \in 0 .. Len(copy) : cardFile' = Opens \o SubSeq(copy, 1, n) /\ wiped' = Wiped
    /\ writer' = AfterBreak
    /\ UNCHANGED <<card, copy, cardSize, writerOn, opened, toCard, mark, said, taken>>

\* A slip: the buffer is emptied, with what was said during the write.
DrainRemoves_All ==
    /\ writer = "removing"
    /\ card' = <<>>
    /\ writer' = AfterBreak
    /\ UNCHANGED <<copy, cardFile, cardSize, writerOn, opened, toCard, mark, said, taken,
                   wiped, breaks>>

DrainRemoves ==
    /\ writer = "removing"
    /\ card' = SubSeq(card, Len(copy) + 1, Len(card))
    /\ writer' = AfterBreak
    /\ UNCHANGED <<copy, cardFile, cardSize, writerOn, opened, toCard, mark, said, taken,
                   wiped, breaks>>

\* log_to_card()
Choose(on) ==
    /\ toCard' = on
    /\ UNCHANGED <<card, copy, cardFile, cardSize, writer, writerOn, opened, mark, said, taken,
                   wiped, breaks>>

\* log_close(): the thread is told, waited for within a bound, and the path let
\* go.
CloseTells ==
    /\ opened /\ writerOn
    /\ writerOn' = FALSE
    /\ UNCHANGED <<card, copy, cardFile, cardSize, writer, opened, toCard, mark, said, taken,
                   wiped, breaks>>

CloseEnds ==
    /\ opened /\ ~writerOn
    /\ opened' = FALSE
    /\ UNCHANGED <<card, copy, cardFile, cardSize, writer, writerOn, toCard, mark, said, taken,
                   wiped, breaks>>

LogNext ==
    \/ LogLine \/ LogMark \/ MarkReturns
    \/ DrainCopies \/ CardWrites \/ CardBreaks \/ DrainRemoves
    \/ CloseTells \/ CloseEnds
    \/ \E on \in BOOLEAN : Choose(on)

LogSpec == LogInit /\ [][LogNext]_logVars

OnCard == Range(cardFile) \cup wiped

\* A line the buffer took is in it until it is on the card, whatever is said
\* during a write and wherever one breaks, log.c:76. A log_mark() that came back
\* before its bound has its line there, or it was dropped. The card reads in order, each line
\* followed by the next that was taken, or by an earlier one where a write that
\* had broken was made again.
LinesReachTheCard ==
    /\ taken \subseteq Range(card) \cup OnCard
    /\ mark[1] = "returned" => mark[2] \in OnCard \/ mark[2] \notin taken
    /\ \A i \in 1 .. Len(cardFile) - 1 :
          \/ cardFile[i + 1] <= cardFile[i]
          \/ ~\E l \in taken : cardFile[i] < l /\ l < cardFile[i + 1]

-----------------------------------------------------------------------------
(* The settings, with the dials of page/settings.c: five values read once  *)
(* from a file, turned on the settings page, written back once on the way  *)
(* out of it. The file is emptied before it is written, so power lost      *)
(* between leaves the defaults; a file written by hand or by another build *)
(* may hold values off the dial and keys this one does not know.           *)
(*                                                                         *)
(* Two prefs stand for the five: one with steps, one clamped to a range.   *)

CONSTANTS
    Steps,      \* kBitrateKbps and kCpuMhz: the steps, in order
    StepDef,    \* .def of the one with steps
    Low, High,  \* .low and .high of the other
    Strange,    \* values a file may hold that are on neither
    MaxBoots    \* bound: times the program starts

ASSUME PrefsAssumption ==
    /\ Steps \in Seq(Int) /\ \E i \in DOMAIN Steps : Steps[i] = StepDef
    /\ Low \in Int /\ High \in Int /\ Low <= High /\ Strange \subseteq Int
    /\ MaxBoots \in Nat

Ids == {"steps", "range"}
Def == [id \in Ids |-> IF id = "steps" THEN StepDef ELSE Low]
Dial == {Steps[i] : i \in DOMAIN Steps}
NoFile == <<>>

VARIABLES
    value,      \* g_pref[].value
    loaded,     \* g_loaded
    prefFile,   \* the file: a sequence of keys with values, or cut short
    page,       \* the settings page: "closed", "open", "saving", "off" with no power
    dirty,      \* settings_state.dirty
    saved,      \* history: what the last save to end wrote
    cut,        \* history: power was lost in a save after it
    turned,     \* history: a dial was turned since the start
    boots

history == <<saved, cut, turned>>
prefsVars == <<value, loaded, prefFile, page, dirty, history, boots>>

(* set_value(): clamped, or refused off the steps.                         *)

\* A slip: a value off the steps is taken as it is.
SetValue_Unchecked(id, v, now) ==
    IF id = "range" THEN IF v < Low THEN Low ELSE IF v > High THEN High ELSE v
    ELSE v

SetValue(id, v, now) ==
    IF id = "range" THEN IF v < Low THEN Low ELSE IF v > High THEN High ELSE v
    ELSE IF v \in Dial THEN v ELSE now

\* prefs_load(): the file's lines over what the values are, in order.
Read(lines, start) ==
    LET f[i \in 0 .. Len(lines)] ==
          IF i = 0 THEN start
          ELSE IF lines[i][1] \notin Ids THEN f[i - 1]
          ELSE [f[i - 1] EXCEPT ![lines[i][1]] = SetValue(lines[i][1], lines[i][2], @)]
    IN  f[Len(lines)]

Written(v) == <<<<"range", v["range"]>>, <<"steps", v["steps"]>>>>

PrefsInit ==
    /\ value = Def /\ loaded = FALSE
    /\ \E x, y \in Dial \cup Low .. High \cup Strange :
         prefFile \in {NoFile, <<<<"newer", x>>, <<"steps", y>>, <<"range", x>>>>, <<<<"range", x>>>>}
    /\ page = "closed" /\ dirty = FALSE
    /\ saved = Read(prefFile, Def) /\ cut = FALSE /\ turned = FALSE
    /\ boots = 1

\* Every accessor loads first.
Load ==
    /\ page # "off" /\ ~loaded
    /\ loaded' = TRUE
    /\ value' = Read(prefFile, value)
    /\ UNCHANGED <<prefFile, page, dirty, history, boots>>

OpenPage ==
    /\ page = "closed" /\ loaded
    /\ page' = "open" /\ dirty' = FALSE
    /\ UNCHANGED <<value, loaded, prefFile, history, boots>>

\* pref_step_now() and pref_at_step(): one step along the dial, held at its ends.
StepNow == IF value["steps"] \in Dial
           THEN CHOOSE i \in DOMAIN Steps : Steps[i] = value["steps"] ELSE 1
AtStep(i) == Steps[IF i < 1 THEN 1 ELSE IF i > Len(Steps) THEN Len(Steps) ELSE i]

\* settings.c adjust()
Adjust(id, by) ==
    /\ page = "open"
    /\ value' = [value EXCEPT ![id] =
           SetValue(id, IF id = "steps" THEN AtStep(StepNow + by) ELSE @ + by, @)]
    /\ dirty' = TRUE /\ turned' = TRUE
    /\ UNCHANGED <<loaded, prefFile, page, saved, cut, boots>>

\* settings.c back() and leave(): saved once, on the way out. prefs_save()
\* empties the file and then writes every value.
Back ==
    /\ page = "open"
    /\ dirty' = FALSE
    /\ \/ /\ dirty
          /\ page' = "saving" /\ prefFile' = <<>>
       \/ /\ page' = "closed"       \* nothing to save, or it could not be opened
          /\ UNCHANGED prefFile
    /\ UNCHANGED <<value, loaded, history, boots>>

SaveEnds ==
    /\ page = "saving"
    /\ page' = "closed"
    /\ prefFile' = Written(value)
    /\ saved' = value /\ cut' = FALSE
    /\ UNCHANGED <<value, loaded, dirty, turned, boots>>

\* Power lost, in a save with any of its lines on the card; and the next start.
PowerOff ==
    /\ page # "off" /\ boots < MaxBoots
    /\ IF page = "saving"
       THEN \E n \in 0 .. 2 : prefFile' = SubSeq(Written(value), 1, n)
       ELSE UNCHANGED prefFile
    /\ cut' = (cut \/ page = "saving")
    /\ page' = "off"
    /\ UNCHANGED <<value, loaded, dirty, saved, turned, boots>>

Boot ==
    /\ page = "off"
    /\ page' = "closed" /\ boots' = boots + 1
    /\ value' = Def /\ loaded' = FALSE /\ dirty' = FALSE
    /\ turned' = FALSE
    /\ UNCHANGED <<prefFile, saved, cut>>

PrefsNext ==
    \/ Load \/ OpenPage \/ Back \/ SaveEnds \/ PowerOff \/ Boot
    \/ \E id \in Ids, by \in {-1, 1} : Adjust(id, by)

PrefsSpec == PrefsInit /\ [][PrefsNext]_prefsVars

\* A program that has read its file runs, until a dial is turned, on what the
\* last save to end wrote, and on the dial whatever the file held: what a file
\* leaves out is the default, never the value of a run before (prefs.c:84), a
\* key of another build is passed over, and a file that could not be opened
\* for writing is as it was. Power lost in a save is the one exception.
RunsOnWhatWasSaved ==
    /\ value["steps"] \in Dial /\ value["range"] \in Low .. High
    /\ (page # "off" /\ loaded /\ ~turned /\ ~cut) => value = saved

\* What goes to the card is there: the log's lines and the settings.
CardIsTrue == LinesReachTheCard /\ RunsOnWhatWasSaved
=============================================================================
