-------------------------------- MODULE Link --------------------------------
(***************************************************************************)
(* io/link.c: the cable to the development machine, given up when the      *)
(* machine sleeps and proven again after it wakes (Standby). Every file    *)
(* operation runs on the link's one thread; the lock guards what callers   *)
(* and thread share and is never held across one, so a file is written     *)
(* while callers append behind what is being written. What fwrite() and    *)
(* fclose() return is not looked at: a file that opened counts as written, *)
(* also when the cable broke in the middle of it.                          *)
(*                                                                         *)
(* The callers are the log, whose lines the thread appends, and a          *)
(* screenshot (tools/shot.c), which empties its file with a put and        *)
(* appends its rows. A line or row is a number that turns over.            *)
(*                                                                         *)
(* Behind it stand the other two uses of the cable, each by itself: a file *)
(* read for a caller, and a script's commands with their answers.          *)
(***************************************************************************)
EXTENDS Standby, Integers, Sequences

CONSTANTS
    QueueRoom,  \* QUEUE_BYTES, in lines
    ShotRows,   \* rows of a screenshot
    MaxShots,   \* bound: screenshots
    MaxLost,    \* bound: lines lost between two that land
    LinkSleeps  \* bound: sleeps, of MaxSleeps

ASSUME LinkAssumption == QueueRoom \in Nat \ {0} /\ ShotRows \in Nat \ {0} /\ MaxShots \in Nat
                         /\ MaxLost \in Nat /\ LinkSleeps \in 0 .. MaxSleeps

VARIABLES
    queue,      \* g_queue[0]: whose file, and the lines that wait
    pending,    \* put_slot.pending of alive.txt, and of the picture's file
    at,         \* the thread: at which call of hostfs_thread(), how far in it
    held,       \* the lines it copied out, or the leaf of a put
    paused,     \* g_paused
    writeOk,    \* g_write_ok: of the last open, not of what was written
    cable,      \* whether an open at host0: succeeds
    given,      \* history: the last log line taken
    logFile,    \* the log on the other side: the last line of it
    lost,       \* history: the lines removed since that one though never written
    shot,       \* shot_write(): where it is, and the rows pushed
    picture,    \* the picture's file
    shots,
    missed      \* history: rows of an older picture waited when this one began, the
                \* open that was to empty its file failed, or rows of it were lost

lineVars == <<queue, pending, at, held, given, logFile, lost, shot, picture, shots, missed>>
linkVars == <<standbyVars, lineVars, paused, writeOk, cable>>

After(l) == (l + 1) % (QueueRoom + MaxLost + 1)     \* more numbers than wait or are lost

LinkInit ==
    /\ StandbyInit
    /\ queue = [leaf |-> "log", lines |-> <<>>]
    /\ pending = [l \in {"alive", "picture"} |-> FALSE]
    /\ at = <<"loop", 0>> /\ held = <<>>
    /\ paused = FALSE /\ writeOk = "untried" /\ cable = TRUE
    /\ given = 0 /\ logFile = 0 /\ lost = <<>>
    /\ shot = <<"none", 0>> /\ picture = <<"old">> /\ shots = 0
    /\ missed = FALSE

-----------------------------------------------------------------------------
(* hostfs_append() and hostfs_put(), under the lock.                       *)

\* Its own queue, or a drained one whoever used it last.
Taker(leaf) == queue.leaf = leaf \/ queue.lines = <<>>

HasRoom(leaf) == Taker(leaf) /\ Len(queue.lines) < QueueRoom

AppendLine(leaf, line) ==
    /\ HasRoom(leaf)
    /\ queue' = [leaf |-> leaf, lines |-> Append(queue.lines, line)]

\* A line of the log is dropped when the queue takes none of it within a bound.
Posts ==
    \/ AppendLine("log", After(given)) /\ given' = After(given)
    \/ /\ ~HasRoom("log")
       /\ UNCHANGED <<queue, given>>

-----------------------------------------------------------------------------
(* The thread.                                                             *)

\* do_appends(): the lines are copied out, written, and only then removed.
CopyLines ==
    /\ at = <<"loop", 0>> /\ ~paused
    /\ IF queue.lines = <<>>
       THEN at' = <<"puts", 0>> /\ held' = <<>>
       ELSE at' = <<"appends", 1>> /\ held' = queue.lines
    /\ UNCHANGED <<queue, pending, given, logFile, lost, shot, picture, shots, missed, writeOk>>

\* What a write that broke did not write is removed like the rest.
WriteLines ==
    /\ at = <<"appends", 1>>
    /\ \/ /\ ~cable                \* kept for the next pass
          /\ at' = <<"puts", 0>> /\ writeOk' = "no"
          /\ UNCHANGED <<logFile, lost, picture, missed>>
       \/ /\ cable
          /\ at' = <<"appends", 2>> /\ writeOk' = "yes"
          /\ \E n \in 0 .. Len(held) :        \* the lines that land
               /\ \/ /\ queue.leaf = "log"
                     /\ logFile' = IF n = 0 THEN logFile ELSE held[n]
                     /\ lost' = (IF n = 0 THEN lost ELSE <<>>) \o SubSeq(held, n + 1, Len(held))
                     /\ Len(lost') <= MaxLost
                     /\ UNCHANGED <<picture, missed>>
                  \/ /\ queue.leaf = "picture"
                     /\ picture' = picture \o SubSeq(held, 1, n)
                     /\ missed' = (missed \/ n < Len(held))
                     /\ UNCHANGED <<logFile, lost>>
    /\ UNCHANGED <<queue, pending, held, given, shot, shots>>

\* A slip: all that waits is removed, what came since the copy too.
RemoveLines_All ==
    /\ at = <<"appends", 2>>
    /\ at' = <<"puts", 0>> /\ held' = <<>>
    /\ queue' = [queue EXCEPT !.lines = <<>>]
    /\ UNCHANGED <<pending, given, logFile, lost, shot, picture, shots, missed, writeOk>>

RemoveLines ==
    /\ at = <<"appends", 2>>
    /\ at' = <<"puts", 0>> /\ held' = <<>>
    /\ queue' = [queue EXCEPT !.lines = SubSeq(@, Len(held) + 1, Len(@))]
    /\ UNCHANGED <<pending, given, logFile, lost, shot, picture, shots, missed, writeOk>>

\* do_puts(): what is pending is no more once it is taken, whether it lands or
\* not.
TakePut ==
    /\ at = <<"puts", 0>>
    /\ \/ \E l \in DOMAIN pending : /\ pending[l]
                                /\ pending' = [pending EXCEPT ![l] = FALSE]
                                /\ at' = <<"puts", 1>> /\ held' = <<l>>
       \/ /\ \A l \in DOMAIN pending : ~pending[l]
          /\ at' = <<"loop", 0>> /\ UNCHANGED <<pending, held>>
    /\ UNCHANGED <<queue, given, logFile, lost, shot, picture, shots, missed, writeOk>>

\* The picture's put has no text: its file is empty once it is open. The text of
\* alive.txt may break, and nothing reads it.
WritePut ==
    /\ at = <<"puts", 1>>
    /\ at' = <<"puts", 0>> /\ held' = <<>>
    /\ writeOk' = IF cable THEN "yes" ELSE "no"
    /\ picture' = IF cable /\ held = <<"picture">> THEN <<>> ELSE picture
    /\ missed' = (missed \/ (~cable /\ held = <<"picture">>))
    /\ UNCHANGED <<queue, pending, given, logFile, lost, shot, shots>>

Thread ==
    /\ power # "asleep"
    /\ CopyLines \/ WriteLines \/ RemoveLines \/ TakePut \/ WritePut
    /\ UNCHANGED <<standbyVars, paused, cable>>

-----------------------------------------------------------------------------
(* The drawing loop: standby_step() with the link's calls, a line to the   *)
(* log, a screenshot.                                                      *)

Idle(leaf) == (queue.leaf = leaf => queue.lines = <<>>) /\ ~pending[leaf]

\* shot_write(): the old picture is emptied before a row of the new is handed
\* over, and the answer waits for the last row.
BeginShot ==
    /\ shot[1] \in {"none", "landed", "failed"} /\ shots < MaxShots
    /\ shots' = shots + 1
    /\ pending' = [pending EXCEPT !["picture"] = TRUE]
    /\ shot' = <<"emptying", 0>>
    /\ missed' = (queue.leaf = "picture" /\ queue.lines # <<>>)
    /\ UNCHANGED queue

\* A slip: the rows are handed over before the old picture is known empty.
Emptied_Unwaited ==
    /\ shot[1] = "emptying"
    /\ shot' = <<"rows", 0>>
    /\ UNCHANGED <<pending, shots, missed, queue>>

Emptied ==
    /\ shot[1] = "emptying" /\ Idle("picture")
    /\ shot' = <<"rows", 0>>
    /\ UNCHANGED <<pending, shots, missed, queue>>

PushRow ==
    /\ shot[1] = "rows" /\ shot[2] < ShotRows
    /\ AppendLine("picture", shot[2] + 1)
    /\ shot' = <<"rows", shot[2] + 1>>
    /\ UNCHANGED <<pending, shots, missed>>

RowsLand ==
    /\ shot = <<"rows", ShotRows>> /\ Idle("picture")
    /\ shot' = <<"landed", ShotRows>>
    /\ UNCHANGED <<pending, shots, missed, queue>>

\* A bound runs out: what was handed over stays with the link.
ShotFails ==
    /\ shot[1] \in {"emptying", "rows"}
    /\ shot' = <<"failed", 0>>
    /\ UNCHANGED <<pending, shots, missed, queue>>

Shoot ==
    /\ BeginShot \/ Emptied \/ PushRow \/ RowsLand \/ ShotFails
    /\ power = "on" /\ look = "begin" /\ phase = "UP"
    /\ UNCHANGED <<standbyVars, at, held, given, logFile, lost, picture, paused,
                   writeOk, cable>>

\* The heartbeat (shell/psp/main.c): the loop is never without a line for long.
Say ==
    /\ power # "asleep" /\ Posts
    /\ UNCHANGED <<standbyVars, pending, at, held, logFile, lost, shot, picture, shots,
                   missed, paused, writeOk, cable>>

Release ==      \* hostfs_release()
    /\ Lose
    /\ paused' = TRUE /\ writeOk' = "untried"
    /\ UNCHANGED <<lineVars, cable>>

Verified == writeOk = "yes"     \* hostfs_verify()

\* A slip: the thread is not let go again.
Reacquire_Paused ==
    /\ Restore(Verified)
    /\ pending' = IF acquired THEN pending ELSE [pending EXCEPT !["alive"] = TRUE]
    /\ UNCHANGED <<queue, at, held, given, logFile, lost, shot, picture, shots,
                   missed, paused, writeOk, cable>>

\* restore() with hostfs_acquire() and hostfs_verify().
Reacquire ==
    /\ Restore(Verified)
    /\ paused' = (acquired /\ paused)
    /\ pending' = IF acquired THEN pending ELSE [pending EXCEPT !["alive"] = TRUE]
    /\ UNCHANGED <<queue, at, held, given, logFile, lost, shot, picture, shots,
                   missed, writeOk, cable>>

Look ==
    \/ Release
    \/ Reacquire
    \/ /\ TakeGoing \/ StayDown \/ StayUp
       /\ UNCHANGED <<lineVars, paused, writeOk, cable>>

-----------------------------------------------------------------------------
(* The machine: the cable goes with the sleep, and is back some time after *)
(* the wake.                                                               *)

Moves(A) ==
    /\ A
    /\ sleeps' <= LinkSleeps
    /\ cable' = (cable /\ power' # "asleep")
    /\ UNCHANGED <<lineVars, paused, writeOk>>

Machine == Moves(NoteGoing \/ FallAsleep \/ NoteBack)

\* Once it is going it goes, and it wakes.
Sleep == Moves(FallAsleep \/ NoteBack)

CableBack ==
    /\ power = "on" /\ ~cable
    /\ cable' = TRUE
    /\ UNCHANGED <<standbyVars, lineVars, paused, writeOk>>

LinkNext == Thread \/ Shoot \/ Say \/ Look \/ Machine \/ CableBack

LinkSpec == LinkInit /\ [][LinkNext]_linkVars

-----------------------------------------------------------------------------
(* Properties.                                                             *)

Waiting == IF at = <<"appends", 2>> THEN SubSeq(queue.lines, Len(held) + 1, Len(queue.lines))
           ELSE queue.lines

\* Every line the log handed over is in the file or waits behind it, in order,
\* none twice, and none left out but those a write lost that broke after its
\* open: link.c copies the lines out, writes them without the lock while more are
\* appended, keeps them when it could not open the file, and removes them when it
\* could, written or not.
LinesInOrder ==
    LET w == lost \o (IF queue.leaf = "log" THEN Waiting ELSE <<>>)
    IN  /\ \A i \in 1 .. Len(w) : w[i] = IF i = 1 THEN After(logFile) ELSE After(w[i - 1])
        /\ given = IF w = <<>> THEN logFile ELSE w[Len(w)]

\* A screenshot that says it landed is on the other side whole, and nothing of
\* an older one is before it (shot.c:64): unless the open that was to empty the
\* file failed, which do_puts() does not try again, rows of a picture given up on
\* were still queued and landed behind the emptying, or a write of its rows broke
\* after its open, which shot_write() cannot see.
ShotIsWhole ==
    (shot[1] = "landed" /\ ~missed) => picture = [i \in 1 .. ShotRows |-> i]

-----------------------------------------------------------------------------
(***************************************************************************)
(* io/link.c, hostfs_slurp(): a whole file read for a caller by the link's *)
(* thread. One request stands at a time; a second caller waits for it, and *)
(* a caller that waited too long leaves its request behind, abandoned, to  *)
(* be answered late or taken over. `gen` tells a late answer from the      *)
(* current request's.                                                      *)
(***************************************************************************)
CONSTANTS
    Readers,    \* callers of hostfs_slurp(), each wanting a file of its own name
    MaxReads    \* bound: requests made

ASSUME SlurpAssumption == MaxReads \in Nat

None == "none"

VARIABLES
    request,    \* g_read: leaf, gen, and whether asked, done, abandoned
    answer,     \* g_read_buf: whose file it holds
    reader,     \* do_read(): the request it is reading for, gen 0 with none
    calling,    \* the callers inside hostfs_slurp()
    mine,       \* per caller: `mine`
    got         \* per caller: what it came back with

slurpVars == <<request, answer, reader, calling, mine, got>>
Nothing == [leaf |-> None, gen |-> 0]

SlurpInit ==
    /\ request = [leaf |-> None, gen |-> 0, asked |-> FALSE, done |-> FALSE,
                  abandoned |-> FALSE]
    /\ answer = None
    /\ reader = Nothing
    /\ calling = {} /\ mine = [r \in Readers |-> 0]
    /\ got = [r \in Readers |-> None]

Call(r) ==
    /\ r \notin calling
    /\ calling' = calling \cup {r}
    /\ mine' = [mine EXCEPT ![r] = 0]
    /\ got' = [got EXCEPT ![r] = None]
    /\ UNCHANGED <<request, answer, reader>>

Ask(r) ==
    /\ r \in calling /\ mine[r] = 0 /\ request.gen < MaxReads
    /\ ~request.asked \/ request.abandoned
    /\ request' = [leaf |-> r, gen |-> request.gen + 1, asked |-> TRUE,
                   done |-> FALSE, abandoned |-> FALSE]
    /\ mine' = [mine EXCEPT ![r] = request.gen + 1]
    /\ UNCHANGED <<answer, reader, calling, got>>

Answered(r) == mine[r] # 0 /\ request.done

Collect(r) ==
    /\ r \in calling /\ Answered(r)
    /\ got' = [got EXCEPT ![r] = answer]
    /\ request' = [request EXCEPT !.asked = FALSE]
    /\ calling' = calling \ {r}
    /\ UNCHANGED <<answer, reader, mine>>

\* The second ran out: a request of its own is left behind, unless another has
\* taken its place.
SlurpGivesUp(r) ==
    /\ r \in calling
    /\ request' = IF mine[r] # 0 /\ mine[r] = request.gen
                  THEN [request EXCEPT !.abandoned = TRUE] ELSE request
    /\ calling' = calling \ {r}
    /\ UNCHANGED <<answer, reader, mine, got>>

\* do_read(): what is asked for is looked up, then read without the lock.
ReadBegins ==
    /\ reader = Nothing
    /\ request.asked /\ ~request.done /\ ~request.abandoned
    /\ reader' = [leaf |-> request.leaf, gen |-> request.gen]
    /\ UNCHANGED <<request, answer, calling, mine, got>>

\* A slip: the answer is taken for the current request's.
ReadEnds_Ungenerated ==
    /\ reader # Nothing
    /\ answer' \in {reader.leaf, None}
    /\ request' = [request EXCEPT !.done = TRUE]
    /\ reader' = Nothing
    /\ UNCHANGED <<calling, mine, got>>

\* An open that fails leaves nothing to answer with.
ReadEnds ==
    /\ reader # Nothing
    /\ answer' \in {reader.leaf, None}
    /\ request' = IF request.gen = reader.gen THEN [request EXCEPT !.done = TRUE] ELSE request
    /\ reader' = Nothing
    /\ UNCHANGED <<calling, mine, got>>

SlurpNext ==
    \/ ReadBegins \/ ReadEnds
    \/ \E r \in Readers : Call(r) \/ Ask(r) \/ Collect(r) \/ SlurpGivesUp(r)

SlurpSpec == SlurpInit /\ [][SlurpNext]_slurpVars

\* What a caller comes back with is the file it asked for, whoever gave up
\* before it and however late the thread answered them (link.c:54).
ReadIsItsOwn == \A r \in Readers : got[r] \in {None, r}

-----------------------------------------------------------------------------
(***************************************************************************)
(* tools/remote.c and tools/drive.c with the link's watch (io/link.c): a   *)
(* script writes numbered commands into one file and waits for the number  *)
(* in another. The watch hands a line over when it changed; what the file  *)
(* held when the watching began is the baseline and never runs. The number *)
(* is the second guard. One command is in flight at a time, and its number *)
(* is given back only when all it did is done.                             *)
(***************************************************************************)
CONSTANTS
    MaxSeq,     \* bound: numbers a script uses
    MaxWrites   \* bound: lines a script writes

ASSUME RemoteAssumption == MaxSeq \in Nat \ {0} /\ MaxWrites \in Nat

\* A line: its number, and whether it is a command this build knows, one it
\* does not, or no command at all.
Lines == [seq : 1 .. MaxSeq, word : {"known", "unknown", "none"}]
Absent == [seq |-> 0, word |-> "absent"]      \* no file
Empty == [seq |-> 0, word |-> "empty"]        \* no first line

VARIABLES
    cmdFile, ackFile,   \* on the other side
    ackIs,              \* history: the number in ackFile is "old", of the run before,
                        \* "whole", or "cut" by a write that broke
    ackPut,             \* ack.txt's put: a number, or -1 with none pending
    watch,              \* g_watch: line, fresh, seen
    last,               \* g_last_seq
    flight,             \* g_in_flight_seq, 0 with none
    ran,                \* history: the numbers whose commands ran
    refused,            \* history: the numbers that were refused
    unsaid,             \* history: the last number whose put did not land whole
    blind,              \* history: the first open of a command file that was there failed
    writes,
    sample      \* any one line, for CommandsAreAnswered to follow

remoteVars == <<cmdFile, ackFile, ackIs, ackPut, watch, last, flight, ran, refused,
                unsaid, blind, writes, sample>>

\* remote_start(), over whatever a run before left in the two files.
RemoteInit ==
    /\ cmdFile \in Lines \cup {Absent, Empty}
    /\ ackFile \in 0 .. MaxSeq /\ ackIs = "old"
    /\ ackPut = 0
    /\ unsaid = 0 /\ blind = FALSE
    /\ watch = [line |-> Empty, fresh |-> FALSE, seen |-> FALSE]
    /\ last = 0 /\ flight = 0
    /\ ran = {} /\ refused = {}
    /\ writes = 0
    /\ sample \in Lines

\* The script: the next number, one used before, or one of a run before.
Write(l) ==
    /\ writes < MaxWrites
    /\ cmdFile' = l
    /\ writes' = writes + 1
    /\ UNCHANGED <<ackFile, ackIs, ackPut, watch, last, flight, ran, refused, unsaid,
                   blind, sample>>

\* do_watch(). An empty first line is no baseline.
Watch ==
    /\ watch' = CASE cmdFile = Absent -> [watch EXCEPT !.seen = TRUE]
                  [] cmdFile = Empty -> watch
                  [] cmdFile \in Lines /\ cmdFile = watch.line -> [watch EXCEPT !.seen = TRUE]
                  [] OTHER -> [line |-> cmdFile, fresh |-> watch.seen, seen |-> TRUE]
    /\ UNCHANGED <<cmdFile, ackFile, ackIs, ackPut, last, flight, ran, refused, unsaid,
                   blind, writes, sample>>

\* The open of a file that is there fails: taken for absent, the baseline.
WatchFails ==
    /\ cmdFile # Absent
    /\ watch' = [watch EXCEPT !.seen = TRUE]
    /\ blind' = (blind \/ ~watch.seen)
    /\ UNCHANGED <<cmdFile, ackFile, ackIs, ackPut, last, flight, ran, refused, unsaid,
                   writes, sample>>

\* do_puts(): what is taken is no longer pending, whatever comes of it.
TakeAck == ackPut # -1 /\ ackPut' = -1

PutLands ==
    /\ TakeAck
    /\ ackFile' = ackPut /\ ackIs' = "whole"
    /\ UNCHANGED <<cmdFile, watch, last, flight, ran, refused, unsaid, blind, writes, sample>>

\* The open fails.
PutRefused ==
    /\ TakeAck
    /\ unsaid' = ackPut
    /\ UNCHANGED <<cmdFile, ackFile, ackIs, watch, last, flight, ran, refused, blind,
                   writes, sample>>

\* What is left of a number cut short; 0 is the file emptied by its open.
Cut(n) == {0} \cup {n \div 10 ^ d : d \in 1 .. 9}

\* The write breaks behind the open.
PutBreaks ==
    /\ TakeAck
    /\ ackFile' \in Cut(ackPut) /\ ackIs' = "cut"
    /\ unsaid' = ackPut
    /\ UNCHANGED <<cmdFile, watch, last, flight, ran, refused, blind, writes, sample>>

\* refuse(): a line that will not run is answered, or its sender waits for ever.
Refuse(n) ==
    /\ ackPut' = n /\ last' = n
    /\ refused' = refused \cup {n}
    /\ UNCHANGED flight

\* remote_take(), take_line(), hostfs_line().
Take ==
    /\ flight = 0 /\ watch.fresh
    /\ watch' = [watch EXCEPT !.fresh = FALSE]
    /\ LET l == watch.line IN
       CASE l.seq <= last -> UNCHANGED <<ackPut, last, flight, refused>>
         [] l.seq > last /\ l.word # "known" -> Refuse(l.seq)
         [] OTHER -> flight' = l.seq /\ UNCHANGED <<ackPut, last, refused>>
    /\ UNCHANGED <<cmdFile, ackFile, ackIs, ran, unsaid, blind, writes, sample>>

\* drive_serve() does what it was told, then remote_done().
Serve ==
    /\ flight # 0 /\ flight \notin ran
    /\ ran' = ran \cup {flight}
    /\ UNCHANGED <<cmdFile, ackFile, ackIs, ackPut, watch, last, flight, refused, unsaid,
                   blind, writes, sample>>

Done ==
    /\ flight # 0 /\ flight \in ran
    /\ ackPut' = flight /\ last' = flight /\ flight' = 0
    /\ UNCHANGED <<cmdFile, ackFile, ackIs, watch, ran, refused, unsaid, blind, writes, sample>>

Puts == PutLands \/ PutRefused \/ PutBreaks
LinkThread == Watch \/ WatchFails \/ Puts
Loop == Take \/ Serve \/ Done

RemoteNext == LinkThread \/ Loop \/ \E l \in Lines : Write(l)

RemoteSpec == RemoteInit /\ [][RemoteNext]_remoteVars

-----------------------------------------------------------------------------
(* Properties.                                                             *)

\* The number a script reads back is of a command that has run to its end, or
\* was refused (drive.c:62, "an ack means the press reached the screen"), and
\* nothing a run before left in the file runs in this one. It is said of a number
\* that was written whole: until the first put lands the file holds the number of
\* the run before, and one cut short may be any. A first open that fails over a
\* file that is there makes its command one that came since.
CommandsAreTheScripts ==
    /\ ackIs = "whole" => ackFile = 0 \/ ackFile \in (ran \cup refused)
    /\ (writes = 0 /\ ~blind) => ran \cup refused = {}

\* A command with a number not yet used, left in the file after the watch has
\* seen the file, is answered: remote.c:79, "the sender waits on an ack that
\* never comes, indistinguishable from a hung application". It is not where the
\* put of its answer, or of a later one, fails to open or breaks: the slot is
\* cleared before the file is opened, and nothing says the number again.
CommandsAreAnswered ==
    (watch.seen /\ cmdFile = sample /\ last < sample.seq /\ watch.line # sample)
        ~> \/ ackIs = "whole" /\ ackFile >= sample.seq
           \/ cmdFile # sample
           \/ unsaid >= sample.seq

\* What goes over the cable is on the other side in its order, whole and its
\* asker's own, but for what a broken write takes: log lines, screenshots, files
\* read for the host, commands.
CableIsTrue == LinesInOrder /\ ShotIsWhole /\ ReadIsItsOwn /\ CommandsAreTheScripts
=============================================================================
