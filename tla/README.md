# Pocketfin in TLA+

Pocketfin is a Jellyfin client for the PlayStation Portable with a desktop
build of the same application. It is a C program of some 16,000 lines in layers
(`port`, `base`, `io`, `jelly`, `model`, `view`, `page`, `app`, `shell`): one
drawing thread, and a worker thread for each of the things that may block.
Almost everything that is hard about it is what those threads do to one
another's state, and most of that state has no lock, or a lock for the last
line of it. This directory holds models of it that TLC checks on small
instances, and proofs that TLAPS checks for instances of any size.

Contents: [the system](#the-system), [the plan](#the-plan),
[the modules](#the-modules), [the runs](#the-runs),
[fairness](#fairness), [what the violating runs show](#what-the-violating-runs-show),
[known not to hold](#known-not-to-hold), [the proofs](#the-proofs),
[what is not modelled](#what-is-not-modelled).

## The system

### Parts, their state and their operations

| part | source | state | operations | modules |
|---|---|---|---|---|
| worker threads | `base/worker.c` | `running`, `left`, `passes` of each | `worker_start`, `worker_stop`, `worker_quiet`, the loop `run` | `Worker` |
| sample rings | `model/stream.c` | `g_video`, `g_audio`: records, byte counts, the newest stamp | `put`, `peek`, `pop`, `ring_reset`, `take_sample` | `Ring`, `SampleRing`, `Fifo` |
| film | `model/stream.c` | the segment on the stage, the marks, `g_ended`, `g_failed` | the passes `serve` and `serve_audio`, `stream_frame` | `Film` |
| films in turn | `model/stream.c` | the session, the item, what is open | `stream_open`, `stream_close`, `open_urls`, `open_init` | `Stream`, `Opening` |
| mp4 segments | `model/fmp4.c` | a cursor in a segment | `fmp4_init`, `fmp4_fragment` | `Fmp4` |
| play clock | `model/play_clock.c` | position, last look, playing, paused | step, follow, pause | `PlayClock` |
| reports | `model/reports.c` | a queue of four | `reports_send`; the pass `serve` | `Reports` |
| player's page | `page/player.c` | the run, the seek aimed at, the band and its timers | enter, frame, leave | `Player`, `Band` |
| library | `model/catalog.c` | a slot for each of five wants (home, items, item, adjacent, mark), the copies they fill, the stash | `library_*`; the pass `serve`, the watch | `Slot`, `Listing`, and under their pages `Detail`, `Browse` |
| session | `model/session.c` | the stage, the count of misses, the hold on the link | connect, retry, watch | `Session` |
| network | `io/net.c`, `port/psp/net.c` | the epoch of the association, the stack's layers, the radio | start, connect, stop, revalidate | `Session` |
| connection dialog | `port/psp/platform.c` | a state machine over the firmware's own | open, pump, close | `Picker` |
| standby | `base/standby.c`, `shell/psp/main.c` | up, losing, down, restoring; the epoch | the power callback's notes, `standby_step` | `Standby` |
| http | `io/http.c` | the register of reads, a body on its way | requests, cancel, presend; dechunker and sinks | `Http` |
| segments | `jelly/segments.c` | a request sent ahead | open, fetch | `Segments` |
| API | `jelly/api.c`, `base/json.c` | the token, the sign-in's lock | exchange, sign-in, `read_list`, `jf_item` | `Api`, `Reply` |
| posters | `model/posters.c` | slots by size, the pack on the card | `poster_get`, clear, start, stop; its worker | `Posters`, `Pack`, `Cache` |
| screens | `view/stack.c` | a stack of pages in one arena, the navigation asked for | push, pop, reset, back, a frame | `Stack` |
| pages | `page/*.c` | what each shows | enter, frame, leave, resumed | `Detail`, `Browse`, `Connection`, `Player`, `Band` |
| focus, boxes, scrolling | `view/frame.c`, `layout.c`, `scroll.c` | the focus and its repeat; open boxes; a page's offset | register, pick; begin, take, end; scroll | `Focus`, `Layout` |
| preferences, log | `base/prefs.c`, `base/log.c` | five settings and their file; a buffer, the file on the card | load, step, save; emit, drain, mark, close | `Card` |
| cable | `io/link.c`, `tools/remote.c`, `tools/drive.c`, `tools/shot.c` | queues of files, one read at a time, a watch | append, put, slurp, watch; commands and answers | `Link` |

### How they interact

* The drawing thread runs `app_frame`: the watch of the link, the pages, which
  call into the model layer, and the drawing. It opens and closes films, sends
  reports, posts wants and reads answers; it never makes a request itself.
* Each worker runs passes over its owner's state: the stream's fetching worker
  and its sound worker, the reports' worker, the library's worker. The posters
  have a thread of their own of the same shape. A request in a pass may take
  its whole timeout, 15 s.
* Workers share the connection: a failure any of them meets counts towards
  giving the link up (`session_note_failure`), a landed mark or an ended film
  forgets the library's lists (`forget`), a refused token is renewed under one
  lock, and a sleep of the machine makes all sockets stale at once (the standby
  epoch).
* The firmware's power callback and its connection dialog come in from outside.

### What is hard, and what makes each part correct

* **Workers.** Both waits are bounded and may give up. What `worker_quiet` and
  `worker_stop` answer 0 to must be proof that no thread is inside the owner's
  state, with a pass counter that wraps; two threads must never run one worker.
* **Rings.** Lock-free in part: bytes are written and read outside the lock, and
  only the records change under it. No byte of a waiting sample, or of the one
  being decoded, may be overwritten; what goes in comes out in order and once,
  although a segment refused half way is cut again from its start.
* **Film.** Two marks of the buffering, room in two rings counted both in bytes
  and slots, refusals and an end: no picture lost or repeated, all sound
  accounted for, no wait in a circle. Its clock is 32 bits wide and must not
  jump; its segments' tables may lie.
* **Opening and closing.** A film is closed while its pass may be at any point;
  nothing of it may reach the next film, and nothing may be left.
* **Reports.** The server must hear a seek's stop before its start; every
  session it was told of must be ended, and every encoder it started turned off.
* **Library and its pages.** Requests are given up on and answer late; pages
  read what workers write, without the lock. A page that loads must have a
  request behind it and stop loading eventually; it must show what answers its
  own ask, press a mark the right way round and begin a run with its own tracks.
* **Session, standby, dialog.** Bounded connects that answer after they were
  given up, a flickering link, a sleep under requests in flight, a dialog in the
  kernel that outlives the program.
* **Requests.** A sleep kills sockets without a word, a cancel must wake every
  read, and a body cut short must not be taken for whole; a request sent ahead
  is handed over, kept or closed on every path; threads refused together sign
  in once.
* **Posters and the card.** No slot may be reused under the worker's decode, a
  cleared cache must not come back, and files must survive power lost in the
  middle of a write.
* **Screens.** Navigation is deferred to the end of the frame and may be refused;
  a level must come back as it was left; the directions must reach everything from
  wherever rows that come, go, fill in and scroll have left the focus.

`PROJECT.json` lists the hazards at their lines with the properties that cover
them.

## The plan

The order of the work was the order of what rests on what: the worker, the rings
and one film; films in turn and what the player tells the server; the library's
wants; the pack and the posters; then the connection from the radio up to the
pages, the requests on the wire, the pages over the library, the drawing's own
state (focus, boxes, scrolling), the cable, the log and the settings; and the
proofs of each part after its run. All of it is done but for the proofs named
last. What would come next:

1. the library's worker in one model with its session and its requests, where
   each now takes the other's answer as any;
2. more of the smaller answers of `jelly/api.c` (genres, the server's name, the
   home rails' titles) in `Reply`;
3. proofs: the parts of the screens' properties that are no walk over data (done)
   (`Detail`'s runs and marks, `Band`'s aim).

## The modules

| module | models | over |
|---|---|---|
| `Worker` | a worker and its owner | |
| `Ring` | a ring as a value: `Put`, `Pop`, `Fits` | |
| `SampleRing` | one ring with its bytes, its producer and its consumer | `Ring` |
| `Fifo` | what a ring promises: a channel, in order, each stamp at most once | |
| `Film` | one open film: three threads over two rings | `Ring` |
| `Stream` | films opened and closed, and the passes they meet | |
| `Opening` | what the stream promises about sessions | |
| `PlayClock` | the film's clock under the sound, stalls and a suspend | |
| `Fmp4` | the two kinds of segment, walked box by box | |
| `Reports` | the queue and the worker that drains it | |
| `Player` | the player's page between the stream and the reports | `Opening`, `Reports` |
| `Band` | the player's controls: the aim on the bar and what is shown | |
| `Slot` | one want of the library | |
| `Listing` | the want of the listing's rows, with the stash | `Slot` |
| `Detail` | the page of one film or episode, its marks and its runs | |
| `Stack` | the stack of pages, as operators on a value | |
| `Browse` | the rails and the folders on the stack, over the one listing | `Stack` |
| `Cache` | what the art pack promises | |
| `Pack` | the art pack's file, cut by lost power | `Cache` |
| `Posters` | the posters' slots, their worker and the pages that ask | `Cache` |
| `Standby` | the machine's sleep and wake, and the epoch | |
| `Link` | the cable: appends, puts, a screenshot; reads for a caller; a script's commands | `Standby` |
| `Card` | the log and the settings on the card | |
| `Session` | the network stack, the association, the radio; connect, watch, retry | |
| `Picker` | the firmware's connection dialog and the page that pumps it | |
| `Connection` | the application's loop with the pages that wait for a connection | `Session`, `Picker`, `Stack` |
| `Http` | requests on sockets, the register of reads, cancel; and one body | |
| `Api` | the token, the exchange, the sign-in | `Http` |
| `Segments` | the film's segments and the one sent ahead | `Api` |
| `Reply` | how an answer is read | |
| `Focus` | the widgets of a frame, the focus, the repeat | |
| `Layout` | boxes handed out of a panel; and a page scrolled after its focus | |

`MCLibrary`, `MCPlaying`, `MCPlayer`, `MCFiles`, `MCRequests` and `MCScreens` put
parts **side by side**: a variable `part` names the one that moves in a
behaviour, and the others stand in an initial state. No step of one such part
moves another in the code, so their interleavings would add states and no
behaviour; what one part's run can reach is what it would reach alone.
`MCConnection` is one composition in two halves. The theorems stand in
`LibraryProofs` (of `Worker`, `Slot`, `Listing` and `Posters`), `PlayingProofs` (of
`SampleRing`, `Stream` and `Film`), `PlayerProofs` (of `Player`, `PlayClock`, `Band`
and `Fmp4`), `ConnectionProofs` (of `Session`, `Picker` and `Connection`),
`RequestsProofs` (of `Http`, `Api` and `Segments`), `FilesProofs` (of `Standby`,
`Link`, `Card` and `Pack`) and `ScreensProofs` (of `Detail`, `Browse`, `Focus`,
`Layout` and `MCScreens`); those of `Reports`, which `PlayerProofs` rests on, at
the end of it.

The names of variables and of actions are the source's where that is possible;
each module says at its VARIABLES what each stands for, and `PROJECT.json` maps
each definition to its lines. Definitions introduced as "A slip" are not part of
the models: each is one of them with a mistake that a programmer could make,
kept to show that the properties notice it.

### Playing

**Worker.** `run()` is split at each access of shared state (`TestLoop`,
`EnterPass`, `LeavePass`, `CountPass`, `SayLeft`); the owner's waits poll one
look at a time up to `Bound`, in any relation to the thread's speed. What the
owner's pass does is one flag, `work`: whether it finds something to do.

**Ring, SampleRing.** A record is its absolute position, length and stamp; the
byte at position `p` is `p % Cap` of the buffer, and a put that would not fit
before the end skips to the start. In `SampleRing` the buffer's bytes are there,
each with the stamp of the sample last copied over it, so that overwriting shows.

**Film.** The worker fetches a segment to the stage, waits for room, cuts it
sample by sample (`CutSkips`, `CutTakes`, `CutDrops`, `CutRefused`,
`CutBreaks`), and begins again where it was refused. The drawing thread looks at
the ring, moves the buffering marks, and shows, waits or ends, each a step of
its own. The sound worker peeks, waits, drops or plays. Time is left out: a
picture may or may not be due.

**Stream.** A film is the number of the `stream_open` that asked for it. Every
variable says whose it is. `serve()` stands still at each request and may be
overtaken there; `stream_close()` takes the work away, waits for each worker,
and tears down, whether its wait came back or gave up (`late`).

**PlayClock.** The clock's look at the time is modulo `ClockWrap`; time passes in
any amounts of `Passes`, one of them longer than a turn. `stream_frame` copies
the sound's stamp and steps the clock in two steps, and the sound worker may
start a frame of sound between them.

**Fmp4.** A segment is a sequence of boxes, a box that runs past the bytes it
lies in is `Torn`, and every size the code checks against the bytes is checked
here. The initial states are segments as the server writes them and a list of
lies about one field each.

**Reports, Player, Band.** A report is the call that made it, its kind and its
session. `Player` takes `Opening` for the stream, which `Stream` is proved to
implement, and `Reports` as it is, and has one action for each call the page
makes: the queue and the stream may move between any two of them. `Band` is the
same page's frame for the viewer's hands: `act` and `advance` as operators on a
record of the page's fields.

### Library and pages

**Slot, Listing.** The look without the lock and the locked part of `post`,
`watch` and `want_items` are steps of their own. `Overtaken` is a `forget()` from
the threads of the reports and of marks. Attempt numbers are a flag, `current`:
only whether the attempt in flight still counts is ever compared. The pages ask,
the worker takes, and the answer may come at any time later.

**Detail.** The three wants the page lives from are `Slot`'s, written as one
record each, with the one worker that serves them; texts and tracks are the
item they are of, so that a copy of another item's shows. Marks, runs, the
player's result and the neighbours are the page's steps, a frame each.
`Budgets` bounds a behaviour's visits, presses, runs and faults.

**Stack, Browse.** A frame of a page may ask for a navigation, and the first
asked is applied when the frame is over: `Browse`'s and `Connection`'s frames are
one step each, over `Stack`'s operators. Every level of `Browse` has its own ask,
and all share the one listing and the one copy of rows to draw from.

**Focus, Layout.** A layout is a frame's widgets in the order they register, each an
id and a box. A page is the set of layouts its frames may register, and each frame is
any of them: the home page before anything is fetched, with one rail or with two, the
second filling in and scrolled along; the settings with their inset control; a list of two rows or three. The
focus is kept by its id over them, as in the code. The box language is a stack of boxes with two cursors; scrolling is
the offset that follows the focus over items that stand where the page put them.
`Settling` is `UI_SCROLL_SETTLE`, which the code calls the frames for a scroll of
any length to settle; `ScrollAssumption` says of which lengths that is so (`Way`).

### Connection and requests

**Session, Picker, Connection.** The kernel's state (its pool, the layers a
run before left up, the radio that believes it is still associated, the dialog)
is part of the model, and outlives the program. `session_connect`'s calls are
steps of the library's worker; `Watch` and `Draw` are the halves of a frame of
the drawing thread, and the worker may move between them. Counts of frames that
bound a wait are a choice: any frame may be the one that finds it passed.

**Http, Api, Segments.** A thread's request goes through open, register, send,
receive and close, a step each; a sleep marks every open socket dead, and a dead
socket answers nothing, so that its read ends by its own bound or by a cancel.
The server answers what the socket carries, not what the caller believes, which
is how a request taken over for another segment shows. The second half of `Http`
is one body: the bytes of a message, cut and framed in every way, through the
dechunker and the three sinks. A byte is a number, and the digits of a chunk's
size are one such byte; a split inside them is the split inside the line, which
the dechunker keeps either way until the line ends.

**Reply.** The text of an answer is a sequence of marks (brackets, quotes,
escapes, keys, a digit, a character of a title), and `value_between` and the
walks over it find positions in it, as the code's pointers do.

### Machine and files

**Standby.** `standby_step`'s look at `g_going` and its switch are two steps, and
the callback may run, and the machine sleep and wake, between them.

**Link.** Every file operation runs on the link's one thread; the copies a caller
queues, the write without the lock and what is removed after it are steps of
their own. An open may fail while the cable is away, and a write may break behind an open
that succeeded, with any head of it landed: `fwrite` and `fclose` are not asked, so
what was copied is removed all the same (`link.c:94`). The second part is the read
for a caller, abandoned, answered late or
taken over; the third has the host's script, its two files and the watch, whose opens
may fail at any time, as those of the answers, whose writes may break too.

**Pack.** The file is a sequence of cells, a header or a row each, written in
order; power may be lost between any two of them and a write may be refused at
any. What follows is in the file as the code leaves it: the next record goes over
the tail, not after it. **Card** has the same two accidents, under
the log and under the settings.

**Posters.** One size class. The drawing thread asks for the pictures of its page
one `poster_get` at a time, in any order, and the page may be another in any
frame; `posters_clear`, and the three steps of clearing the cache from the
settings page, come between frames. The worker's steps are the top of its loop,
the removal of the pack, the locked look for a want, the pack, the server, the
put and the locked answer. What the pack keeps is `Cache`'s.

## The runs

A property whose name stands in one of the MC modules is a conjunction of those
of the parts; the names in brackets are the parts'.

| run | what TLC checks | bounds, and why they are enough |
|---|---|---|
| `library` | `ZeroIsProof`, `OneThread`, `SlotServed`, `RowsAnswer`; `StopIsObeyed`, `WantEnds` | worker: two threads (a second is what `OneThread` forbids), a bound of 2 polls, a counter modulo 3, so that it wraps. Want and listing: two asks and the zeroed one: what is shown, what is in flight and what is asked next can all differ |
| `posters` | `ReadyIsItsOwn`, `PackIsFresh`; `PageFills` | three pictures over two slots, so that pages draw fewer, as many and more than there are; one clear, one failure; `KEEP_FRAMES` of 1, which leaves an ask one frame to be served in that is not its own (with the code's 2 the run passes as well, and takes twice as long) |
| `playing` | `FilmIsWhole` (pictures whole, sound accounted for, slots suffice, the end is real), `FilmsApart`, `ReportsKept`; `FifoSpec`, `OpeningSpec`, `PlayingResolves` | film: two films of three segments, one whose slots run out before its bytes, one with a segment refused at the ring's join; a pause; two tries. Ring: 5 bytes, 3 slots, lengths 1 to 3: samples that fit, wrap, leave a tail and fill it; stamps 0 to 4 are two more than fit at once. Stream: three opens, a film before, one open, one after. Reports: four calls over a queue of three; one session, since a report's session is only compared where `player` has two |
| `player` | `SessionsInTurn`, `ToldSessionsAreEnded`, `SamplesAreTheFiles`; `ClockNeverJumps` | page: two films, the code's queue of four, eight calls: both films' starts, positions and ends. Clock: a turn of 5 with a cap of 2, so that what passes may be below the cap, above it, and a turn and a bit. Segments: two true ones and 17 lies, and a sample turned away at three places |
| `files` | `PackIsTrue`, `CableIsTrue`, `CardIsTrue`, `SleepsAreCounted`; `CacheSpec`, `CableAnswers` | pack: pictures of one, one, two and three rows, a shorter over a longer one's tail and one that fits exactly; three records and eight cells, so that the index and the card's cap both fill first. Three sleeps of the machine by itself, one over the cable's queue of two and a screenshot of a row, with one line lost between two that land (lines, losses and what waits stay apart modulo 4); three readers over four reads; two commands written over what a run before left, over two numbers, with opens that fail and answers that are lost or cut any number of times; three lines over a buffer of two and a file begun anew past one, one break; three boots of the settings |
| `connection` | `OfflineWhileLost`, `DialogIsHeld`, `WokenIsRejoined`; `StageSettles` | one half: a saved network over one sleep. The other: the dialog over what other runs left in the kernel, with leaving. Two misses give a link up, as one would not be told from none |
| `requests` | `BodyIsWhole`, `SegmentIsTheOneAsked`, `SocketsAreAnswered`, `RowsAreTheItems`; `DeadIsNotReused`, `OneSignInPerRefusal` | a worker and the feed over three sockets (each one's own and one sent ahead), a register of two, two tokens, two segments; the disturbances (refusals, a sleep, a leave) each by themselves, `Bounds` in `MCRequests`. Body: four messages up to four bytes, every split and cut, a buffer of four, a sink of three. Reply: titles that hold a quote, a bracket, a backslash and more than fits; lists of up to three over two rows |
| `screens` | `RunsAreTheItems`, `DrawnAreThePages`, `KeysReachAndShow`; `PressTurnsOver`, `FocusIsTheViewers` | item: three episodes, one begun unasked at most in a row; `ItemBudgets`: two visits with a run, two presses, two runs, a press and a run with a fault. Browse: a stack of three, two folders, two sorts, one change. Band: a film of two, a jump of two. Focus: three pages: the home page empty, with a rail of two, and with a second rail of two or three cards under it, scrolled or not; rows with an inset control; a list of two rows or three; a clock of 5 that wraps within one repeat delay of 4. Layout: a panel of 3 by 3, three boxes deep, four slots. Scroll: a page that fits, two that nearly do (one with gaps between its cards), a list of eight |
| `stream_late` | violates `AllOfOneFilm` | as `playing`, `Stream` by itself |
| `player_leak` | violates `EncodersTurnedOff` | as `player`, with three opens |
| `requests_again` | violates `FeedSignsInForTheRefused` | as `requests` |
| `seen_reverts` | violates `SeenIsShown` | as `screens`, one film that plays once |

Deadlock is not checked: every run has a part that really stops, a film that has
ended, a program that was left, a bound that was spent; that nothing stops where
it must go on is what the liveness properties say.

### Fairness

* `library`: each thread is scheduled (weak fairness of each thread's steps) and
  the owner's waits, which poll, go on; a pass that has begun ends, as every
  request has a timeout (`io/http.c`). Nothing makes the owner begin a wait. The
  page's thread draws frames, and each draws `watch` (strong fairness of
  `WatchLooks`, as the look alternates with other calls). Nothing is assumed of
  the library's worker: `WantEnds` is the promise that holds when it hangs.
* `playing`: the threads are scheduled; a fetch that is asked again and again
  comes to arrive or to end, or fails the film, which `fails` counts; a picture
  waited for comes due (strong fairness of `FrameShows`: the clock moves while
  it runs); a viewer who paused resumes in the end. Nothing is assumed of the
  sound worker: a film plays out without it. The stream's worker and a caller
  inside `stream_open` or `stream_close` go on; every request has a timeout. The
  reports' worker is scheduled; `Drained` takes as given that the connection is
  there for good from some time on, since the worker waits for it.
* `posters`: both threads are scheduled, and each request to the server ends.
  `PageFills` takes as given a page that stays and fits the slots; the server is
  out of reach a bounded number of times.
* `files`: the link's thread and the loop are scheduled, the log says a line now
  and then, the cable is plugged in again and the machine, once it begins to
  leave, falls asleep: without these nothing proves the link and nothing can
  (`standby.c:48`). A watch whose open works comes again, or no command would be
  seen; a put that is pending is tried, and nothing says that it lands. Nothing is assumed of the viewer or the script.
* `connection`: the library's worker goes on. Nothing is assumed of the drawing
  thread, the radio or the dialog.

`player`, `requests` and `screens` check action properties and invariants only,
and assume nothing.

### What the violating runs show

* **`stream_late`**: `stream_close` drops `worker_quiet`'s answer
  (`stream.c:578`). A pass inside a 15 s read goes on after the four seconds, in
  the state of the film opened since; `open_urls` then sets the session and the
  segments of the old film for the new one. `playing` shows, and the proofs
  for any number of films, that nothing crosses as long as the waits come back,
  and that what `Opening` promises holds even when they do not.
* **`player_leak`**: `end_session` looks for the session before `stream_close`
  lowers `g_running` (`player.c:329`, `stream.c:577`): a session opened between
  the two, or while the close waits, starts an encoder that nobody turns off.
* **`requests_again`**: `jelly/api.h` has it that a sign-in is made "only if that
  token is still the one in force". A fetch that took over a request sent ahead
  with the old token, and is refused, names the address it would have sent
  itself, which holds the new one: the feed signs in again and revokes a token
  that works.
* **`seen_reverts`**: a film is seen to its end, and the page, covered by the
  player meanwhile, reads the held copy of before the run again in its next
  frame (`detail.c:294`): it shows the film as not watched.

## Known not to hold

These follow from a comment or a header of the code, or are what a reader would
expect of it, and are violated by what it does. Those with a name are stated in
the module; they have no run of their own, TLC finds each in seconds with the
constants of the run that module is in.

Playing:

* `ZeroIsAlwaysProof` (`Worker`): after a `worker_stop` that gave up, `running`
  is down and the thread may be inside a pass, and `worker_quiet` answers 0 from
  its first line (`worker.c:64`).
* A film of few large pictures to a segment: the ring is full below the mark
  playing starts at, and fetcher and player wait for each other (`stream.c:432`,
  `639`). With the console's ring and marks this takes a film of very few
  pictures to the megabyte.
* `EndedAfterLastPicture` (`Film`): `stream_frame` reads `g_ended` after it has
  looked at the ring (`stream.c:650`); the last pictures may come in between,
  and the film is called ended with them waiting.
* `ProgressAfterStart` (`Player`): a PROGRESS that replaces one of the session
  before goes out ahead of its own session's START (`reports.c:41`).
* `TeardownNeverLost` (`Player`, with three opens): a second seek before the
  first one's reports have gone out finds the queue full, and the second film's
  teardown is dropped (`reports.c:42`), where the comment at `reports.c:13` says
  the player cannot fill it.
* The player's band: Square hides the band while the viewer aims on the bar, and
  Square again shows one captioned as seeking with no aim left.

Library and pages:

* `RowsAreFresh` (`Listing`): a mark that has landed and a stop that was told
  forget the listing and not the stash (`catalog.c:252`, `486`), so going back
  shows rows that were read before the mark as ready.
* `RowsAnswerTheAsk`, `StashIsLabelled` (`Listing`): `want_items` looks at
  `g_items_busy` and the slot without the lock, and the worker may take a
  request between the look and the copy (`catalog.c:380`, `402`). `RowsAnswer`
  says what holds until such a crossing, which the history variable `crossed`
  notes at the four steps where it can happen.
* The rows of the level above are drawn after a pop when the answer of the
  listing uncovered is overtaken, or Triangle pressed, before its first frame
  (`listing.c:109`); `DrawnAreThePages` excepts it (`early`).
* After a mark or a stop has landed, `resumed()` forgets the rows of its own
  level and not only those that changed. Triangle on a new level's first frame
  may drop that level's request, as what was asked is kept across levels.
* The synopsis and the tracks of another item stand under the old id when a
  fetch that was given up on writes them late (`catalog.c:213`); `TracksAreTheirs`
  excepts it (`crossed`). A mark in flight when the viewer steps to the neighbour
  is written into the item then shown (`detail.c:195`).

Posters and files:

* `PackIsAlwaysTrue` (`Pack`): a record cut short by lost power or a full card
  leaves a tail; when a shorter record put over it is cut short too, behind its
  header lie as many old rows as it was to have, `read_hdr` finds it whole
  (`posters.c:109`), and the next launch serves another picture's rows under its
  key. `PackIsTrue` says what holds until then, which `covered` notes.
* `EverySleepIsCounted` (`Standby`): a sleep whose edge is taken while another is
  being worked off is not counted by itself; and a wake that comes between
  `standby_step`'s two looks while the loop is up is cleared as one with nothing
  lost (`standby.c:101`), after which the next look takes the sleep and the
  machine stays down until it sleeps again (`hurried` in `DownIsLeft`).
* A write under way when `hostfs_release` put `g_write_ok` back says 1 after it, and
  is taken for one made since the wake; and a write that broke behind its open says 1
  like any other (`link.c:94-96`, `128-130`), so a link may be called proven by a
  file of which nothing arrived.
* For the same reason lines of the log and rows of a screenshot are removed from the
  queue although the write that had them broke: `base/log.c:76` looks at what the
  card's `fwrite` returned, the cable's is not asked. `LinesInOrder` has the lines
  that were so `lost` in their place in the order, and `ShotIsWhole` does not speak of
  a screenshot of which rows, or the emptying, were (`missed`). The caller of
  `shot_write` is told that it landed all the same.
* A put is no longer pending when its file is opened (`link.c:119`), so an answer whose
  open fails, right after a wake for instance, or whose write breaks, is never said
  again: the command ran or was refused, and its sender waits as `remote.c:79` fears.
  `CommandsAreAnswered` excepts it (`unsaid`) until a later number is said. The script
  waits its bound and asks once more with the next number (`scripts/lib.sh:217`), which
  runs the command a second time.
* The first answer, a 0, goes out with the link's first puts. Until it lands, and for
  good when its put fails, `ack.txt` holds the number of the run before; a number cut
  by a write that broke may be any head of it. `CommandsAreTheScripts` speaks of numbers
  written whole in this run.
* An open of the command file that fails is taken for no file (`link.c:141`): when it is
  the first, what a run before left there counts as come since, and runs (`blind`). An
  empty command file is no baseline, so that a first command written into it is taken
  for one of the run before.
* A settings file cut by lost power is read as far as it goes, and the rest are
  defaults.

Connection and requests:

* `RetryIsDone` (`Connection`): an ask that lands between the worker's read of
  the flag and its clear is lost (`swallowed` in `StageSettles`). An association
  taken over right after a sleep, and an answer that lands between the watch and
  the offline page's own reading (`blinked`), are excepted in the same way.
* A read not yet registered, or a ninth one, misses a cancel and waits for its
  own bound; a `recv` that was cancelled ends as a cut, not as stopped.
* A request sent ahead while the machine falls asleep inside the sending is
  counted as sent after it (`torn` in `DeadIsNotReused`).
* `Reply`: `has_image` looks for `"Primary"` anywhere behind `ImageTags`
  (`api.c:395`), and so takes a neighbour's for its own when the item's are
  empty; a `…` that no longer fits a name becomes one `.`, with nothing to say
  that the name was cut.

Drawing:

* `ui_end` does not see slots that were taken from a box's far end, and a box
  that takes the rest (FILL) after a take larger than the box moves the cursor
  back.
* An item longer than the view less twice the peek makes the scroll alternate
  between its two edges, where `scroll.c:30` says that it aligns to the near one.

## The proofs

All proofs are checked by TLAPS with Z3, Zenon and LS4, for every value of the
constants that the named assumptions allow.

* **`LibraryProofs`, the worker** (`WorkerAssumption`: the bound is a natural
  number, the counter's modulus at least 2). Type correctness, `ZeroIsProof` and
  `OneThread` for any number of threads. The invariant adds to them where the
  live thread can be while `left` and `running` are what they are, and what the
  counter and `was` say of the pass during a wait: `ZeroIsProof` alone is not
  inductive, as its step from a wait to an answer needs to know that a count
  that moved was moved by a pass begun before the owner's look.
* **`LibraryProofs`, the wants** (`SlotAssumption`: the zeroed ask is one of the
  asks), of `Slot` and of `Listing`. Of the slot: its types and that a busy slot
  is served, a pending one busy, a ready one for the want, for any set of asks;
  what has to be added is that an attempt that counts, with nothing posted behind
  it, is for the want. `ListingIsSlot`: the listing implements the slot, the
  mapping being the slot's own variables, so that the slot's invariants carry
  over (`SlotServed`). Of the listing: types and `RowsAnswer`; the invariant says,
  until a look was crossed, whose rows are in `g_items` at each stand of the
  worker and of the page, and that an attempt in flight has a busy slot, which is
  what keeps a restore and a fetch apart.
* **`LibraryProofs`, the posters** (`PostersAssumption`: `Nobody` is no picture,
  the bounds are natural numbers). Types, `ReadyIsItsOwn`, one slot to a picture,
  `PackIsFresh` for any pictures, slots and `KEEP_FRAMES`. The invariant adds
  that the slot in the worker's hands is the only one that is running, and still
  for the picture it was taken for, what has been decoded when, and that what was
  fetched before the last clear is in the pack or in the worker's hands, so that
  the removal gets it all.
* **`PlayingProofs`, the ring** (`SampleRingAssumption`: sizes are positive).
  Types, no unread byte overwritten (`UnreadIsWhole`) and `UsedWithinCap` for any
  capacity, slots, stamps and lengths, and `RingImplementsFifo`: the ring
  implements the channel of `Fifo` under the mapping `SampleRing` states. The
  invariant says where each record begins and ends: one after the other, skips
  between, all within one capacity of the oldest. The lemmas on `%` (two positions
  less than a capacity apart have different offsets) carry from there to bytes.
* **`PlayingProofs`, films in turn** (`StreamAssumption`). `StreamFilmsApart`:
  `FilmsApart` for any number of films and tries. `FilmsApart` speaks of a film
  that is open or closed only; the invariant `ApartInv` says what holds in
  between, while every wait came back: past its first wait the owner finds the
  worker out of its pass and keeps it out, and a pass past the server's answer has
  the session of the film opened last. `StreamImplementsOpening`: `Stream` refines
  `Opening`, also when waits give up; what it rests on is that the segments
  fetched in the first tries are of the session asked for.
* **`PlayingProofs`, one film** (`FilmAssumption`: ring sizes, slots and tries are positive; a
  film is a non-empty sequence of segments whose stamps grow, as `take_sample`
  drops what is not newer than the last it took; a segment has at most `SEG_SLOTS`
  pictures, which `stream.c:34` says of the server's segments). Types and
  `FilmStaysWhole`: `FilmIsWhole` for any such film, any rings and any order of
  the three threads' steps. The invariant carries both rings at once: for each
  track, what was handed out, then what waits, is one growing line; all that the
  cut has passed was taken, and all of the film up to the newest stamp taken is
  in that line (of the sound, or was dropped). So a segment cut again from its
  start adds only what was not taken. With it stand the places of each thread
  (what was looked at is the oldest that waits, and an end is noted only with
  nothing of the film left to fetch) and the slots: a cut begins with `SEG_SLOTS`
  free and has taken no more pictures than it has passed.
* **`PlayerProofs`, the page and the clock** (`PlayerAssumption`: two naturals and a queue of at least
  one). Types, `SessionsInTurn` and `ToldSessionsAreEnded`, for any number of
  films, reports and places in the queue. A session is the number of its film, so
  the sessions the page comes upon are new; the invariant says which of them the
  page has gone by, how far it is with the STOP and the encoder of each that was
  told of, and that no call of a session follows its STOP. What the server hears of that is `Reports`'
  invariant `KeptInv`, which keeps the order in all but positions overtaken.
  `PlayClockNeverJumps` (`PlayClockAssumption`: the cap is below a turn of the
  clock): `ClockNeverJumps` for any turn, cap and times. The invariant is that the
  difference of two readings of the clock is the time that passed as long as that
  is below the cap, from which on the cap bounds the step; the lemmas on `%`
  before it say what adding to one reading does to it.
* **`PlayerProofs`, the band** (`BandAssumption`: natural numbers, a tail of the
  film that is never asked for and is shorter than the film, a pace below its
  delay). `AimsAreSeen`: `AimIsSeen` for any such film and pace, any keys at once
  and in any order. The invariant `BandInv` says what an aim is while it lasts (up,
  shown, on the bar and not on the row, not about to be hidden, inside what may be
  asked for) and that a key of the row is one that is there; each helper of
  `act()` is shown to keep it, in the order in which a frame calls them, as a frame
  may show, arm, step, commit and hide in one go.
* **`ConnectionProofs`** (`ConnectionAssumption`: the bounds are natural numbers,
  the connections saved among the two the file may name, and the pages of the boot
  and of home fit an empty stack, as they do the 8 KB of `stack.h:31`). Types,
  `OfflineWhileLost`, `DialogIsHeld` and `WokenIsRejoined` for any number of
  sleeps, any count of misses, depth of the stack and sizes of pages. Each rests
  on a part of the invariant: `LostInv`, that the page it is on stays on the
  stack at both halves of the frame, whatever is pushed, popped or reset over it;
  `DialogInv`, that exactly one network page waits while the dialog is up, and
  none while it is down or the program has begun to leave; `WokenInv`, that past the joining only an ask the worker
  has still to read stands between a link of before the last sleep and the rejoin.
* **`RequestsProofs`** (`SegmentsAssumption`: the feed is none of the API's
  threads, `Nobody` is no thread and `NoSock` no descriptor, the register has at
  least one place; `HttpAssumption`: bodies are sequences of bytes, and what a
  buffer holds and a read brings are natural numbers). Types, `SegmentIsTheOneAsked`, `SocketsAreAnswered`,
  `DeadIsNotReused` and `OneSignInPerRefusal`, for any threads, descriptors, places
  in the register, sleeps, tokens and length of the film. Whose a socket is and
  what travels on it have to be known together: every open socket is in one place
  of one thread (`Owned`), a thread has a request exactly when its caller waits
  for one (`PlacesInv`), and what a socket carries is what its holder believes
  (`SegInv`, `CallInv`, `TokenInv`). For the cancel, a read it caught has been
  woken, is about to be, or is registered ahead of the walk (`CancelInv`): reads
  that come and go under the walk cannot move behind it. For the sleep, a kept
  socket that is dead is marked older than the sleep, or was torn (`DeadInv`).
  `BodiesStayWhole`: `BodyIsWhole` for any bodies, any way to cut them into chunks
  with or without extensions, any room and any splits. Its invariant (`BodyInv`)
  looks ahead: the bytes still on the wire, fed one after another to the dechunker
  as it stands (`Leads`), end with the whole body kept or refused. A read only goes
  part of that way (`ReadLeadsOn`), so nothing need be said of where inside a
  chunk it stops; that the wire of any cut leads there is shown chunk by chunk
  (`ChunkedRead`). Where the request ends and is not called cut, nothing is left
  that could change what is kept.
* **`ScreensProofs`, an item's page** (`DetailAssumption`: the episodes are
  numbers and none is 0, the bounds are natural numbers). `WhatPlaysIsTheItems`:
  `RunsAreTheItems` for any season, any cap of runs nobody asked for and any number
  of visits, runs, presses and faults. The invariant `DetailInv` keeps the ITEM
  want, the job under way for it and the copy held apart by whose each is: as long
  as no page asked for its item over the text another's left (`crossed`), what is
  asked, fetched and written is of the page that is up (`SlotInv`, `TextInv`); the runs are counted on the
  page exactly while one is on or begins (`RunInv`); and a mark the copy has
  otherwise than the server is one whose job is still to tell (`HeldInv`).
  `PressesTurnOver`: `PressTurnsOver` from the same invariant.
* **`ScreensProofs`, the listings** (`BrowseAssumption`: the orders are numbers and
  there is one, and the front page fits the arena). `RowsAreThePages`:
  `DrawnAreThePages` for any folders, orders, depth of the stack and sizes of
  pages. One listing of the library serves all the listings on the stack, so the
  invariant `BrowseInv` is about the topmost listing wherever it stands: what is
  drawn is of it, or the answer it waits for is there and has not been taken; and
  one below it draws nothing before it has taken its own. `LevelsComeBack`:
  `FocusReturns`, as every level below the top keeps the focus it was left at.
* **`ScreensProofs`, the focus** (`FocusAssumption`: the clock has a turn, the
  times are natural numbers, the widgets of a frame have ids of their own). `HeldWaits`:
  `RepeatWaits` for any turn of the clock, any frames, whatever widgets they register,
  and any delay: while its widget is on the page the focus moves by a direction only; what is left until the repeat covers what is left of
  the delay since the direction went down.
* **`ScreensProofs`, the boxes** (`LayoutAssumption`: sizes are natural numbers).
  `NothingOverAnything`: `SlotsApart` for any panel, sizes, gaps, number of slots
  and depth of boxes. The invariant is of what is still to be handed out as much
  as of what was: what is left of every open box is on the panel and over no slot
  and over no other open box's rest. That rests on `spilled`: a take of more than is
  left ends all promises.
* **`ScreensProofs`, the scroll** (`ScrollAssumption`: sizes are natural numbers,
  an item and what is to be seen of its neighbours fit the view, and the longest
  page is one `Settling` frames go over). `FocusComesIntoView`: `FocusIsInView`
  wherever the page, the view and the focus went before. Where the item in focus
  takes the page, a frame more takes it nowhere else (`StaysInView`), and what is
  left of the way is no more than the frames still to come leave nothing of
  (`ScrollInv`).
* **`ScreensProofs`, side by side** (the assumptions of all of them).
  `ScreensAreTheirParts`: what `MCScreens` runs is each part's specification, a
  part's step being a stutter of the others, so the theorems above hold of it; and
  `FocusStaysTheViewers`: `FocusIsTheViewers`.
* **`PlayerProofs`, the segments** (`Fmp4Assumption`: what is read as unsigned is a
  natural number, and a trak is of one medium). `NothingPastTheBytes`: the parts
  `TracksApart` and `HandedOverIsInside` of `SamplesAreTheFiles`, of segments of any
  boxes. What the walk of a trak holds of a medium stands in its boxes (`TrakOf`),
  by induction over them.
* **`Reports`** (`ReportsAssumption`). Types, and `ReportsAreKept`: `ReportsKept`
  for any queue and any number of calls. What went out and what waits are one
  line, and a step puts a job last in it, puts one over the PROGRESS that waits,
  or only moves the join; that at most one PROGRESS waits is what makes the second
  keep the order.
* **`FilesProofs`** (the assumptions of `Standby`, `Link`, `Card` and `Pack`:
  bounds are natural numbers, the queue and a screenshot have at least one line, a
  dial has its default on it and a range is not empty, a picture has at least one
  row). `SleepsAreCounted` for any number of
  sleeps at any point of the loop, by itself and under the cable: a sleep not yet
  counted shows in the phase, in the edge still to be taken, or in `dropped`.
  `CableStaysTrue`: `CableIsTrue` for any queue, lost lines, screenshots, readers and
  scripts, over opens that fail and writes that break behind them.
  Its invariant has the copy in the thread's hands at the head of the queue until
  it is removed (so no file takes the queue over from another under a write), the
  lines of the log a chain from the file's last, over those lost since, to the last one
  given, and the rows
  on the other side, those a put under way will empty left out, with those that
  wait behind them the rows pushed. A reader past its ask has the one request
  until it leaves, and the thread reads for that request or for an older one.
  `CardStaysTrue`: `CardIsTrue` for any lines, sizes, breaks, boots and dials. Of
  what was taken the buffer holds all from its own first line on and all past the
  file's last, so a write may put any head of it behind the file, twice too, and
  leave nothing out. What `Read` computes of a file of any length is proved by
  induction over a set of numbers (`UpTo`), as the prover takes no predicate for
  a parameter: it stays on the dials, and reads back what was written.
  `PackStaysTrue`: `PackIsTrue` for any pictures, rows, room and records, and
  `PackImplementsCache`: the pack implements `Cache` under the mapping `Pack`
  states. By the same induction a walk over a file whose records lie one after
  another up to a place where none begins finds just those (`WalkIs`). The
  invariant says that the file is such a one under the index, that no header stands
  behind the place the next record goes to but one at that very place, and that
  what a put has written so far is there. So a put that is cut short is found by
  the next launch either not at all or whole, and then all its rows are its own,
  or it was one `covered` notes; and nothing the index had is lost by the launch.

Only model-checked: every liveness property (fairness and ENABLED are out of
the prover's reach); of `SamplesAreTheFiles` the part `TrueIsWhole`, as what a segment
carries is given by hand in `MCPlayer` and not computed from its table; of
`KeysReachAndShow` the part `EveryWidgetIsReached`, checked from every widget the focus
may be left at in each layout of the run's pages, which is true of pages laid out as
this program's are and of no others (`AimIsSeen`, `FocusIsInView` and `SlotsApart` are
proved); and `RowsAreTheItems`, which is about texts: that a scan of any text finds
its own brackets is induction over data through and through. Its walks are folds,
and a fold takes an operator, which the provers cannot evaluate; that is also why
`ConnectionAssumption` and `BrowseAssumption` say of one or two pages that they fit,
and not of the sum `g_arena`. What `Card`, `Pack`, `Http`, `Fmp4` and the scroll walk
are recursive functions, for which an induction over a set of numbers can be
stated.

## What is not modelled

* The drawing of texts and elements, and the decoders, the sound hardware and
  the graphics of both platforms: `Film` takes "there is room" and "a picture
  comes out or fails" for them.
* The desktop platform, whose libraries are wrapped and which keeps no state the
  application depends on; its network is always up.
* `base/jpeg_header.c`: one pass over a byte string, with nothing kept and no
  caller that goes on after a refusal.
* The spelling of request lines, headers and addresses (`jelly/query.c`, parts of
  `io/http.c`), and the answers of the smaller calls of `jelly/api.c`.
* The developer's measurements and checks (`tools/lab.c`, `tools/speed.c`,
  `tools/selftest.c`, `shell/desktop/checks.c`), which a viewer's program does not
  run; what a command over the cable presses.
* Between parts that stand side by side in a run, what one takes of another is
  the most it may do: a request arrives, fails or takes for ever, the stage of
  the session comes and goes, time passes in any amounts of a set.
