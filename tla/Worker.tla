------------------------------- MODULE Worker -------------------------------
(***************************************************************************)
(* base/worker.c: a thread that runs passes over its owner's state, and    *)
(* the two ways its owner has of getting it out of that state:             *)
(* worker_stop(), which ends the thread, and worker_quiet(), which waits   *)
(* for one pass to complete after the owner has taken the work away.       *)
(*                                                                         *)
(* The owner is one thread (the drawing thread: library_start,             *)
(* reports_start, stream_start, stream_open, stream_close, app_stop).      *)
(* What a pass does is the owner's business; here a pass reads the owner's *)
(* work flag once (g_running of model/stream.c) and, if there is work, is  *)
(* inside the owner's state until it returns.                              *)
(***************************************************************************)
EXTENDS Naturals

CONSTANTS
    Threads,    \* threads platform_thread_start can still create
    Bound,      \* polls of 2 ms before a wait gives up (bound_us)
    PassWrap    \* the modulus of the unsigned pass counter (2^32)

ASSUME WorkerAssumption ==
    /\ Bound \in Nat
    /\ PassWrap \in Nat \ {0, 1}

VARIABLES
    running,    \* worker.running
    left,       \* worker.left
    passes,     \* worker.passes
    at,         \* at[t]: where thread t is in run()
    work,       \* the owner has given the worker something to do
    owner,      \* the owner's place: "idle", "starting", or in the wait of a
                \* "quiet" or a "stop"
    was,        \* worker_quiet's local
    waited,     \* polls made in the current wait
    verdict,    \* what the last wait returned: "none", "ok" (0), "bound" (-1)
    timedOut    \* history: some worker_stop() has returned -1

threadVars == <<running, left, passes, at, work, owner, was, waited, verdict, timedOut>>
ownerVars == <<work, owner, was, waited, verdict, timedOut>>

Places == {"unused", "test", "enter", "inside", "count", "leaving", "gone"}

\* A thread that has been created and has not said it has left.
Live(t) == at[t] \in {"test", "enter", "inside", "count", "leaving"}

WorkerTypeOK ==
    /\ running \in BOOLEAN
    /\ left \in BOOLEAN
    /\ passes \in 0 .. PassWrap - 1
    /\ at \in [Threads -> Places]
    /\ work \in BOOLEAN
    /\ owner \in {"idle", "starting", "quiet", "stop"}
    /\ was \in 0 .. PassWrap - 1
    /\ waited \in 0 .. Bound
    /\ verdict \in {"none", "ok", "bound"}
    /\ timedOut \in BOOLEAN

WorkerInit ==
    /\ running = FALSE
    /\ left = FALSE
    /\ passes = 0
    /\ at = [t \in Threads |-> "unused"]
    /\ work = FALSE
    /\ owner = "idle"
    /\ was = 0
    /\ waited = 0
    /\ verdict = "none"
    /\ timedOut = FALSE

-----------------------------------------------------------------------------
(* run(): the thread.                                                      *)

\* A slip: the loop watches `left`, which only the thread itself sets.
TestLoop_WatchesLeft(t) ==
    /\ at[t] = "test"
    /\ at' = [at EXCEPT ![t] = IF left THEN "leaving" ELSE "enter"]
    /\ UNCHANGED <<running, left, passes, ownerVars>>

\* while (w->running)
TestLoop(t) ==
    /\ at[t] = "test"
    /\ at' = [at EXCEPT ![t] = IF running THEN "enter" ELSE "leaving"]
    /\ UNCHANGED <<running, left, passes, ownerVars>>

\* w->pass(w->user) begins: it looks for work, and without any returns at once.
EnterPass(t) ==
    /\ at[t] = "enter"
    /\ at' = [at EXCEPT ![t] = IF work THEN "inside" ELSE "count"]
    /\ UNCHANGED <<running, left, passes, ownerVars>>

\* The pass returns, after however long its blocking calls took.
LeavePass(t) ==
    /\ at[t] = "inside"
    /\ at' = [at EXCEPT ![t] = "count"]
    /\ UNCHANGED <<running, left, passes, ownerVars>>

\* w->passes++, then the idle sleep.
CountPass(t) ==
    /\ at[t] = "count"
    /\ passes' = (passes + 1) % PassWrap
    /\ at' = [at EXCEPT ![t] = "test"]
    /\ UNCHANGED <<running, left, ownerVars>>

\* w->left = 1, the thread's last access.
SayLeft(t) ==
    /\ at[t] = "leaving"
    /\ left' = TRUE
    /\ at' = [at EXCEPT ![t] = "gone"]
    /\ UNCHANGED <<running, passes, ownerVars>>

ThreadStep(t) ==
    \/ TestLoop(t)
    \/ EnterPass(t)
    \/ LeavePass(t)
    \/ CountPass(t)
    \/ SayLeft(t)

-----------------------------------------------------------------------------
(* The owner.                                                              *)

\* A slip: no test that the worker runs already.
StartRaises_NoCheck ==
    /\ owner = "idle"
    /\ running' = TRUE
    /\ left' = FALSE
    /\ passes' = 0
    /\ owner' = "starting"
    /\ verdict' = "none"
    /\ UNCHANGED <<at, work, was, waited, timedOut>>

\* worker_start(): a worker that runs is left alone, else the record is
\* cleared and `running` raised before there is a thread to see it.
StartRaises ==
    /\ owner = "idle"
    /\ ~running
    /\ running' = TRUE
    /\ left' = FALSE
    /\ passes' = 0
    /\ owner' = "starting"
    /\ verdict' = "none"
    /\ UNCHANGED <<at, work, was, waited, timedOut>>

\* platform_thread_start() gave a thread.
StartCreates(t) ==
    /\ owner = "starting"
    /\ at[t] = "unused"
    /\ at' = [at EXCEPT ![t] = "test"]
    /\ owner' = "idle"
    /\ UNCHANGED <<running, left, passes, work, was, waited, verdict, timedOut>>

\* platform_thread_start() refused.
StartRefused ==
    /\ owner = "starting"
    /\ running' = FALSE
    /\ owner' = "idle"
    /\ UNCHANGED <<left, passes, at, work, was, waited, verdict, timedOut>>

\* The owner hands work over, as stream_open() does once worker_running().
GiveWork ==
    /\ owner = "idle"
    /\ running
    /\ ~work
    /\ work' = TRUE
    /\ verdict' = "none"
    /\ UNCHANGED <<running, left, passes, at, owner, was, waited, timedOut>>

\* The owner takes the work away, as stream_close() does (g_running = 0).
TakeWork ==
    /\ owner = "idle"
    /\ work
    /\ work' = FALSE
    /\ UNCHANGED <<running, left, passes, at, owner, was, waited, verdict, timedOut>>

\* A slip: the count is not noted, so any earlier pass will do.
CallQuiet_StaleCount ==
    /\ owner = "idle"
    /\ ~work
    /\ IF running
          THEN /\ owner' = "quiet"
               /\ verdict' = "none"
               /\ waited' = 0
               /\ UNCHANGED was
          ELSE /\ verdict' = "ok"
               /\ UNCHANGED <<owner, was, waited>>
    /\ UNCHANGED <<running, left, passes, at, work, timedOut>>

\* worker_quiet() is called once the work is gone and notes the pass count.
\* A worker that is not running answers 0 at once.
CallQuiet ==
    /\ owner = "idle"
    /\ ~work
    /\ IF running
          THEN /\ owner' = "quiet"
               /\ verdict' = "none"
               /\ was' = passes
               /\ waited' = 0
          ELSE /\ verdict' = "ok"
               /\ UNCHANGED <<owner, was, waited>>
    /\ UNCHANGED <<running, left, passes, at, work, timedOut>>

\* One turn of worker_quiet()'s loop: 0 once the count has moved, -1 at the
\* bound.
PollQuiet ==
    /\ owner = "quiet"
    /\ \/ /\ passes # was
          /\ owner' = "idle"
          /\ verdict' = "ok"
          /\ UNCHANGED waited
       \/ /\ passes = was
          /\ waited < Bound
          /\ waited' = waited + 1
          /\ UNCHANGED <<owner, verdict>>
       \/ /\ passes = was
          /\ waited = Bound
          /\ owner' = "idle"
          /\ verdict' = "bound"
          /\ UNCHANGED waited
    /\ UNCHANGED <<running, left, passes, at, work, was, timedOut>>

\* worker_stop() asks. A worker that is not running answers 0 at once.
CallStop ==
    /\ owner = "idle"
    /\ IF running
          THEN /\ running' = FALSE
               /\ owner' = "stop"
               /\ verdict' = "none"
               /\ waited' = 0
          ELSE /\ verdict' = "ok"
               /\ UNCHANGED <<running, owner, waited>>
    /\ UNCHANGED <<left, passes, at, work, was, timedOut>>

\* A slip: the wait ends when the count moves, as a quiet's does.
PollStop_OnCount ==
    /\ owner = "stop"
    /\ \/ /\ left \/ passes # was
          /\ owner' = "idle"
          /\ verdict' = "ok"
          /\ UNCHANGED <<waited, timedOut>>
       \/ /\ ~left
          /\ waited < Bound
          /\ waited' = waited + 1
          /\ UNCHANGED <<owner, verdict, timedOut>>
       \/ /\ ~left
          /\ waited = Bound
          /\ owner' = "idle"
          /\ verdict' = "bound"
          /\ timedOut' = TRUE
          /\ UNCHANGED waited
    /\ UNCHANGED <<running, left, passes, at, work, was>>

\* One turn of worker_stop()'s loop: 0 once the thread has said it has left,
\* -1 at the bound.
PollStop ==
    /\ owner = "stop"
    /\ \/ /\ left
          /\ owner' = "idle"
          /\ verdict' = "ok"
          /\ UNCHANGED <<waited, timedOut>>
       \/ /\ ~left
          /\ waited < Bound
          /\ waited' = waited + 1
          /\ UNCHANGED <<owner, verdict, timedOut>>
       \/ /\ ~left
          /\ waited = Bound
          /\ owner' = "idle"
          /\ verdict' = "bound"
          /\ timedOut' = TRUE
          /\ UNCHANGED waited
    /\ UNCHANGED <<running, left, passes, at, work, was>>

OwnerStep ==
    \/ StartRaises
    \/ \E t \in Threads : StartCreates(t)
    \/ StartRefused
    \/ GiveWork
    \/ TakeWork
    \/ CallQuiet
    \/ PollQuiet
    \/ CallStop
    \/ PollStop

WorkerNext == OwnerStep \/ \E t \in Threads : ThreadStep(t)

WorkerSpec == WorkerInit /\ [][WorkerNext]_threadVars

\* The kernel schedules every thread, a pass returns (each of its requests
\* is bounded by io/http's read timeout), and the owner's waits keep polling.
WorkerFairSpec ==
    /\ WorkerSpec
    /\ WF_threadVars(PollQuiet)
    /\ WF_threadVars(PollStop)
    /\ WF_threadVars(StartRefused \/ \E t \in Threads : StartCreates(t))
    /\ \A t \in Threads : WF_threadVars(ThreadStep(t))

-----------------------------------------------------------------------------
(* Properties.                                                             *)

\* base/worker.h: "one completed pass after the work is gone is the proof".
\* Once a quiet or a stop has answered 0, and until the owner hands over work
\* again or starts the worker again, no thread is inside the owner's state --
\* unless an earlier stop went unanswered.
ZeroIsProof ==
    verdict = "ok" /\ ~timedOut => \A t \in Threads : at[t] # "inside"

\* The same without the exception, as the header states it: worker_quiet()
\* returns "0 when it came back, -1 at the bound".
ZeroIsAlwaysProof ==
    verdict = "ok" => \A t \in Threads : at[t] # "inside"

\* The stop protocol keeps one thread to a worker: two are alive only if a
\* stop has returned -1 and the owner started the worker again regardless.
OneThread ==
    timedOut \/ \A t, u \in Threads : Live(t) /\ Live(u) => t = u

\* A worker told to stop comes to have no thread, unless it is started again.
StopIsObeyed ==
    ~running ~> (running \/ \A t \in Threads : ~Live(t))

=============================================================================
