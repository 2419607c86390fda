--------------------------- MODULE LibraryProofs ---------------------------
(***************************************************************************)
(* What TLC checks of the parts the pages draw from, proved for any number *)
(* of threads, any bound on the waits, any width of the pass counter, any  *)
(* asks and any listings: the stop protocol of base/worker.c, a want of    *)
(* the library, the listing over one, and the posters' slots and pack.     *)
(* The listing is a want like any other: every step of Listing is one of   *)
(* Slot's or leaves the slot alone, so what is said of a slot holds of it. *)
(* And its rows answer what was asked, until want_items() and another      *)
(* thread cross.                                                           *)
(***************************************************************************)
EXTENDS Worker, Listing, Posters, TLAPS

-----------------------------------------------------------------------------
(* The worker threads.                                                     *)

\* A thread that is inside a pass, or about to look for work, may still see
\* work the owner has given.  While a quiet waits there is none to see, so a
\* count that has moved means that the pass it saw has been left.
QuietArgument ==
    owner = "quiet" =>
        /\ ~work
        /\ running
        /\ passes # was => \A t \in Threads : at[t] # "inside"

\* After a 0 the threads stay out while there is no work to see, or no thread.
ZeroArgument ==
    verdict = "ok" =>
        /\ owner = "idle"
        /\ \A t \in Threads : at[t] # "inside"
        /\ work => \A t \in Threads : ~Live(t)

\* `running` and `left` say which threads there can be.
ThreadArgument ==
    /\ owner = "starting" => \A t \in Threads : ~Live(t)
    /\ owner = "stop" => ~running
    /\ owner \in {"quiet", "starting"} => running
    /\ running => ~left /\ \A t \in Threads : at[t] # "leaving"
    /\ ~running /\ owner # "stop" => \A t \in Threads : ~Live(t)
    /\ left => \A t \in Threads : ~Live(t)

ThreadInv ==
    /\ WorkerTypeOK
    /\ OneThread
    /\ timedOut \/ (QuietArgument /\ ZeroArgument /\ ThreadArgument)

-----------------------------------------------------------------------------

\* The counters' arithmetic, apart from the rest so that each backend sees
\* only what it is good at.
LEMMA CounterFacts ==
  /\ 0 \in 0 .. PassWrap - 1
  /\ 0 \in 0 .. Bound
  /\ \A n \in 0 .. PassWrap - 1 : (n + 1) % PassWrap \in 0 .. PassWrap - 1
  /\ \A n \in 0 .. Bound : n < Bound => n + 1 \in 0 .. Bound
BY WorkerAssumption

LEMMA ThreadsBegin == WorkerInit => ThreadInv
<1> SUFFICES ASSUME WorkerInit
             PROVE  ThreadInv
  OBVIOUS
<1>1. WorkerTypeOK
  BY CounterFacts DEF WorkerInit, WorkerTypeOK, Places
<1>2. \A t \in Threads : at[t] = "unused"
  BY DEF WorkerInit
<1>3. OneThread
  BY <1>2 DEF OneThread, Live
<1>4. QuietArgument /\ ZeroArgument /\ ThreadArgument
  BY <1>2 DEF WorkerInit, QuietArgument, ZeroArgument, ThreadArgument, Live
<1>5. QED
  BY <1>1, <1>3, <1>4 DEF ThreadInv

\* Every step of the thread or its owner keeps every variable in its type.
LEMMA NextTypeOK == WorkerTypeOK /\ [WorkerNext]_threadVars => WorkerTypeOK'
<1> SUFFICES ASSUME WorkerTypeOK, [WorkerNext]_threadVars
             PROVE  WorkerTypeOK'
  OBVIOUS
<1> USE CounterFacts DEF WorkerTypeOK, Places, ownerVars
<1>1. ASSUME NEW t \in Threads, ThreadStep(t)
      PROVE  WorkerTypeOK'
  <2>2. CASE TestLoop(t)   BY <2>2 DEF TestLoop
  <2>3. CASE EnterPass(t)  BY <2>3 DEF EnterPass
  <2>4. CASE LeavePass(t)  BY <2>4 DEF LeavePass
  <2>5. CASE CountPass(t)  BY <2>5 DEF CountPass
  <2>6. CASE SayLeft(t)    BY <2>6 DEF SayLeft
  <2>7. QED  BY <1>1, <2>2, <2>3, <2>4, <2>5, <2>6 DEF ThreadStep
<1>2. CASE OwnerStep
  <2>1. CASE StartRaises   BY <2>1 DEF StartRaises
  <2>2. ASSUME NEW t \in Threads, StartCreates(t)
        PROVE  WorkerTypeOK'
    BY <2>2 DEF StartCreates
  <2>3. CASE StartRefused  BY <2>3 DEF StartRefused
  <2>4. CASE GiveWork      BY <2>4 DEF GiveWork
  <2>5. CASE TakeWork      BY <2>5 DEF TakeWork
  <2>6. CASE CallQuiet     BY <2>6 DEF CallQuiet
  <2>7. CASE PollQuiet     BY <2>7 DEF PollQuiet
  <2>8. CASE CallStop      BY <2>8 DEF CallStop
  <2>9. CASE PollStop      BY <2>9 DEF PollStop
  <2>10. QED
    BY <1>2, <2>1, <2>2, <2>3, <2>4, <2>5, <2>6, <2>7, <2>8, <2>9 DEF OwnerStep
<1>3. CASE UNCHANGED threadVars
  BY <1>3 DEF threadVars
<1>4. QED
  BY <1>1, <1>2, <1>3 DEF WorkerNext

\* The thread's own steps keep the argument: it leaves a pass before it
\* counts it, and says it has left when it is the only thread.
LEMMA ThreadKeepsInv ==
  ASSUME ThreadInv, WorkerTypeOK', NEW t \in Threads, ThreadStep(t)
  PROVE  ThreadInv'
<1> USE DEF ThreadInv, WorkerTypeOK, Places, ownerVars, Live, OneThread,
            QuietArgument, ZeroArgument, ThreadArgument
<1>1. CASE TestLoop(t)   BY <1>1 DEF TestLoop
<1>2. CASE EnterPass(t)  BY <1>2 DEF EnterPass
<1>3. CASE LeavePass(t)  BY <1>3 DEF LeavePass
<1>4. CASE CountPass(t)  BY <1>4 DEF CountPass
<1>5. CASE SayLeft(t)    BY <1>5 DEF SayLeft
<1>6. QED  BY <1>1, <1>2, <1>3, <1>4, <1>5 DEF ThreadStep

\* The owner's steps keep it: a quiet starts only once the work is gone, and
\* a start only with no thread left, or after an unanswered stop.
LEMMA OwnerKeepsInv ==
  ASSUME ThreadInv, WorkerTypeOK', OwnerStep
  PROVE  ThreadInv'
<1> USE DEF ThreadInv, WorkerTypeOK, Places, Live, OneThread,
            QuietArgument, ZeroArgument, ThreadArgument
<1>1. CASE StartRaises   BY <1>1 DEF StartRaises
<1>2. ASSUME NEW t \in Threads, StartCreates(t)
      PROVE  ThreadInv'
  <2>1. \A u \in Threads : u # t => at'[u] = at[u]
    BY <1>2 DEF StartCreates
  <2>2. CASE timedOut
    BY <1>2, <2>2 DEF StartCreates
  <2>3. CASE ~timedOut
    <3>1. \A u \in Threads : ~Live(u)
      BY <1>2, <2>3 DEF StartCreates
    <3>2. at'[t] = "test" /\ running /\ ~left /\ verdict # "ok"
      BY <1>2, <2>3 DEF StartCreates
    <3>3. OneThread'
      BY <2>1, <3>1
    <3>4. owner' = "idle" /\ UNCHANGED <<running, left, verdict>>
      BY <1>2 DEF StartCreates
    <3>5. \A u \in Threads : at'[u] \notin {"inside", "leaving"}
      BY <2>1, <3>1, <3>2
    <3>6. (QuietArgument /\ ZeroArgument /\ ThreadArgument)'
      BY <3>2, <3>4, <3>5
    <3>7. QED
      BY <3>3, <3>6
  <2>4. QED
    BY <2>2, <2>3
<1>3. CASE StartRefused  BY <1>3 DEF StartRefused
<1>4. CASE GiveWork      BY <1>4 DEF GiveWork
<1>5. CASE TakeWork      BY <1>5 DEF TakeWork
<1>6. CASE CallQuiet     BY <1>6 DEF CallQuiet
<1>7. CASE PollQuiet     BY <1>7 DEF PollQuiet
<1>8. CASE CallStop      BY <1>8 DEF CallStop
<1>9. CASE PollStop      BY <1>9 DEF PollStop
<1>10. QED
  BY <1>1, <1>2, <1>3, <1>4, <1>5, <1>6, <1>7, <1>8, <1>9 DEF OwnerStep

LEMMA ThreadsStep == ThreadInv /\ [WorkerNext]_threadVars => ThreadInv'
<1> SUFFICES ASSUME ThreadInv, [WorkerNext]_threadVars
             PROVE  ThreadInv'
  OBVIOUS
<1>1. WorkerTypeOK'
  BY NextTypeOK DEF ThreadInv
<1>2. ASSUME NEW t \in Threads, ThreadStep(t)
      PROVE  ThreadInv'
  BY <1>1, <1>2, ThreadKeepsInv
<1>3. CASE OwnerStep
  BY <1>1, <1>3, OwnerKeepsInv
<1>4. CASE UNCHANGED threadVars
  BY <1>4 DEF threadVars, ThreadInv, WorkerTypeOK, Live, OneThread,
              QuietArgument, ZeroArgument, ThreadArgument
<1>5. QED
  BY <1>2, <1>3, <1>4 DEF WorkerNext

\* The inductive invariant of the stop protocol (worker_start, worker_stop,
\* worker_quiet and the thread's loop).
THEOREM ThreadsInv == WorkerSpec => []ThreadInv
BY ThreadsBegin, ThreadsStep, PTL DEF WorkerSpec

\* Every variable of the worker keeps its type.
THEOREM WorkerTypeCorrect == WorkerSpec => []WorkerTypeOK
<1>1. ThreadInv => WorkerTypeOK
  BY DEF ThreadInv
<1>2. QED
  BY <1>1, ThreadsInv, PTL

\* base/worker.h: one completed pass after the work is gone is the proof that
\* the worker is not inside the state its owner is about to tear down.
THEOREM WorkerZeroIsProof == WorkerSpec => []ZeroIsProof
<1>1. ThreadInv => ZeroIsProof
  BY DEF ThreadInv, ZeroArgument, ZeroIsProof
<1>2. QED
  BY <1>1, ThreadsInv, PTL

\* A worker has one thread, unless a stop that was not answered was followed
\* by another start.
THEOREM WorkerOneThread == WorkerSpec => []OneThread
<1>1. ThreadInv => OneThread
  BY DEF ThreadInv
<1>2. QED
  BY <1>1, ThreadsInv, PTL

-----------------------------------------------------------------------------
(* A want.                                                                 *)

\* An answer that will count, with nothing posted behind it, is for the want.
\* post() moves the want and makes it pending in one locked part, and every
\* other writer of the want overtakes the attempt.
InFlightIsWant == current /\ ~pending => took = {want}

WantInv ==
    /\ SlotTypeOK
    /\ BusyIsServed
    /\ PendingIsBusy
    /\ ReadyIsForWant
    /\ InFlightIsWant

\* A slot nothing was asked of yet keeps all of it.
LEMMA SlotBegins == SlotInit => WantInv
BY SlotAssumption
   DEF SlotInit, WantInv, SlotTypeOK, States, BusyIsServed, PendingIsBusy, ReadyIsForWant, InFlightIsWant

\* Every step of the drawing thread, of the worker and of whoever forgets
\* keeps it.
LEMMA SlotStep == WantInv /\ [SlotNext]_wantVars => WantInv'
<1> SUFFICES ASSUME WantInv, [SlotNext]_wantVars
             PROVE  WantInv'
  OBVIOUS
<1> USE DEF WantInv, SlotTypeOK, States, BusyIsServed, PendingIsBusy, ReadyIsForWant, InFlightIsWant
<1>1. ASSUME NEW a \in Asks, PostLooks(a)
      PROVE  WantInv'
  BY <1>1 DEF PostLooks, slotVars
<1>2. ASSUME NEW a \in Asks, library_mark(a)
      PROVE  WantInv'
  BY <1>2 DEF library_mark, pageVars
<1>10. ASSUME NEW a \in Asks, Restore(a)
      PROVE  WantInv'
  BY <1>10 DEF Restore, pageVars
<1>3. CASE PostWrites
  BY <1>3, SlotAssumption DEF PostWrites
<1>4. CASE WatchLooks
  BY <1>4 DEF WatchLooks, slotVars
<1>5. CASE WatchGivesUp
  BY <1>5 DEF WatchGivesUp
<1>6. CASE Forget
  BY <1>6, SlotAssumption DEF Forget, pageVars
<1>7. CASE Take
  BY <1>7 DEF Take, pageVars
<1>8. ASSUME NEW ok \in BOOLEAN, Done(ok)
      PROVE  WantInv'
  <2>1. PICK a \in Asks : took = {a}
    BY <1>8 DEF Done
  <2>2. CASE current
    <3>1. have' \in {a, have} /\ (ok => have' = a)
      BY <1>8, <2>1, <2>2 DEF Done
    <3>2. SlotTypeOK'
      BY <1>8, <2>2, <3>1 DEF Done, pageVars
    <3>3. state' = "READY" => have' = want
      BY <1>8, <2>1, <2>2, <3>1 DEF Done
    <3> QED
      BY <1>8, <2>2, <3>2, <3>3 DEF Done, pageVars
  <2>3. CASE ~current
    BY <1>8, <2>3 DEF Done, pageVars
  <2> QED
    BY <2>2, <2>3
<1>9. CASE UNCHANGED wantVars
  BY <1>9 DEF wantVars, slotVars, pageVars
<1> QED
  BY <1>1, <1>2, <1>3, <1>4, <1>5, <1>6, <1>7, <1>8, <1>9, <1>10 DEF SlotNext

LEMMA SlotInv == SlotSpec => []WantInv
BY SlotBegins, SlotStep, PTL DEF SlotSpec

\* The slot's fields keep their types, whatever can be asked of it.
THEOREM SlotTypeCorrect == SlotSpec => []SlotTypeOK
BY SlotInv, PTL DEF WantInv

\* catalog.c's loading is never a promise nobody keeps: a busy slot has a
\* request that waits or an answer on its way that counts.
THEOREM SlotBusyIsServed == SlotSpec => []BusyIsServed
BY SlotInv, PTL DEF WantInv

\* A request that waits shows as loading until the worker, the watch or a
\* forgetting has had it.
THEOREM SlotPendingIsBusy == SlotSpec => []PendingIsBusy
BY SlotInv, PTL DEF WantInv

\* catalog.h's promise, of the slot: what is ready answers what was asked
\* for last, for any asks in any order with any answers late.
THEOREM SlotReadyIsForWant == SlotSpec => []ReadyIsForWant
BY SlotInv, PTL DEF WantInv

-----------------------------------------------------------------------------
(* The listing's invariant.                                                *)

\* An answer counts only while the slot shows that it is waited for.
CurrentIsBusy == current => state = "BUSY"

\* Where the rows are whole and of the listing the slot says they are of:
\* once ready, from the last write of a reply until it is done, and from
\* want_items()'s copy until its lock.
RowsArgument ==
    /\ state = "READY" /\ place # "restore" => items = have
    /\ state = "READY" /\ place # "restore" => fetch \in {"idle", "written"}
    /\ fetch = "written" /\ current /\ place # "restore" => items \in took
    /\ place = "restore" => items = wanted /\ fetch \in {"idle", "written"}

\* Between the copy and its label the slot stands still, but for a forget.
StashArgument ==
    /\ place = "stash" => ~pending /\ ~current
    /\ place = "stash" /\ state = "READY" => stash = have
    /\ StashIsLabelled

LInv ==
    /\ LTypeOK
    /\ WantInv
    /\ CurrentIsBusy
    /\ place # "idle" => page = "idle"
    /\ (fetch = "writing") = busy
    /\ crossed \/ (RowsArgument /\ StashArgument)

-----------------------------------------------------------------------------
(* The listing is a slot.                                                  *)

\* The steps of want_items() that take the lock, and those that do not.
LEMMA WantItemsIsSlot ==
  ASSUME LTypeOK,
         \/ \E a \in Asks : RestoreCopies(a) \/ StashCopies(a) \/ Posts(a)
         \/ RestoreWrites \/ StashLabels
  PROVE  [SlotNext]_wantVars
<1>1. ASSUME NEW a \in Asks, RestoreCopies(a) \/ StashCopies(a)
      PROVE  UNCHANGED wantVars
  BY <1>1 DEF RestoreCopies, StashCopies, wantVars
<1>2. ASSUME NEW a \in Asks, Posts(a)
      PROVE  SlotNext
  BY <1>2 DEF Posts, SlotNext
<1>3. wanted \in Asks
  BY DEF LTypeOK
<1>4. CASE RestoreWrites
  BY <1>3, <1>4 DEF RestoreWrites, SlotNext
<1>5. CASE StashLabels
  BY <1>3, <1>5 DEF StashLabels, SlotNext
<1> QED
  BY <1>1, <1>2, <1>4, <1>5

\* Every step of the listing is one of its slot's, or none.
LEMMA ListingStepIsSlot == LTypeOK /\ [LNext]_lvars => [SlotNext]_wantVars
<1> SUFFICES ASSUME LTypeOK, [LNext]_lvars
             PROVE  [SlotNext]_wantVars
  OBVIOUS
<1>1. CASE PageSteps
  BY <1>1 DEF PageSteps, SlotNext
<1>2. CASE library_forget_items \/ Overtaken
  BY <1>2 DEF library_forget_items, Overtaken, SlotNext
<1>3. CASE LibraryWorker
  BY <1>3 DEF LibraryWorker, FetchTakes, FetchBegins, FetchWrites, FetchReturns, FetchAnswers, FetchFails, SlotNext
<1>4. CASE UNCHANGED lvars
  BY <1>4 DEF lvars, wantVars
<1> QED
  BY <1>1, <1>2, <1>3, <1>4, WantItemsIsSlot DEF LNext

LEMMA ListingInit == LInit => LInv
BY SlotBegins, SlotAssumption
   DEF LInit, LInv, LTypeOK, WantInv, Rows, CurrentIsBusy, RowsArgument, StashArgument, StashIsLabelled, SlotInit

\* A busy slot is the only one with an answer on its way that counts.
LEMMA CurrentStaysBusy ==
  ASSUME WantInv, CurrentIsBusy, [SlotNext]_wantVars
  PROVE  CurrentIsBusy'
BY DEF WantInv, PendingIsBusy, CurrentIsBusy, SlotNext, wantVars, slotVars, pageVars, PostLooks, library_mark, Restore,
       PostWrites, WatchLooks, WatchGivesUp, Forget, Take, Done

\* The types and the bookkeeping of who is where.
LEMMA ListingPlaces ==
  ASSUME LInv, LNext
  PROVE  /\ LTypeOK'
         /\ (place # "idle" => page = "idle")'
         /\ ((fetch = "writing") = busy)'
<1> USE DEF LInv, LTypeOK
<1>1. SlotTypeOK'
  BY ListingStepIsSlot, SlotStep DEF WantInv
<1>2. SlotTypeOK
  BY DEF WantInv
<1>3. ASSUME NEW a \in Asks, RestoreCopies(a)
      PROVE  LTypeOK' /\ (place # "idle" => page = "idle")' /\ ((fetch = "writing") = busy)'
  BY <1>1, <1>3, SlotAssumption DEF RestoreCopies, Idle, Rows, wantVars, slotVars, pageVars
<1>4. ASSUME NEW a \in Asks, StashCopies(a)
      PROVE  LTypeOK' /\ (place # "idle" => page = "idle")' /\ ((fetch = "writing") = busy)'
  BY <1>1, <1>4 DEF StashCopies, Idle, Rows, wantVars, slotVars, pageVars
<1>5. ASSUME NEW a \in Asks, Posts(a)
      PROVE  LTypeOK' /\ (place # "idle" => page = "idle")' /\ ((fetch = "writing") = busy)'
  BY <1>1, <1>5 DEF Posts, Idle, PostLooks, listVars, slotVars
<1>6. CASE RestoreWrites
  BY <1>1, <1>6, SlotAssumption DEF RestoreWrites, Restore, listVars, pageVars
<1>7. CASE StashLabels
  BY <1>1, <1>2, <1>7, SlotAssumption DEF StashLabels, PostLooks, SlotTypeOK, wantVars, slotVars, pageVars
<1>8. CASE PageSteps
  BY <1>1, <1>8 DEF PageSteps, Idle, PostWrites, WatchLooks, WatchGivesUp, listVars, slotVars
<1>9. CASE library_forget_items \/ Overtaken
  BY <1>1, <1>9 DEF library_forget_items, Overtaken, Forget, Idle, Rows, pageVars
<1>10. CASE FetchTakes
  BY <1>1, <1>10 DEF FetchTakes, Take, listVars, pageVars
<1>11. CASE FetchBegins \/ FetchWrites \/ FetchReturns
  BY <1>1, <1>2, <1>11 DEF FetchBegins, FetchWrites, FetchReturns, SlotTypeOK, Rows, wantVars, slotVars, pageVars
<1>12. CASE FetchAnswers \/ FetchFails
  BY <1>1, <1>12 DEF FetchAnswers, FetchFails, Done, Rows, pageVars
<1> QED
  BY <1>3, <1>4, <1>5, <1>6, <1>7, <1>8, <1>9, <1>10, <1>11, <1>12 DEF LNext, LibraryWorker

-----------------------------------------------------------------------------
(* What is shown is what was asked for.                                    *)

\* Nothing that want_items() does in its copies, and no reply, puts rows
\* under a label that is not theirs.
LEMMA ListingRows ==
  ASSUME LInv, LNext
  PROVE  crossed' \/ (RowsArgument' /\ StashArgument')
<1> SUFFICES ASSUME ~crossed'
             PROVE  RowsArgument' /\ StashArgument'
  OBVIOUS
<1> USE DEF LInv, LTypeOK, WantInv, PendingIsBusy, CurrentIsBusy, RowsArgument, StashArgument, StashIsLabelled
<1>1. ~crossed
  BY DEF LNext, LibraryWorker, RestoreCopies, StashCopies, Posts, RestoreWrites, StashLabels, PageSteps, library_forget_items,
         Overtaken, FetchTakes, FetchBegins, FetchWrites, FetchReturns, FetchAnswers, FetchFails
<1>2. SlotTypeOK /\ SlotTypeOK'
  BY ListingStepIsSlot, SlotStep
<1>3. ASSUME NEW a \in Asks, RestoreCopies(a)
      PROVE  RowsArgument' /\ StashArgument'
  BY <1>1, <1>3 DEF RestoreCopies, Idle, Here, MayRestore, Unseen, wantVars, slotVars, pageVars
<1>4. ASSUME NEW a \in Asks, StashCopies(a)
      PROVE  RowsArgument' /\ StashArgument'
  BY <1>1, <1>4 DEF StashCopies, Idle, MayStash, wantVars, slotVars, pageVars
<1>5. ASSUME NEW a \in Asks, Posts(a)
      PROVE  RowsArgument' /\ StashArgument'
  BY <1>1, <1>5 DEF Posts, Idle, PostLooks, listVars, slotVars
<1>6. CASE RestoreWrites
  BY <1>1, <1>6 DEF RestoreWrites, Restore, listVars, pageVars
<1>7. CASE StashLabels
  <2>1. state = "READY"
    BY <1>7 DEF StashLabels
  <2>2. stash = have
    BY <1>1, <1>7, <2>1 DEF StashLabels
  <2>3. UNCHANGED slotVars
    BY <1>7 DEF StashLabels, PostLooks, wantVars
  <2> QED
    BY <1>1, <1>7, <2>1, <2>2, <2>3 DEF StashLabels, slotVars
<1>8. CASE PageSteps
  BY <1>1, <1>8 DEF PageSteps, Idle, PostWrites, WatchLooks, WatchGivesUp, listVars, slotVars
<1>9. CASE library_forget_items \/ Overtaken
  BY <1>1, <1>9 DEF library_forget_items, Overtaken, Forget, Idle, pageVars
<1>10. CASE FetchTakes
  BY <1>1, <1>10 DEF FetchTakes, Take, listVars, pageVars
<1>11. CASE FetchBegins \/ FetchWrites \/ FetchReturns
  BY <1>1, <1>2, <1>11 DEF FetchBegins, FetchWrites, FetchReturns, wantVars, slotVars, pageVars
<1>12. CASE FetchAnswers \/ FetchFails
  BY <1>1, <1>2, <1>12 DEF FetchAnswers, FetchFails, Done, SlotTypeOK, pageVars
<1> QED
  BY <1>3, <1>4, <1>5, <1>6, <1>7, <1>8, <1>9, <1>10, <1>11, <1>12 DEF LNext, LibraryWorker

LEMMA ListingStep == LInv /\ [LNext]_lvars => LInv'
<1>1. ASSUME LInv, LNext
      PROVE  LInv'
  <2>1. WantInv' /\ CurrentIsBusy'
    BY <1>1, ListingStepIsSlot, SlotStep, CurrentStaysBusy DEF LInv
  <2> QED
    BY <1>1, <2>1, ListingPlaces, ListingRows DEF LInv
<1>2. ASSUME LInv, UNCHANGED lvars
      PROVE  LInv'
  BY <1>2 DEF LInv, LTypeOK, WantInv, SlotTypeOK, BusyIsServed, PendingIsBusy, ReadyIsForWant, InFlightIsWant, CurrentIsBusy,
     RowsArgument, StashArgument, StashIsLabelled, lvars, listVars, wantVars, slotVars, pageVars
<1> QED
  BY <1>1, <1>2

THEOREM ListingInv == LSpec => []LInv
BY ListingInit, ListingStep, PTL DEF LSpec

\* The listing's slot is a slot: what is shown above of any want holds here.
THEOREM ListingIsSlot == LSpec => SlotSpec
<1>1. LInit => SlotInit
  BY DEF LInit
<1>2. LInv => LTypeOK
  BY DEF LInv
<1> QED
  BY <1>1, <1>2, ListingInv, ListingStepIsSlot, PTL DEF LSpec, SlotSpec

\* The listing keeps its types, whatever listings there are.
THEOREM ListingTypeCorrect == LSpec => []LTypeOK
BY ListingInv, PTL DEF LInv

\* Rows that show are those of the listing asked for, for any listings in any
\* order, with fetches that fail, are given up and write late, as long as
\* want_items() has not found another thread in the middle.
THEOREM ListingRowsAnswer == LSpec => []RowsAnswer
<1>1. LInv => RowsAnswer
  BY DEF LInv, RowsArgument, RowsAnswer, RowsAnswerTheAsk, Shown, Idle
<1> QED
  BY <1>1, ListingInv, PTL

\* The listing put away is brought back under its own name only.
THEOREM ListingStashLabel == LSpec => []StashLabel
<1>1. LInv => StashLabel
  BY DEF LInv, StashArgument, StashLabel
<1> QED
  BY <1>1, ListingInv, PTL

\* What was proved of any slot, of this one.
THEOREM ListingSlotServed == LSpec => []SlotServed
<1>1. LInv => SlotServed
  BY DEF LInv, WantInv, SlotServed
<1> QED
  BY <1>1, ListingInv, PTL

-----------------------------------------------------------------------------
(* The posters' slots and their pack, for any pictures and any number of    *)
(* slots.                                                                  *)

\* The slot in the worker's hands is the one that is RUNNING, and still for the
\* picture it was taken for: neither an ask nor a clear takes it away.
HeldIsRunning ==
    /\ \A s \in Slots : cell[s] = "RUNNING" <=> s \in slot
    /\ \A s \in slot : id[s] = tookId
    /\ stands \notin Holding => slot = {}

\* What was decoded is there when the worker says so.
DecodedIsThere == stands = "put" \/ (stands = "answer" /\ rc = "ok") => \A s \in slot : px[s] = tookId

\* A picture that is not free has a key.
TakenHasKey == \A s \in Slots : cell[s] # "FREE" => id[s] \in Pictures

\* What was fetched before the last press is in the pack or in the worker's
\* hands.
InHand == IF stands \in {"source", "put"} THEN {tookId} ELSE {}
StaleIsHeld == stale \subseteq kept \cup InHand

\* Once a press has been seen to, all of it is gone.
ClearedIsGone == ~flag /\ ~Emptying => stale = {}

\* The slots' part, and the pack's.
SlotsInv == HeldIsRunning /\ DecodedIsThere /\ TakenHasKey /\ ReadyIsItsOwn /\ OneSlotEach
PackInv == StaleIsHeld /\ ClearedIsGone

IInv == PostersTypeOK /\ SlotsInv /\ PackInv

-----------------------------------------------------------------------------

\* Free slots, and whatever an earlier run left in the pack.
LEMMA PostersBegins == PostersInit => IInv
<1> SUFFICES ASSUME PostersInit PROVE IInv
  OBVIOUS
<1>1. PostersTypeOK
  <2>1. age \in [Slots -> 0..KEEP_FRAMES + 1] /\ fails \in 0..MaxFails /\ clears \in 0..MaxClears
    BY PostersAssumption DEF PostersInit
  <2>2. kept \subseteq Pictures
    BY DEF PostersInit, Pack!Init
  <2>3. id \in [Slots -> Pictures \cup {Nobody}] /\ px \in [Slots -> Pictures \cup {Nobody}] /\ cell \in [Slots -> CellStates]
    BY DEF PostersInit, CellStates
  <2> QED
    BY <2>1, <2>2, <2>3 DEF PostersInit, PostersTypeOK, Holding
<1>2. SlotsInv
  BY DEF PostersInit, SlotsInv, HeldIsRunning, DecodedIsThere, TakenHasKey, ReadyIsItsOwn, OneSlotEach
<1>3. PackInv
  BY DEF PostersInit, PackInv, StaleIsHeld, ClearedIsGone
<1> QED
  BY <1>1, <1>2, <1>3 DEF IInv

\* The types need the slots' keys: what the worker takes has one.
LEMMA PostersTypes == IInv /\ [PostersNext]_postersVars => PostersTypeOK'
<1> SUFFICES ASSUME IInv, [PostersNext]_postersVars
             PROVE  PostersTypeOK'
  OBVIOUS
<1> USE PostersAssumption
       DEF IInv, PostersTypeOK, SlotsInv, HeldIsRunning, TakenHasKey, Holding, CellStates, Wanted,
           cellVars, drawVars, workVars, countVars
<1>1. CASE poster_frame
  BY <1>1 DEF poster_frame
<1>2. ASSUME NEW k \in todo, AsksAgain(k)
      PROVE  PostersTypeOK'
  BY <1>2 DEF AsksAgain, Holds
<1>3. ASSUME NEW k \in todo, Claims(k)
      PROVE  PostersTypeOK'
  BY <1>3 DEF Claims, Holds, Claimable, NewerWith
<1>4. ASSUME NEW k \in todo, AsksInVain(k)
      PROVE  PostersTypeOK'
  BY <1>4 DEF AsksInVain
<1>5. CASE CacheClearFlags
  BY <1>5 DEF CacheClearFlags
<1>6. CASE CacheClearEnds
  BY <1>6 DEF CacheClearEnds, Cleared, Freed, NewerWith, Setting
<1>7. CASE posters_clear
  BY <1>7 DEF posters_clear, Cleared, Freed, NewerWith, Setting
<1>8. CASE CacheClearBegins
  BY <1>8 DEF CacheClearBegins, Cleared, Freed, NewerWith, Setting
<1>9. CASE StopBegins
  BY <1>9 DEF StopBegins
<1>10. CASE StopEnds
  BY <1>10 DEF StopEnds
<1>11. CASE Loops
  BY <1>11 DEF Loops
<1>12. CASE Empties
  BY <1>12 DEF Empties, Emptying
<1>13. CASE Takes
  BY <1>13 DEF Takes, next_want, NewerWith
<1>14. CASE Idles
  BY <1>14 DEF Idles
<1>15. CASE GetsIt
  BY <1>15 DEF GetsIt, Setting
<1>16. CASE GetsNone
  BY <1>16 DEF GetsNone
<1>17. CASE SourceGives
  BY <1>17 DEF SourceGives, Setting
<1>18. CASE SourceHasNone
  BY <1>18 DEF SourceHasNone
<1>19. CASE SourceFails
  BY <1>19 DEF SourceFails
<1>20. CASE Puts
  BY <1>20 DEF Puts, Pack!Keep
<1>21. CASE Answers
  BY <1>21 DEF Answers, Freed, NewerWith, Setting
<1>22. CASE UNCHANGED postersVars
  BY <1>22 DEF postersVars
<1> QED
  BY <1>1, <1>2, <1>3, <1>4, <1>5, <1>6, <1>7, <1>8, <1>9, <1>10, <1>11, <1>12,
     <1>13, <1>14, <1>15, <1>16, <1>17, <1>18, <1>19, <1>20, <1>21, <1>22
  DEF PostersNext, Frame, Clears, PosterWorker

\* One of the wanted slots becomes the worker's, and nothing else changes.
LEMMA TakesKeepsSlots ==
  ASSUME PostersTypeOK, SlotsInv, Takes
  PROVE  SlotsInv'
<1>1. PICK s \in Slots : /\ slot' = {s} /\ tookId' = id[s]
                        /\ cell' = [cell EXCEPT ![s] = "RUNNING"]
                        /\ cell[s] = "WANTED"
  BY DEF Takes, next_want, Wanted
<1>2. stands' = "get" /\ stands = "want" /\ UNCHANGED <<id, px, rc>>
  BY DEF Takes
<1>3. slot = {}
  BY <1>2 DEF SlotsInv, HeldIsRunning, Holding
<1>4. cell \in [Slots -> CellStates]
  BY DEF PostersTypeOK
<1>5. \A r \in Slots : r # s => cell'[r] = cell[r]
  BY <1>1, <1>4
<1>6. cell'[s] = "RUNNING"
  BY <1>1, <1>4
<1>7. HeldIsRunning'
  BY <1>1, <1>2, <1>3, <1>5, <1>6 DEF SlotsInv, HeldIsRunning, Holding
<1>8. DecodedIsThere'
  BY <1>2 DEF DecodedIsThere
<1>9. TakenHasKey'
  BY <1>1, <1>2, <1>5 DEF SlotsInv, TakenHasKey
<1>10. ReadyIsItsOwn'
  BY <1>2, <1>5, <1>6 DEF SlotsInv, ReadyIsItsOwn
<1>11. OneSlotEach'
  BY <1>1, <1>2, <1>5 DEF SlotsInv, OneSlotEach
<1> QED
  BY <1>7, <1>8, <1>9, <1>10, <1>11 DEF SlotsInv

\* A step that leaves the slots alone, and after which nothing more is said to
\* have been decoded.
LEMMA KeepsSlots ==
  ASSUME SlotsInv, UNCHANGED <<id, cell, px, slot, tookId>>,
         stands' \in Holding <=> stands \in Holding,
         UNCHANGED <<stands, rc>> \/ (stands' # "put" /\ (stands' = "answer" => rc' # "ok"))
  PROVE  SlotsInv'
<1>1. HeldIsRunning'
  BY DEF SlotsInv, HeldIsRunning
<1>2. DecodedIsThere'
  BY DEF SlotsInv, DecodedIsThere
<1>3. TakenHasKey' /\ ReadyIsItsOwn' /\ OneSlotEach'
  BY DEF SlotsInv, TakenHasKey, ReadyIsItsOwn, OneSlotEach
<1> QED
  BY <1>1, <1>2, <1>3 DEF SlotsInv

\* No step of the drawing thread touches the slot in the worker's hands.
LEMMA PostersSlots == IInv /\ [PostersNext]_postersVars => SlotsInv'
<1> SUFFICES ASSUME IInv, [PostersNext]_postersVars
             PROVE  SlotsInv'
  OBVIOUS
<1>1. CASE poster_frame
  BY <1>1, KeepsSlots DEF IInv, Holding, poster_frame, cellVars, drawVars, workVars
<1>2. ASSUME NEW k \in todo, AsksAgain(k)
      PROVE  SlotsInv'
  BY <1>2, KeepsSlots DEF IInv, Holding, AsksAgain, cellVars, drawVars, workVars
<1>4. ASSUME NEW k \in todo, AsksInVain(k)
      PROVE  SlotsInv'
  BY <1>4, KeepsSlots DEF IInv, Holding, AsksInVain, cellVars, drawVars, workVars
<1>5. CASE CacheClearFlags
  BY <1>5, KeepsSlots DEF IInv, Holding, CacheClearFlags, cellVars, drawVars, workVars
<1>9. CASE StopBegins
  BY <1>9, KeepsSlots DEF IInv, Holding, StopBegins, cellVars, drawVars, workVars
<1>10. CASE StopEnds
  BY <1>10, KeepsSlots DEF IInv, Holding, StopEnds, cellVars, drawVars, workVars
<1>11. CASE Loops
  BY <1>11, KeepsSlots DEF IInv, Holding, Loops, cellVars, drawVars, workVars
<1>12. CASE Empties
  BY <1>12, KeepsSlots DEF IInv, Holding, Empties, Emptying, cellVars, drawVars, workVars
<1>14. CASE Idles
  BY <1>14, KeepsSlots DEF IInv, Holding, Idles, cellVars, drawVars, workVars
<1>16. CASE GetsNone
  BY <1>16, KeepsSlots DEF IInv, Holding, GetsNone, cellVars, drawVars, workVars
<1>18. CASE SourceHasNone
  BY <1>18, KeepsSlots DEF IInv, Holding, SourceHasNone, cellVars, drawVars, workVars
<1>19. CASE SourceFails
  BY <1>19, KeepsSlots DEF IInv, Holding, SourceFails, cellVars, drawVars, workVars
<1>22. CASE UNCHANGED postersVars
  BY <1>22, KeepsSlots DEF IInv, Holding, postersVars, cellVars, drawVars, workVars
<1>13. CASE Takes
  BY <1>13, TakesKeepsSlots DEF IInv
<1> USE DEF IInv, PostersTypeOK, SlotsInv, HeldIsRunning, DecodedIsThere, TakenHasKey, ReadyIsItsOwn, OneSlotEach,
           Holding, CellStates, Wanted, cellVars, drawVars, workVars, countVars
<1>3. ASSUME NEW k \in todo, Claims(k)
      PROVE  SlotsInv'
  BY <1>3 DEF Claims, Holds, Claimable, NewerWith
<1>6. CASE CacheClearEnds
  BY <1>6 DEF CacheClearEnds, Cleared, Freed, NewerWith, Setting
<1>7. CASE posters_clear
  BY <1>7 DEF posters_clear, Cleared, Freed, NewerWith, Setting
<1>8. CASE CacheClearBegins
  BY <1>8 DEF CacheClearBegins, Cleared, Freed, NewerWith, Setting
<1>15. CASE GetsIt
  BY <1>15 DEF GetsIt, Setting
<1>17. CASE SourceGives
  BY <1>17 DEF SourceGives, Setting
<1>20. CASE Puts
  BY <1>20 DEF Puts, Pack!Keep
<1>21. CASE Answers
  BY <1>21 DEF Answers, Freed, NewerWith, Setting
<1> QED
  BY <1>1, <1>2, <1>3, <1>4, <1>5, <1>6, <1>7, <1>8, <1>9, <1>10, <1>11, <1>12,
     <1>13, <1>14, <1>15, <1>16, <1>17, <1>18, <1>19, <1>20, <1>21, <1>22
  DEF PostersNext, Frame, Clears, PosterWorker

\* Nothing comes to the pack but out of the worker's hands.
LEMMA PostersPack == IInv /\ [PostersNext]_postersVars => PackInv'
<1> SUFFICES ASSUME IInv, [PostersNext]_postersVars
             PROVE  PackInv'
  OBVIOUS
<1> USE DEF IInv, PostersTypeOK, PackInv, StaleIsHeld, ClearedIsGone, InHand, Emptying, Holding,
           cellVars, drawVars, workVars, countVars
<1>1. CASE poster_frame
  BY <1>1 DEF poster_frame
<1>2. ASSUME NEW k \in todo, AsksAgain(k)
      PROVE  PackInv'
  BY <1>2 DEF AsksAgain, Holds
<1>3. ASSUME NEW k \in todo, Claims(k)
      PROVE  PackInv'
  BY <1>3 DEF Claims, Holds, Claimable, NewerWith
<1>4. ASSUME NEW k \in todo, AsksInVain(k)
      PROVE  PackInv'
  BY <1>4 DEF AsksInVain
<1>5. CASE CacheClearFlags
  BY <1>5 DEF CacheClearFlags
<1>6. CASE CacheClearEnds
  BY <1>6 DEF CacheClearEnds, Cleared, Freed, NewerWith, Setting
<1>7. CASE posters_clear
  BY <1>7 DEF posters_clear, Cleared, Freed, NewerWith, Setting
<1>8. CASE CacheClearBegins
  BY <1>8 DEF CacheClearBegins, Cleared, Freed, NewerWith, Setting
<1>9. CASE StopBegins
  BY <1>9 DEF StopBegins
<1>10. CASE StopEnds
  BY <1>10 DEF StopEnds
<1>11. CASE Loops
  BY <1>11 DEF Loops
<1>12. CASE Empties
  BY <1>12 DEF Empties, Emptying
<1>13. CASE Takes
  BY <1>13 DEF Takes, next_want, NewerWith
<1>14. CASE Idles
  BY <1>14 DEF Idles
<1>15. CASE GetsIt
  BY <1>15 DEF GetsIt, Setting
<1>16. CASE GetsNone
  BY <1>16 DEF GetsNone
<1>17. CASE SourceGives
  BY <1>17 DEF SourceGives, Setting
<1>18. CASE SourceHasNone
  BY <1>18 DEF SourceHasNone
<1>19. CASE SourceFails
  BY <1>19 DEF SourceFails
<1>20. CASE Puts
  BY <1>20 DEF Puts, Pack!Keep
<1>21. CASE Answers
  BY <1>21 DEF Answers, Freed, NewerWith, Setting
<1>22. CASE UNCHANGED postersVars
  BY <1>22 DEF postersVars
<1> QED
  BY <1>1, <1>2, <1>3, <1>4, <1>5, <1>6, <1>7, <1>8, <1>9, <1>10, <1>11, <1>12,
     <1>13, <1>14, <1>15, <1>16, <1>17, <1>18, <1>19, <1>20, <1>21, <1>22
  DEF PostersNext, Frame, Clears, PosterWorker

\* Together: what the theorems below take their part of.
LEMMA PostersInv == PostersSpec => []IInv
<1>1. IInv /\ [PostersNext]_postersVars => IInv'
  BY PostersTypes, PostersSlots, PostersPack DEF IInv
<1> QED
  BY PostersBegins, <1>1, PTL DEF PostersSpec

\* The store is well typed for any pictures, any slots and any KEEP_FRAMES.
THEOREM PostersTypeCorrect == PostersSpec => []PostersTypeOK
<1>1. IInv => PostersTypeOK
  BY DEF IInv
<1> QED
  BY PostersInv, <1>1, PTL

\* What is drawn is what was asked for (poster_get, worker, posters_clear).
THEOREM PostersReadyIsItsOwn == PostersSpec => []ReadyIsItsOwn
<1>1. IInv => ReadyIsItsOwn
  BY DEF IInv, SlotsInv
<1> QED
  BY PostersInv, <1>1, PTL

\* No picture has two slots (find, claim).
THEOREM PostersOneSlotEach == PostersSpec => []OneSlotEach
<1>1. IInv => OneSlotEach
  BY DEF IInv, SlotsInv
<1> QED
  BY PostersInv, <1>1, PTL

\* A press on the cache's row that has been seen to leaves nothing older in the
\* pack (posters_cache_clear, the top of worker).
THEOREM PostersPackIsFresh == PostersSpec => []PackIsFresh
<1>1. IInv => PackIsFresh
  BY DEF IInv, PackInv, ClearedIsGone, PackIsFresh
<1> QED
  BY PostersInv, <1>1, PTL

=============================================================================
