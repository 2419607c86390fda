----------------------------- MODULE MCLibrary -----------------------------
(***************************************************************************)
(* What the pages draw from, each part by itself and side by side: the     *)
(* worker threads (Worker), one want of the library (Slot) and the listing *)
(* over such a want (Listing). No step of one moves another, so a          *)
(* behaviour is of one of them, which `part` names, and the rest stands    *)
(* still.                                                                  *)
(***************************************************************************)
EXTENDS Worker, Listing

VARIABLE part

libraryVars == <<part, threadVars, lvars>>

\* A want of its own has no rows: nothing is said of any, as after a crossing.
WantInit ==
    /\ SlotInit
    /\ items = None /\ old = FALSE /\ busy = FALSE
    /\ stash = None /\ stashAsk = Zeroed /\ stashOld = FALSE
    /\ place = "idle" /\ wanted = Zeroed /\ fetch = "idle"
    /\ crossed = TRUE

LibraryInit ==
    /\ part \in {"worker", "want", "listing"}
    /\ WorkerInit
    /\ IF part = "want" THEN WantInit ELSE LInit

\* One part moves.
WorkerMoves(step)  == part = "worker" /\ step /\ UNCHANGED <<part, lvars>>
WantMoves(step) ==
    /\ part = "want" /\ step
    /\ UNCHANGED <<part, threadVars, listVars, place, wanted, fetch, crossed>>
ListingMoves(step) == part = "listing" /\ step /\ UNCHANGED <<part, threadVars>>

LibraryNext == WorkerMoves(WorkerNext) \/ WantMoves(SlotNext) \/ ListingMoves(LNext)

\* The fairness of WorkerFairSpec and SlotFairSpec.
LibrarySpec ==
    /\ LibraryInit /\ [][LibraryNext]_libraryVars
    /\ WF_libraryVars(WorkerMoves(PollQuiet))
    /\ WF_libraryVars(WorkerMoves(PollStop))
    /\ WF_libraryVars(WorkerMoves(StartRefused \/ \E t \in Threads : StartCreates(t)))
    /\ \A t \in Threads : WF_libraryVars(WorkerMoves(ThreadStep(t)))
    /\ WF_libraryVars(WantMoves(PostWrites))
    /\ WF_libraryVars(WantMoves(WatchGivesUp))
    /\ SF_libraryVars(WantMoves(WatchLooks))

\* "Unbounded, one wedged fetch left every later mark refused for the rest of
\* the run": a want's slot does not stay busy (Slot's BusyEnds), whether or
\* not the library's worker comes back.
WantEnds == part = "want" /\ state = "BUSY" ~> state # "BUSY"

=============================================================================
