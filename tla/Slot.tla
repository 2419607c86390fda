-------------------------------- MODULE Slot --------------------------------
(***************************************************************************)
(* One want of model/catalog.c: what the pages ask for every frame, the    *)
(* library's worker that fetches it, the watch that gives a fetch up, and  *)
(* the forgetting, from whichever thread, of what has been overtaken.      *)
(*                                                                         *)
(* The slot's `attempt` is only ever compared with the one the fetch in    *)
(* flight noted when it began, so the model keeps the comparison alone:    *)
(* `current` falls whenever attempt moves. Time is left out: a retry may   *)
(* or may not be due, and a busy slot may or may not be past its bound.    *)
(***************************************************************************)
EXTENDS Naturals

CONSTANTS
    Asks,       \* what can be asked of the slot
    Zeroed      \* the ask that is all zeroes

ASSUME SlotAssumption == Zeroed \in Asks

VARIABLES
    state,      \* slot.state
    pending,    \* slot.pending
    want,       \* slot.want
    have,       \* slot.have
    took,       \* the ask the worker is fetching, in a set
    current,    \* its `mine` is still the slot's attempt
    page,       \* the drawing thread: "idle", "post" or "watch" between the
                \* look at the slot and the lock
    asking      \* post()'s ask

slotVars == <<state, pending, want, have, took, current>>
pageVars == <<page, asking>>
wantVars == <<slotVars, pageVars>>

States == {"IDLE", "BUSY", "READY", "FAILED"}

SlotTypeOK ==
    /\ state \in States
    /\ pending \in BOOLEAN
    /\ want \in Asks /\ have \in Asks /\ asking \in Asks
    /\ \A a \in took : took = {a} /\ a \in Asks
    /\ current \in BOOLEAN
    /\ current => took # {}
    /\ page \in {"idle", "post", "watch"}

SlotInit ==
    /\ state = "IDLE" /\ pending = FALSE
    /\ want = Zeroed /\ have = Zeroed
    /\ took = {} /\ current = FALSE
    /\ page = "idle" /\ asking = Zeroed

-----------------------------------------------------------------------------
(* The drawing thread.                                                     *)

\* Nothing to post: it is being fetched, or it is here. One that failed is
\* left alone until its retry is due, which may be at any time.
Settled(a) ==
    /\ want = a
    /\ state = "BUSY" \/ (state = "READY" /\ have = a)

\* post()'s look at the slot, without the lock.
PostLooks(a) ==
    /\ page = "idle"
    /\ ~Settled(a)
    /\ asking' = a
    /\ page' = "post"
    /\ UNCHANGED slotVars

\* post()'s locked part.
PostWrites ==
    /\ page = "post"
    /\ want' = asking
    /\ pending' = TRUE
    /\ state' = "BUSY"
    /\ page' = "idle"
    /\ asking' = Zeroed
    /\ UNCHANGED <<have, took, current>>

\* library_mark(): a mark in flight refuses another, and the same mark twice is
\* two presses, so what the slot was left at is put aside first. With no
\* connection it goes no further.
library_mark(a) ==
    /\ page = "idle"
    /\ state # "BUSY"
    /\ state' = "IDLE"
    /\ \/ asking' = a /\ page' = "post"
       \/ UNCHANGED pageVars
    /\ UNCHANGED <<pending, want, have, took, current>>

\* want_items() brings the listing before back: what was asked or is in
\* flight is overtaken, and it is here at once. No other want does so.
Restore(a) ==
    /\ page = "idle"
    /\ current' = FALSE
    /\ pending' = FALSE
    /\ want' = a
    /\ have' = a
    /\ state' = "READY"
    /\ UNCHANGED <<took, pageVars>>

\* A slip: only a fetch the worker has taken is timed.
WatchLooks_TakenOnly ==
    /\ page = "idle"
    /\ state = "BUSY"
    /\ ~pending
    /\ page' = "watch"
    /\ UNCHANGED <<slotVars, asking>>

\* watch()'s look at the slot, without the lock.
WatchLooks ==
    /\ page = "idle"
    /\ state = "BUSY"
    /\ page' = "watch"
    /\ UNCHANGED <<slotVars, asking>>

\* A slip: what was posted and not yet taken is left to the worker.
WatchGivesUp_KeepPending ==
    /\ page = "watch"
    /\ current' = FALSE
    /\ state' = "FAILED"
    /\ page' = "idle"
    /\ UNCHANGED <<pending, want, have, took, asking>>

\* watch()'s locked part: the request is given up, whatever became of it
\* since the look.
WatchGivesUp ==
    /\ page = "watch"
    /\ current' = FALSE
    /\ pending' = FALSE
    /\ state' = "FAILED"
    /\ page' = "idle"
    /\ UNCHANGED <<want, have, took, asking>>

\* A slip: the request is forgotten and the slot stays busy with it.
Forget_StayBusy ==
    /\ current' = FALSE
    /\ pending' = FALSE
    /\ have' = Zeroed
    /\ UNCHANGED <<state, want, took, pageVars>>

\* forget(), on any thread: a Reload, a link that is back, a mark that has
\* landed, a stop the server has been told of.
Forget ==
    /\ current' = FALSE
    /\ pending' = FALSE
    /\ state' = "IDLE"
    /\ have' = Zeroed
    /\ UNCHANGED <<want, took, pageVars>>

-----------------------------------------------------------------------------
(* The worker.                                                             *)

\* serve()'s locked part, of a slot with something pending.
Take ==
    /\ took = {}
    /\ pending
    /\ took' = {want}
    /\ current' = TRUE
    /\ pending' = FALSE
    /\ UNCHANGED <<state, want, have, pageVars>>

\* A slip: what was posted during the fetch is not looked at.
Done_Deaf(ok) ==
    /\ took # {}
    /\ IF current
          THEN /\ have' \in IF ok THEN took ELSE {have}
               /\ state' = IF ok THEN "READY" ELSE "FAILED"
          ELSE UNCHANGED <<have, state>>
    /\ took' = {}
    /\ current' = FALSE
    /\ UNCHANGED <<pending, want, pageVars>>

\* done(): an answer nobody waits for any more drops itself, and a slot that
\* was posted to meanwhile stays busy.
Done(ok) ==
    /\ took # {}
    /\ IF current
          THEN /\ have' \in IF ok THEN took ELSE {have}
               /\ state' = IF pending THEN "BUSY" ELSE IF ok THEN "READY" ELSE "FAILED"
          ELSE UNCHANGED <<have, state>>
    /\ took' = {}
    /\ current' = FALSE
    /\ UNCHANGED <<pending, want, pageVars>>

-----------------------------------------------------------------------------

SlotNext ==
    \/ \E a \in Asks : PostLooks(a)
    \/ \E a \in Asks : library_mark(a)
    \/ \E a \in Asks : Restore(a)
    \/ PostWrites
    \/ WatchLooks
    \/ WatchGivesUp
    \/ Forget
    \/ Take
    \/ \E ok \in BOOLEAN : Done(ok)

SlotSpec == SlotInit /\ [][SlotNext]_wantVars

\* The drawing thread draws, and asks for no new thing for ever, so a busy
\* slot's bound passes. Nothing is assumed of the worker: its fetch may hang.
SlotFairSpec == SlotSpec /\ WF_wantVars(PostWrites) /\ WF_wantVars(WatchGivesUp) /\ SF_wantVars(WatchLooks)

-----------------------------------------------------------------------------
(* Properties.                                                             *)

\* A busy slot has a request behind it: one that waits for the worker, or one
\* in flight whose answer will count. Nothing is "loading" with nobody at it.
BusyIsServed == state = "BUSY" => pending \/ current

\* A request that waits shows as loading, so its page does not take an older
\* answer for it.
PendingIsBusy == pending => state = "BUSY"

\* The header: rows are "NULL unless they answer this exact ask". What is
\* ready is what was asked for last, whatever was asked, given up and
\* forgotten while older answers were on their way.
ReadyIsForWant == state = "READY" => have = want

\* "Unbounded, one wedged fetch left every later mark refused for the rest of
\* the run": a slot does not stay busy, whether or not the worker comes back.
BusyEnds == state = "BUSY" ~> state # "BUSY"

=============================================================================
