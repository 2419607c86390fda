------------------------------ MODULE Listing ------------------------------
(***************************************************************************)
(* The listing of model/catalog.c: the want W_ITEMS with its rows          *)
(* (g_items), which the worker writes straight into, and the listing       *)
(* before it (g_stash), which want_items() brings back without asking.     *)
(*                                                                         *)
(* Rows are the ask they answer. The pages' thread runs want_items() with  *)
(* no lock but for its last part, the worker fetches with none at all, and *)
(* a mark that has landed or a stop the server has been told of forgets    *)
(* the want from a thread of its own.                                      *)
(***************************************************************************)
EXTENDS Slot

VARIABLES
    items,      \* g_items and g_items_n: what the rows answer, Torn while
                \* they are being written, None when there are none
    old,        \* the rows were read before something overtook them
    busy,       \* g_items_busy
    stash,      \* g_stash and g_stash_n: what its rows answer, or None
    stashAsk,   \* g_stash_ask
    stashOld,
    place,      \* want_items(): "idle", or which copy it is in or past
    wanted,     \* its ask
    fetch,      \* the worker: "idle", "taken", "writing", "written", "failed"
    crossed     \* history: want_items() and another thread have crossed

listVars == <<items, old, busy, stash, stashAsk, stashOld>>
lvars == <<wantVars, listVars, place, wanted, fetch, crossed>>

None == "none"
Torn == "torn"
Rows == Asks \cup {None, Torn}

LTypeOK ==
    /\ SlotTypeOK
    /\ items \in Rows /\ stash \in Rows
    /\ stashAsk \in Asks
    /\ {old, stashOld, busy, crossed} \subseteq BOOLEAN
    /\ place \in {"idle", "restore", "stash"}
    /\ wanted \in Asks
    /\ fetch \in {"idle", "taken", "writing", "written", "failed"}
    /\ (fetch = "idle") = (took = {})

LInit ==
    /\ SlotInit
    /\ items = None /\ old = FALSE
    /\ busy = FALSE
    /\ stash = None /\ stashAsk = Zeroed /\ stashOld = FALSE
    /\ place = "idle" /\ wanted = Zeroed
    /\ fetch = "idle"
    /\ crossed = FALSE

-----------------------------------------------------------------------------
(* want_items(), a page at a time.                                         *)

Idle == page = "idle" /\ place = "idle"

\* It is here: nothing to do.
Here(a) == state = "READY" /\ have = a

\* A fetch that g_items_busy does not show and that will yet write the rows.
Unseen == fetch \in {"taken", "failed"}

\* A slip: a fetch that was given up on may still be writing.
MayRestore_Busy(a) == stash # None /\ stashAsk = a

MayRestore(a) == ~busy /\ stash # None /\ stashAsk = a

\* The rows before these come back: the copy, without the lock.
RestoreCopies(a) ==
    /\ Idle
    /\ ~Here(a)
    /\ MayRestore(a)
    /\ items' = stash
    /\ old' = stashOld
    /\ stash' = None
    /\ wanted' = a
    /\ place' = "restore"
    /\ crossed' = (crossed \/ Unseen)
    /\ UNCHANGED <<wantVars, busy, stashAsk, stashOld, fetch>>

\* The locked part: whatever was asked or is in flight is overtaken.
RestoreWrites ==
    /\ place = "restore"
    /\ Restore(wanted)
    /\ wanted' = Zeroed
    /\ place' = "idle"
    /\ UNCHANGED <<listVars, fetch, crossed>>

\* The rows that the reply will be written over are put away first.
MayStash == ~busy /\ state = "READY" /\ items # None

StashCopies(a) ==
    /\ Idle
    /\ ~Here(a)
    /\ ~MayRestore(a)
    /\ MayStash
    /\ stash' = items
    /\ stashOld' = old
    /\ wanted' = a
    /\ place' = "stash"
    /\ UNCHANGED <<wantVars, items, old, busy, stashAsk, fetch, crossed>>

\* A slip: the label is the want's, which need not be what the rows are of.
StashLabels_Want ==
    /\ place = "stash"
    /\ stashAsk' = wanted
    /\ place' = "idle"
    /\ wanted' = Zeroed
    /\ PostLooks(wanted) \/ (Settled(wanted) /\ UNCHANGED wantVars)
    /\ crossed' = (crossed \/ state # "READY")
    /\ UNCHANGED <<items, old, busy, stash, stashOld, fetch>>

\* The stash is labelled, and post() looks at the slot.
StashLabels ==
    /\ place = "stash"
    /\ stashAsk' = have
    /\ place' = "idle"
    /\ wanted' = Zeroed
    /\ PostLooks(wanted) \/ (Settled(wanted) /\ UNCHANGED wantVars)
    /\ crossed' = (crossed \/ state # "READY")
    /\ UNCHANGED <<items, old, busy, stash, stashOld, fetch>>

\* Neither: post() looks at the slot.
Posts(a) ==
    /\ Idle
    /\ ~Here(a)
    /\ ~MayRestore(a)
    /\ ~MayStash
    /\ PostLooks(a)
    /\ UNCHANGED <<listVars, place, wanted, fetch, crossed>>

\* post()'s locked part, and watch(), as in Slot.
PageSteps ==
    /\ PostWrites \/ (Idle /\ WatchLooks) \/ WatchGivesUp
    /\ UNCHANGED <<listVars, place, wanted, fetch, crossed>>

\* library_forget_items(): a Reload, or a link that is back.
library_forget_items ==
    /\ Idle
    /\ Forget
    /\ old' = TRUE
    /\ stash' = None
    /\ UNCHANGED <<items, busy, stashAsk, stashOld, place, wanted, fetch, crossed>>

\* forget() from the thread of the reports or of the library: what the rows
\* say of an item has changed at the server.
Overtaken ==
    /\ Forget
    /\ old' = TRUE
    /\ stashOld' = TRUE
    /\ UNCHANGED <<items, busy, stash, stashAsk, place, wanted, fetch, crossed>>

-----------------------------------------------------------------------------
(* The worker.                                                             *)

FetchTakes ==
    /\ Take
    /\ fetch' = "taken"
    /\ crossed' = (crossed \/ place # "idle")
    /\ UNCHANGED <<listVars, place, wanted>>

\* g_items_busy rises ...
FetchBegins ==
    /\ fetch = "taken"
    /\ busy' = TRUE
    /\ fetch' = "writing"
    /\ UNCHANGED <<wantVars, items, old, stash, stashAsk, stashOld, place, wanted, crossed>>

\* ... jf_items() writes rows over those that are there ...
FetchWrites ==
    /\ fetch = "writing"
    /\ items' = Torn
    /\ UNCHANGED <<wantVars, old, busy, stash, stashAsk, stashOld, place, wanted, fetch, crossed>>

\* ... and g_items_busy falls, with the reply all there or not.
FetchReturns ==
    /\ fetch = "writing"
    /\ \/ items' \in took /\ fetch' = "written"
       \/ UNCHANGED items /\ fetch' = "failed"
    /\ busy' = FALSE
    /\ UNCHANGED <<wantVars, old, stash, stashAsk, stashOld, place, wanted, crossed>>

\* done() of a reply.
FetchAnswers ==
    /\ fetch = "written"
    /\ Done(TRUE)
    /\ old' = IF current THEN FALSE ELSE old
    /\ fetch' = "idle"
    /\ UNCHANGED <<items, busy, stash, stashAsk, stashOld, place, wanted, crossed>>

\* A fetch that failed leaves no rows, then done().
FetchFails ==
    /\ fetch = "failed"
    /\ items' = None
    /\ Done(FALSE)
    /\ fetch' = "idle"
    /\ UNCHANGED <<old, busy, stash, stashAsk, stashOld, place, wanted, crossed>>

LibraryWorker ==
    \/ FetchTakes \/ FetchBegins \/ FetchWrites \/ FetchReturns
    \/ FetchAnswers \/ FetchFails

-----------------------------------------------------------------------------

LNext ==
    \/ \E a \in Asks : RestoreCopies(a) \/ StashCopies(a) \/ Posts(a)
    \/ RestoreWrites \/ StashLabels
    \/ PageSteps
    \/ library_forget_items \/ Overtaken
    \/ LibraryWorker

LSpec == LInit /\ [][LNext]_lvars

-----------------------------------------------------------------------------
(* Properties.                                                             *)

\* What library_items() hands out to the page that asks for `have`.
Shown == Idle /\ state = "READY"

\* catalog.h: rows are "NULL unless they answer this exact ask". None may
\* show where a fetch of nothing failed, and never another listing's.
RowsAnswerTheAsk == Shown => items = have

\* The same, as long as want_items() found no other thread in the middle.
RowsAnswer == ~crossed => RowsAnswerTheAsk

\* The stash is brought back for the listing its rows are of.
StashIsLabelled == place # "stash" /\ stash # None => stash = stashAsk

\* The same, as long as want_items() found no other thread in the middle.
StashLabel == ~crossed => StashIsLabelled

\* What is asked of the slot alone still holds of it here.
SlotServed == BusyIsServed /\ PendingIsBusy /\ ReadyIsForWant

\* Rows that are shown were read after the last mark that landed and the last
\* stop the server was told of: forget() drops what those have overtaken.
RowsAreFresh == Shown => ~old

=============================================================================
