------------------------------ MODULE Posters ------------------------------
(***************************************************************************)
(* The posters' store, model/posters.c: slots of one size class, the       *)
(* drawing thread that asks for each picture it draws in every frame, and  *)
(* the worker that takes what is wanted from the pack or from the server.  *)
(*                                                                         *)
(* A key is an id with a size. How old an ask is counts up to one more     *)
(* than KEEP_FRAMES, beyond which nothing is told apart; which want is     *)
(* newest is a relation of the slots that are newer, instead of a number.  *)
(* What a free slot was last for is never looked at again, and is blank    *)
(* here. What the pack keeps is Cache, which Pack implements. The shutdown *)
(* comes once, as in app.c, and ends the drawing.                          *)
(***************************************************************************)
EXTENDS Naturals, FiniteSets

CONSTANTS
    Pictures,   \* the keys
    Nobody,     \* no key
    Slots,      \* the slots of the class
    KEEP_FRAMES,
    MaxFails,   \* how often the server is out of reach
    MaxClears   \* how often the viewer clears

ASSUME PostersAssumption ==
    /\ Nobody \notin Pictures
    /\ KEEP_FRAMES \in Nat
    /\ MaxFails \in Nat /\ MaxClears \in Nat

VARIABLES
    \* The slots, each under the lock but for `px`.
    id, cell,   \* slot.id with its size, slot.state
    age,        \* g_frame - slot.asked
    newer,      \* the pairs of WANTED slots whose first has the higher seq
    px,         \* whose picture the pixels are of, Nobody's when of none
    \* The drawing thread.
    panel,      \* the pictures the page in front draws
    todo,       \* those it has not asked for in this frame yet
    draws,      \* where it stands
    \* The worker.
    stands,     \* where it stands
    slot, tookId, \* the slot it took, in a set, and the id it copied out of it
    rc,         \* how it went: "none", "again" or "ok"
    run,        \* g_run
    flag,       \* g_clear_pack
    \* The pack.
    kept,
    \* History, and bounds.
    stale,      \* the pictures in the pack, and the one in the worker's hands,
                \* that were taken from the server before the last clear
    fails, clears

cellVars == <<id, cell, age, newer, px>>
drawVars == <<panel, todo, draws>>
workVars == <<stands, slot, tookId, rc>>
countVars == <<fails, clears>>
postersVars == <<cellVars, drawVars, workVars, run, flag, kept, stale, countVars>>

Emptying == stands = "clearing"
Pack == INSTANCE Cache WITH asked <- flag \/ Emptying

Wanted == {s \in Slots : cell[s] = "WANTED"}

CellStates == {"FREE", "WANTED", "RUNNING", "READY", "NONE"}

\* Where the worker holds a slot.
Holding == {"get", "source", "put", "answer"}

PostersTypeOK ==
    /\ id \in [Slots -> Pictures \cup {Nobody}]
    /\ cell \in [Slots -> CellStates]
    /\ age \in [Slots -> 0..KEEP_FRAMES + 1]
    /\ newer \subseteq Wanted \X Wanted
    /\ px \in [Slots -> Pictures \cup {Nobody}]
    /\ panel \subseteq Pictures /\ todo \subseteq panel
    /\ draws \in {"frame", "flag", "again", "stopping", "stopped"}
    /\ stands \in {"loop", "clearing", "want", "left"} \cup Holding
    /\ tookId \in Pictures \cup {Nobody}
    /\ slot \subseteq Slots
    /\ stands \in Holding => tookId # Nobody
    /\ rc \in {"ok", "none", "again"}
    /\ run \in BOOLEAN /\ flag \in BOOLEAN
    /\ kept \subseteq Pictures /\ stale \subseteq Pictures
    /\ fails \in 0..MaxFails /\ clears \in 0..MaxClears

\* posters_start(), with what earlier runs left on the card.
PostersInit ==
    /\ id = [s \in Slots |-> Nobody]
    /\ cell = [s \in Slots |-> "FREE"]
    /\ age = [s \in Slots |-> 0]
    /\ newer = {}
    /\ px = [s \in Slots |-> Nobody]
    /\ panel = {} /\ todo = {} /\ draws = "frame"
    /\ stands = "loop" /\ slot = {} /\ tookId = Nobody /\ rc = "again"
    /\ run = TRUE /\ flag = FALSE
    /\ Pack!Init /\ stale = {}
    /\ fails = 0 /\ clears = 0

-----------------------------------------------------------------------------
(* Both.                                                                   *)

\* The pairs in which one of them is.
NewerWith(them) == {p \in newer : p[1] \in them \/ p[2] \in them}

Setting(f, them, v) == [s \in Slots |-> IF s \in them THEN v ELSE f[s]]

Freed(them) ==
    /\ cell' = Setting(cell, them, "FREE")
    /\ id' = Setting(id, them, Nobody)
    /\ px' = Setting(px, them, Nobody)
    /\ age' = Setting(age, them, 0)
    /\ newer' = newer \ NewerWith(them)

-----------------------------------------------------------------------------
(* The drawing thread.                                                     *)

\* poster_frame(), and the page in front, which may be another by now.
poster_frame ==
    /\ draws = "frame" /\ todo = {}
    /\ age' = [s \in Slots |-> IF cell[s] # "FREE" /\ age[s] <= KEEP_FRAMES THEN age[s] + 1 ELSE age[s]]
    /\ panel' \in SUBSET Pictures
    /\ todo' = panel'
    /\ UNCHANGED <<id, cell, newer, px, draws, workVars, run, flag, kept, stale, countVars>>

\* A slip: one being decoded into is passed over.
Holds_NotRunning(k) == {s \in Slots : cell[s] \notin {"FREE", "RUNNING"} /\ id[s] = k}

\* find(): the slot that holds the key already.
Holds(k) == {s \in Slots : cell[s] # "FREE" /\ id[s] = k}

\* claim(): a free slot, or the one asked for longest ago, but never one that
\* is being decoded into or that a page still draws.
Claimable ==
    LET free == {s \in Slots : cell[s] = "FREE"}
        old  == {s \in Slots : cell[s] # "RUNNING" /\ age[s] >= KEEP_FRAMES}
    IN  IF free # {} THEN free ELSE {s \in old : \A r \in old : age[r] <= age[s]}

\* A slip: an ask counts from the first of them.
AsksAgain_Once(k) ==
    /\ draws = "frame"
    /\ Holds(k) # {}
    /\ todo' = todo \ {k}
    /\ UNCHANGED <<cellVars, panel, draws, workVars, run, flag, kept, stale, countVars>>

\* poster_get() of a picture a slot holds: it is asked for anew, and drawn if
\* it is ready.
AsksAgain(k) ==
    /\ draws = "frame"
    /\ \E s \in Holds(k) : age' = [age EXCEPT ![s] = 0]
    /\ todo' = todo \ {k}
    /\ UNCHANGED <<id, cell, newer, px, panel, draws, workVars, run, flag, kept, stale, countVars>>

\* poster_get() of one that none holds: a slot is claimed and blacked.
Claims(k) ==
    /\ draws = "frame"
    /\ Holds(k) = {} /\ run
    /\ \E s \in Claimable :
          /\ id' = [id EXCEPT ![s] = k]
          /\ cell' = [cell EXCEPT ![s] = "WANTED"]
          /\ age' = [age EXCEPT ![s] = 0]
          /\ px' = [px EXCEPT ![s] = Nobody]
          /\ newer' = (newer \ NewerWith({s})) \cup ({s} \X (Wanted \ {s}))
    /\ todo' = todo \ {k}
    /\ UNCHANGED <<panel, draws, workVars, run, flag, kept, stale, countVars>>

\* poster_get() with no slot to be had in this frame.
AsksInVain(k) ==
    /\ draws = "frame"
    /\ Holds(k) = {} /\ Claimable = {}
    /\ todo' = todo \ {k}
    /\ UNCHANGED <<cellVars, panel, draws, workVars, run, flag, kept, stale, countVars>>

\* A slip: a slot being decoded into is given away as well.
Cleared_Running == Freed(Slots)

\* posters_clear()'s part under the lock.
Cleared == Freed({s \in Slots : cell[s] # "RUNNING"})

\* posters_clear() of the home page's entry.
posters_clear ==
    /\ draws = "frame" /\ todo = {}
    /\ clears < MaxClears
    /\ Cleared
    /\ clears' = clears + 1
    /\ UNCHANGED <<drawVars, workVars, run, flag, kept, stale, fails>>

\* posters_cache_clear() of the settings page, which clears the slots first,
CacheClearBegins ==
    /\ draws = "frame" /\ todo = {}
    /\ clears < MaxClears
    /\ Cleared
    /\ clears' = clears + 1
    /\ draws' = "flag"
    /\ UNCHANGED <<panel, todo, workVars, run, flag, kept, stale, fails>>

\* A slip: the drawing thread removes the pack itself.
CacheClearFlags_Itself ==
    /\ draws = "flag"
    /\ kept' = {}
    /\ stale' = IF stands \in {"put", "source"} THEN {tookId} ELSE {}
    /\ draws' = "again"
    /\ UNCHANGED <<cellVars, panel, todo, workVars, run, flag, countVars>>

\* raises the flag,
CacheClearFlags ==
    /\ draws = "flag"
    /\ flag' = TRUE
    /\ stale' = kept \cup (IF stands \in {"put", "source"} THEN {tookId} ELSE {})
    /\ draws' = "again"
    /\ UNCHANGED <<cellVars, panel, todo, workVars, run, kept, countVars>>

\* and is followed by another posters_clear().
CacheClearEnds ==
    /\ draws = "again"
    /\ Cleared
    /\ draws' = "frame"
    /\ UNCHANGED <<panel, todo, workVars, run, flag, kept, stale, countVars>>

\* posters_stop() of the shutdown: g_run falls, and the worker is waited for.
StopBegins ==
    /\ draws = "frame" /\ todo = {}
    /\ run' = FALSE
    /\ draws' = "stopping"
    /\ panel' = {}
    /\ UNCHANGED <<cellVars, todo, workVars, flag, kept, stale, countVars>>

\* The pack is closed when it has left, or two seconds later.
StopEnds ==
    /\ draws = "stopping"
    /\ draws' = "stopped"
    /\ UNCHANGED <<cellVars, panel, todo, workVars, run, flag, kept, stale, countVars>>

Frame ==
    \/ poster_frame
    \/ \E k \in todo : AsksAgain(k) \/ Claims(k) \/ AsksInVain(k)
    \/ CacheClearFlags \/ CacheClearEnds

Clears == posters_clear \/ CacheClearBegins

-----------------------------------------------------------------------------
(* The worker.                                                             *)

\* The top of worker()'s loop.
Loops ==
    /\ stands = "loop"
    /\ stands' = IF ~run THEN "left" ELSE IF flag THEN "clearing" ELSE "want"
    /\ flag' = (flag /\ ~run)
    /\ UNCHANGED <<cellVars, drawVars, slot, tookId, rc, run, kept, stale, countVars>>

\* The pack is removed and begun again.
Empties ==
    /\ Emptying
    /\ stands' = "want"
    /\ kept' = {}
    /\ stale' = stale \ kept
    /\ UNCHANGED <<cellVars, drawVars, slot, tookId, rc, run, flag, countVars>>

\* The newest of the wants that have been renewed.
next_want ==
    LET live == {s \in Wanted : age[s] <= KEEP_FRAMES}
    IN  {s \in live : \A r \in live : <<r, s>> \notin newer}

\* next_want() marks it as running, and its id is copied out.
Takes ==
    /\ stands = "want"
    /\ \E s \in next_want :
          /\ slot' = {s}
          /\ tookId' = id[s]
          /\ cell' = [cell EXCEPT ![s] = "RUNNING"]
          /\ newer' = newer \ NewerWith({s})
    /\ stands' = "get"
    /\ UNCHANGED <<id, age, px, drawVars, rc, run, flag, kept, stale, countVars>>

Idles ==
    /\ stands = "want" /\ next_want = {}
    /\ stands' = "loop"
    /\ UNCHANGED <<cellVars, drawVars, slot, tookId, rc, run, flag, kept, stale, countVars>>

\* pack_get() has it, unless the pack was closed under the worker.
GetsIt ==
    /\ stands = "get" /\ tookId \in kept /\ draws # "stopped"
    /\ px' = Setting(px, slot, tookId)
    /\ rc' = "ok"
    /\ stands' = "answer"
    /\ UNCHANGED <<id, cell, age, newer, drawVars, slot, tookId, run, flag, kept, stale, countVars>>

GetsNone ==
    /\ stands = "get" /\ (tookId \notin kept \/ draws = "stopped")
    /\ stands' = "source"
    /\ UNCHANGED <<cellVars, drawVars, slot, tookId, rc, run, flag, kept, stale, countVars>>

\* g_source(): the picture, decoded into the slot;
SourceGives ==
    /\ stands = "source"
    /\ px' = Setting(px, slot, tookId)
    /\ rc' = "ok"
    /\ stands' = "put"
    /\ UNCHANGED <<id, cell, age, newer, drawVars, slot, tookId, run, flag, kept, stale, countVars>>

\* or that there is none, which is final, or a failure worth another go.
SourceHasNone ==
    /\ stands = "source"
    /\ rc' = "none"
    /\ stands' = "answer"
    /\ stale' = stale \ ({tookId} \ kept)
    /\ UNCHANGED <<cellVars, drawVars, slot, tookId, run, flag, kept, countVars>>

SourceFails ==
    /\ stands = "source"
    /\ fails < MaxFails
    /\ fails' = fails + 1
    /\ rc' = "again"
    /\ stands' = "answer"
    /\ stale' = stale \ ({tookId} \ kept)
    /\ UNCHANGED <<cellVars, drawVars, slot, tookId, run, flag, kept, clears>>

\* pack_put(), as far as the card has room.
Puts ==
    /\ stands = "put"
    /\ stands' = "answer"
    /\ UNCHANGED <<cellVars, drawVars, slot, tookId, rc, run, flag, countVars>>
    /\ \/ draws # "stopped" /\ Pack!Keep(tookId) /\ UNCHANGED stale
       \/ UNCHANGED kept /\ stale' = stale \ ({tookId} \ kept)

\* The locked part behind: the slot is the one it took, whatever was asked and
\* cleared since.
Answers ==
    /\ stands = "answer"
    /\ IF rc = "again" THEN Freed(slot)
       ELSE /\ cell' = Setting(cell, slot, IF rc = "ok" THEN "READY" ELSE "NONE")
            /\ UNCHANGED <<id, age, newer, px>>
    /\ stands' = "loop"
    /\ slot' = {} /\ tookId' = Nobody /\ rc' = "again"
    /\ UNCHANGED <<drawVars, run, flag, kept, stale, countVars>>

PosterWorker ==
    \/ Loops \/ Empties \/ Takes \/ Idles \/ GetsIt \/ GetsNone
    \/ SourceGives \/ SourceHasNone \/ SourceFails \/ Puts \/ Answers

-----------------------------------------------------------------------------

PostersNext == Frame \/ Clears \/ StopBegins \/ StopEnds \/ PosterWorker

PostersSpec == PostersInit /\ [][PostersNext]_postersVars

\* Both threads are scheduled, and each request to the server ends.
PostersFairSpec == PostersSpec /\ WF_postersVars(Frame) /\ WF_postersVars(PosterWorker)

-----------------------------------------------------------------------------
(* Properties.                                                             *)

\* A picture that is drawn is the one that was asked for: nothing is decoded
\* into a slot that was given to another picture since, whatever was evicted,
\* cleared and asked for again during the fetch.
ReadyIsItsOwn == \A s \in Slots : cell[s] = "READY" => px[s] = id[s]

\* No picture has two slots: one asked for again while it is fetched, or while
\* it is being dropped, is not fetched twice.
OneSlotEach ==
    \A s, r \in Slots : cell[s] # "FREE" /\ cell[r] # "FREE" /\ id[s] = id[r] => s = r

\* Clearing the cache clears the pack: once the worker has seen to it, nothing
\* is on the card that came before the viewer's press, not even what was in
\* the worker's hands at that time.
PackIsFresh == ~flag /\ ~Emptying => stale \cap kept = {}

\* The pictures of a page fill in: a page that stays and draws no more of them
\* than there are slots ends with none that is still coming.
Waiting(k) == \A s \in Slots : ~(id[s] = k /\ cell[s] \in {"READY", "NONE"})
PageFills ==
    <>[][FALSE]_panel /\ <>[](run /\ Cardinality(panel) <= Cardinality(Slots))
        => <>[](\A k \in panel : ~Waiting(k))

=============================================================================
