-------------------------------- MODULE Pack --------------------------------
(***************************************************************************)
(* The posters' pack on the card, model/posters.c: one file of records,    *)
(* each a header and the picture's rows, an index of them in memory, and   *)
(* the place the next one goes.                                            *)
(*                                                                         *)
(* The file is a sequence of cells, a header or a row each. Writes reach   *)
(* the card in order, and power may be lost between any two of them: a     *)
(* cell cut in the middle is as good as one not written, since it is       *)
(* neither the header nor the row it was to be. Offsets are positions of   *)
(* cells, from 1. What is at the end of a record's rows once it is whole   *)
(* is looked at again only by pack_open.                                   *)
(***************************************************************************)
EXTENDS Naturals, Sequences, FiniteSets

CONSTANTS
    Pictures,   \* the keys
    Rows,       \* how many rows the picture of a key has
    Cap,        \* g_pack_cap, in cells
    Records,    \* PACK_RECORDS
    Nobody      \* no key

ASSUME PackAssumption ==
    /\ Rows \in [Pictures -> Nat \ {0}]
    /\ Cap \in Nat /\ Records \in Nat
    /\ Nobody \notin Pictures

VARIABLES
    file,       \* the cells on the card
    up,         \* the store runs, with the pack open
    index,      \* g_index: where each record begins; g_pack_n is its length
    end,        \* g_pack_end
    put,        \* pack_put's record, Nobody's when there is none
    y,          \* and how many of its cells are written
    clear,      \* g_clear_pack
    emptying,   \* the worker is between lowering it and the removal
    covered     \* history: a put was cut short with its header over the rows
                \* of another, and as many of them behind as it was to have

memory == <<index, end, put, y>>
packVars == <<file, up, memory, clear, emptying, covered>>

Cell == [of : Pictures, row : Nat]

Size(k) == Rows[k] + 1

\* A slip: the length of the file is not looked at.
Whole_AnyLength(f, at) == at <= Len(f) /\ f[at].row = 0

\* read_hdr(): a header, and its rows inside the file.
Whole(f, at) ==
    /\ at <= Len(f)
    /\ f[at].row = 0
    /\ at + Rows[f[at].of] <= Len(f)

\* pack_open()'s walk: where the records of a file begin, up to the first that
\* is not whole.
Walk(f) ==
    LET from[at \in Nat \ {0}] ==
          IF Whole(f, at) THEN <<at>> \o from[at + Size(f[at].of)] ELSE <<>>
        all == from[1]
    IN  SubSeq(all, 1, IF Len(all) < Records THEN Len(all) ELSE Records)

\* Where the next record goes, after those that begin at these places.
EndOf(f, starts) ==
    IF starts = <<>> THEN 1
    ELSE LET last == starts[Len(starts)] IN last + Size(f[last].of)

\* pack_find(): the first record under the key.
Found(k) == {i \in 1..Len(index) : file[index[i]].of = k}

PackTypeOK ==
    /\ file \in Seq(Cell)
    /\ up \in BOOLEAN /\ clear \in BOOLEAN /\ emptying \in BOOLEAN /\ covered \in BOOLEAN
    /\ index \in Seq(1..Cap) /\ Len(index) <= Records
    /\ end \in 1..Cap + 1
    /\ put \in Pictures \cup {Nobody}
    /\ put # Nobody => up /\ ~emptying /\ y <= Size(put) /\ end + Size(put) <= Cap + 1
    /\ put = Nobody => y = 0
    /\ ~up => index = <<>> /\ end = 1 /\ ~emptying

PackInit ==
    /\ file = <<>>
    /\ up = FALSE
    /\ index = <<>> /\ end = 1 /\ put = Nobody /\ y = 0
    /\ clear = FALSE /\ emptying = FALSE
    /\ covered = FALSE

-----------------------------------------------------------------------------
(* The store's start and end.                                              *)

\* A slip: a pack with a bad tail is begun afresh.
pack_open_Afresh ==
    /\ ~up
    /\ up' = TRUE
    /\ file' = IF EndOf(file, Walk(file)) = Len(file) + 1 THEN file ELSE <<>>
    /\ index' = Walk(file')
    /\ end' = EndOf(file', index')
    /\ UNCHANGED <<put, y, clear, emptying, covered>>

\* pack_open(), of posters_start(), which lowers g_clear_pack before it.
pack_open ==
    /\ ~up
    /\ up' = TRUE
    /\ index' = Walk(file)
    /\ end' = EndOf(file, index')
    /\ UNCHANGED <<file, put, y, clear, emptying, covered>>

Forgotten ==
    /\ up' = FALSE
    /\ index' = <<>> /\ end' = 1 /\ put' = Nobody /\ y' = 0
    /\ clear' = FALSE /\ emptying' = FALSE

\* posters_stop() with the worker out of its loop.
pack_close ==
    /\ up
    /\ put = Nobody /\ ~emptying
    /\ Forgotten
    /\ UNCHANGED <<file, covered>>

\* Cut short here, the record on the card would have another's rows in it.
Covers == put # Nobody /\ y \in 1..Rows[put] /\ end + Rows[put] <= Len(file)

\* The battery comes out, or the program ends under its worker.
PowerIsLost ==
    /\ up
    /\ Forgotten
    /\ covered' = (covered \/ Covers)
    /\ UNCHANGED file

-----------------------------------------------------------------------------
(* The worker.                                                             *)

Busy == put # Nobody \/ emptying

\* A slip: a picture is put without a look whether it is there.
PutBegins_Again(k) ==
    /\ up /\ ~Busy
    /\ Len(index) < Records
    /\ end + Size(k) <= Cap + 1
    /\ put' = k
    /\ UNCHANGED <<file, up, index, end, y, clear, emptying, covered>>

\* A slip: the room is counted one short.
PutBegins_OneMore(k) ==
    /\ up /\ ~Busy
    /\ Found(k) = {}
    /\ Len(index) < Records
    /\ end + Rows[k] <= Cap + 1
    /\ put' = k
    /\ UNCHANGED <<file, up, index, end, y, clear, emptying, covered>>

\* pack_put() of a picture pack_get() did not find, if there is room.
PutBegins(k) ==
    /\ up /\ ~Busy
    /\ Found(k) = {}
    /\ Len(index) < Records
    /\ end + Size(k) <= Cap + 1
    /\ put' = k
    /\ UNCHANGED <<file, up, index, end, y, clear, emptying, covered>>

\* A slip: records are put after whatever the file holds.
PutWrites_AtTail ==
    /\ put # Nobody /\ y < Size(put)
    /\ file' = Append(file, [of |-> put, row |-> y])
    /\ y' = y + 1
    /\ UNCHANGED <<up, index, end, put, clear, emptying, covered>>

\* One fwrite() of the header or a row, over what is there or after it.
PutWrites ==
    /\ put # Nobody /\ y < Size(put)
    /\ LET cell == [of |-> put, row |-> y]
       IN  file' = IF end + y <= Len(file) THEN [file EXCEPT ![end + y] = cell] ELSE Append(file, cell)
    /\ y' = y + 1
    /\ UNCHANGED <<up, index, end, put, clear, emptying, covered>>

\* The card refuses one of them: what is written stays, and does not count.
PutFails ==
    /\ put # Nobody /\ y < Size(put)
    /\ put' = Nobody /\ y' = 0
    /\ covered' = (covered \/ Covers)
    /\ UNCHANGED <<file, up, index, end, clear, emptying>>

PutEnds ==
    /\ put # Nobody /\ y = Size(put)
    /\ index' = Append(index, end)
    /\ end' = end + Size(put)
    /\ put' = Nobody /\ y' = 0
    /\ UNCHANGED <<file, up, clear, emptying, covered>>

\* posters_cache_clear(), on the drawing thread, at any time.
posters_cache_clear ==
    /\ up
    /\ clear' = TRUE
    /\ UNCHANGED <<file, up, memory, emptying, covered>>

\* worker(), between pictures: the flag is lowered first.
ClearBegins ==
    /\ up /\ ~Busy /\ clear
    /\ clear' = FALSE
    /\ emptying' = TRUE
    /\ UNCHANGED <<file, up, memory, covered>>

\* Then the pack is closed, removed and opened again.
ClearEnds ==
    /\ emptying
    /\ emptying' = FALSE
    /\ file' = <<>>
    /\ index' = <<>> /\ end' = 1
    /\ covered' = FALSE
    /\ UNCHANGED <<up, put, y, clear>>

-----------------------------------------------------------------------------

PackNext ==
    \/ pack_open \/ pack_close \/ PowerIsLost
    \/ \E k \in Pictures : PutBegins(k)
    \/ PutWrites \/ PutFails \/ PutEnds
    \/ posters_cache_clear \/ ClearBegins \/ ClearEnds

PackSpec == PackInit /\ [][PackNext]_packVars

-----------------------------------------------------------------------------
(* Properties.                                                             *)

\* "A hash collision costs a seek, never a wrong picture", and a tail
\* half-written is found bad: whatever power was lost and whichever writes
\* failed, what pack_get() gives for a key are the rows of its picture. That
\* holds until a put is cut short over the rows a longer one left behind.
PackIsTrue ==
    covered \/ \A k \in Pictures : \A i \in Found(k) : \A row \in 1..Rows[k] :
        /\ index[i] + row <= Len(file)
        /\ file[index[i] + row] = [of |-> k, row |-> row]

\* The same without that exception, as posters.c has it: pack_open() "stops at
\* the first bad record, a tail half-written when the battery came out, and the
\* next append overwrites it". It does not hold.
PackIsAlwaysTrue ==
    \A k \in Pictures : \A i \in Found(k) : \A row \in 1..Rows[k] :
        file[index[i] + row] = [of |-> k, row |-> row]

\* The index is the file's: the records lie one after another from the start,
\* the next goes behind the last of them, and no picture is there twice. So a
\* launch finds again what this run put, and a put disturbs none of it.
IndexIsTheFile ==
    up => /\ end = EndOf(file, index)
          /\ \A i \in 1..Len(index) : index[i] = EndOf(file, SubSeq(index, 1, i - 1))
          /\ end <= Len(file) + 1
          /\ \A k \in Pictures : Cardinality(Found(k)) <= 1

\* What the posters build on: what is kept grows until it is emptied because
\* that was asked for, and a launch finds on the card all that was in the index
\* when the power was lost.
KeysAt(starts) == {file[starts[i]].of : i \in 1..Len(starts)}

CacheOfPack == INSTANCE Cache WITH
    kept  <- KeysAt(IF up THEN index ELSE Walk(file)),
    asked <- clear \/ emptying

CacheSpec == CacheOfPack!Spec

=============================================================================
