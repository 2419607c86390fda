-------------------------------- MODULE Reply --------------------------------
(***************************************************************************)
(* How the server's answer is read: base/json.c, "NOT A PARSER: a scan for *)
(* "key":"value"", and the walks jelly/api.c makes with it over a listing  *)
(* (read_list) and over an item and its tracks (jf_item).                  *)
(*                                                                         *)
(* The text is a sequence of marks: brackets, commas, "quote", "esc" (the  *)
(* backslash), a key with its quotes and colon, a number, a character of a *)
(* title, or the four digits of an escape. A key inside a title has its    *)
(* quotes escaped, so the pattern of value_between() never meets one       *)
(* there; positions in the text stand for the pointers.                    *)
(***************************************************************************)
EXTENDS Integers, FiniteSets, SequencesExt

CONSTANTS
    Replies,    \* what the server answers, as records: see Text
    NameRoom,   \* ITEM_NAME_LEN - 1
    RowsMax,    \* the listing's `max`
    TrackMax    \* JF_TRACK_MAX

ASSUME ReplyAssumption == NameRoom \in Nat /\ RowsMax \in Nat \ {0} /\ TrackMax \in Nat

VARIABLES
    reply,      \* the answer
    doc,        \* its text
    walk,       \* "begin", "rows", "tracks" or "done"
    obj,        \* the object the walk is at, or Nowhere
    rows,       \* the items read
    audio, subs, deflt,     \* jf_tracks
    answer      \* jf_err, and `total`

replyVars == <<reply, doc, walk, obj, rows, audio, subs, deflt, answer>>

Nowhere == [from |-> 0, to |-> 0]

-----------------------------------------------------------------------------
(* What the server writes. A field it has no value for is left out.        *)

Escaped(c) == CASE c = "quote" -> <<"esc", "quote">> [] c = "esc" -> <<"esc", "esc">>
                [] c = "dash" -> <<"esc", "u2013">> [] OTHER -> <<c>>
Quoted(name) == <<"quote">> \o FlattenSeq([i \in DOMAIN name |-> Escaped(name[i])]) \o <<"quote">>
Field(key, value) == IF value = <<>> THEN <<>> ELSE <<key>> \o value \o <<",">>
Listed(key, objects) ==
    <<key, "[">> \o FlattenSeq([i \in DOMAIN objects |-> objects[i] \o <<",">>]) \o <<"]", ",">>

StreamText(s) ==
    <<"{">> \o Field("Type:", <<"quote", s.kind, "quote">>) \o Field("IsDefault:", s.first) \o
    Field("Index:", s.index) \o <<"}">>
ItemText(i) ==
    <<"{">> \o Field("Name:", Quoted(i.name)) \o Field("IndexNumber:", i.no)
    \o <<"UserData:", "{">> \o Field("Played:", i.played) \o <<"}", ",">>
    \o <<"ImageTags:", "{">> \o Field("Primary:", i.image) \o <<"}", ",">>
    \o Listed("MediaStreams:", [k \in DOMAIN i.streams |-> StreamText(i.streams[k])]) \o <<"}">>

Items(r) == [k \in DOMAIN r.items |-> ItemText(r.items[k])]

Text(r) ==
    CASE r.form = "envelope" -> <<"{">> \o Listed("Items:", Items(r)) \o Field("TotalRecordCount:", r.count) \o <<"}">>
      [] r.form = "bare"     -> <<"[">> \o FlattenSeq([k \in DOMAIN r.items |-> Items(r)[k] \o <<",">>]) \o <<"]">>
      [] r.form = "other"    -> <<"{", "}">>

-----------------------------------------------------------------------------
(* base/json.c.                                                            *)

FirstIn(from, to, marks) ==
    LET at == {p \in from .. to : doc[p] \in marks} IN IF at = {} THEN 0 ELSE Min(at)

\* A slip: the key is looked for to the end of the document.
value_between_Unbounded(o, key) ==
    LET p == FirstIn(o.from, Len(doc), {key}) IN IF p = 0 THEN 0 ELSE p + 1

\* value_between(): past the key, or 0.
value_between(o, key) ==
    LET p == FirstIn(o.from, o.to, {key}) IN IF p = 0 THEN 0 ELSE p + 1

Whole == [from |-> 1, to |-> Len(doc)]
Digits == {"0", "1", "2", "3"}
json_num_in(o, key, def) ==
    LET p == value_between(o, key)
    IN  IF p # 0 /\ p <= o.to /\ doc[p] \in Digits THEN doc[p] ELSE def
json_bool_in(o, key) == LET p == value_between(o, key) IN p # 0 /\ doc[p] = "true"
json_key_in(o, key) == value_between(o, key) # 0

\* The character an escape stands for.
Unescaped(c) == IF c = "u2013" THEN "dash" ELSE c

\* json_str_in()'s loop at one mark: out is what it has copied.
Copies(s, c) ==
    CASE s.over                  -> s
      [] ~s.over /\ s.esc        -> [s EXCEPT !.esc = FALSE, !.out = Append(@, Unescaped(c))]
      [] ~s.over /\ ~s.esc /\ c = "quote" -> [s EXCEPT !.over = TRUE]
      [] ~s.over /\ ~s.esc /\ c # "quote" /\ Len(s.out) = NameRoom -> [s EXCEPT !.over = TRUE, !.cut = TRUE]
      [] OTHER -> IF c = "esc" THEN [s EXCEPT !.esc = TRUE] ELSE [s EXCEPT !.out = Append(@, c)]

\* "Ran out of field before running out of value: marked".
Marked(s) ==
    IF s.cut /\ Len(s.out) >= 3 THEN SubSeq(s.out, 1, Len(s.out) - 3) \o <<".", ".", ".">> ELSE s.out

json_str_in(o, key) ==
    LET p == value_between(o, key)
    IN  IF p = 0 \/ doc[p] # "quote" THEN <<>>
        ELSE Marked(FoldLeft(Copies, [out |-> <<>>, esc |-> FALSE, over |-> FALSE, cut |-> FALSE],
                             SubSeq(doc, p + 1, o.to)))

\* A quote with an even number of backslashes before it.
Closes(q) == doc[q] = "quote" /\ (q - Max({p \in 0 .. q - 1 : p = 0 \/ doc[p] # "esc"})) % 2 = 1

\* A slip: a bracket in a title counts.
Brackets_Titles(start) == {q \in start .. Len(doc) : doc[q] \in {"{", "}"}}

\* "Braces are counted and quoted strings skipped, so a brace inside a title
\* does not end the object early."
Brackets(start) ==
    LET quotes == {q \in start .. Len(doc) : Closes(q)}
    IN  {q \in start .. Len(doc) :
            doc[q] \in {"{", "}"} /\ Cardinality({p \in quotes : p < q}) % 2 = 0}

\* object_at(arr, 0): the next object of the array, unless it ends first.
object_at(p) ==
    LET start == IF p = 0 THEN 0 ELSE FirstIn(p, Len(doc), {"{", "]"})
        brackets == Brackets(start)
        Upto(q, mark) == Cardinality({r \in brackets : r <= q /\ doc[r] = mark})
        ends == {q \in brackets : Upto(q, "{") = Upto(q, "}")}
    IN  IF start = 0 \/ doc[start] = "]" \/ ends = {} THEN Nowhere
        ELSE [from |-> start, to |-> Min(ends)]

json_next_item(o) == object_at(o.to + 1)

\* array_of() and bare(): just inside the bracket.
array_of(key) ==
    LET p == value_between(Whole, key) IN IF p # 0 /\ doc[p] = "[" THEN p + 1 ELSE 0
bare == IF doc[1] = "[" THEN 2 ELSE 0

-----------------------------------------------------------------------------
(* jelly/api.c.                                                            *)

\* The part of the item read_item() looks for the picture in.
After(o, key) == [o EXCEPT !.from = value_between(o, key)]

read_item(o) ==
    [name |-> json_str_in(o, "Name:"), no |-> json_num_in(o, "IndexNumber:", "none"),
     played |-> json_bool_in(o, "Played:"),
     image |-> json_key_in(o, "ImageTags:") /\ json_key_in(After(o, "ImageTags:"), "Primary:")]

\* /Items/Latest answers a bare array.
Array ==
    IF FirstIn(1, Len(doc), {"Items:"}) # 0 THEN array_of("Items:") ELSE bare

\* read_list() counts first; count_from() goes from object to object as the
\* reading does, so the reading ends where the count does, or at `max`.
ListBegins ==
    /\ walk = "begin" /\ reply.asked = "list"
    /\ obj' = object_at(Array)
    /\ IF obj' # Nowhere
          THEN walk' = "rows" /\ UNCHANGED answer
          ELSE /\ walk' = "done"
               /\ answer' = [err |-> IF FirstIn(1, Len(doc), {"Items:"}) = 0 /\ doc[1] # "[" THEN "GARBLED" ELSE "OK",
                             total |-> "0"]
    /\ UNCHANGED <<reply, doc, rows, audio, subs, deflt>>

ListRow ==
    /\ walk = "rows" /\ Len(rows) < RowsMax /\ obj # Nowhere
    /\ rows' = Append(rows, read_item(obj))
    /\ obj' = json_next_item(obj)
    /\ UNCHANGED <<reply, doc, walk, audio, subs, deflt, answer>>

ListEnds ==
    /\ walk = "rows" /\ (Len(rows) = RowsMax \/ obj = Nowhere)
    /\ answer' = [err |-> "OK", total |-> json_num_in(Whole, "TotalRecordCount:", ToString(Len(rows)))]
    /\ walk' = "done"
    /\ UNCHANGED <<reply, doc, obj, rows, audio, subs, deflt>>

\* jf_item(): the item, and where its tracks begin.
ItemBegins ==
    /\ walk = "begin" /\ reply.asked = "item"
    /\ LET p == array_of("Items:")
           o == object_at(p)
       IN  IF o = Nowhere
              THEN answer' = [err |-> "MISSING", total |-> "0"] /\ walk' = "done" /\ UNCHANGED <<obj, rows>>
              ELSE /\ rows' = <<read_item(o)>>
                   /\ obj' = IF json_key_in(o, "MediaStreams:") THEN object_at(array_of("MediaStreams:")) ELSE Nowhere
                   /\ walk' = "tracks" /\ UNCHANGED answer
    /\ UNCHANGED <<reply, doc, audio, subs, deflt>>

Kind(o) == json_str_in(o, "Type:")
Index(o) == json_num_in(o, "Index:", "none")

\* read_tracks()' loop: "Evangelion has 14 subtitle tracks; past the cap they
\* are dropped", and pictures are passed over.
ItemTrack ==
    /\ walk = "tracks" /\ obj # Nowhere
    /\ LET sound == Kind(obj) = <<"audio">> /\ Len(audio) < TrackMax
           sub == Kind(obj) = <<"subtitle">> /\ Len(subs) < TrackMax
       IN  /\ audio' = IF sound THEN Append(audio, Index(obj)) ELSE audio
           /\ subs' = IF sub THEN Append(subs, Index(obj)) ELSE subs
           /\ deflt' = IF sound /\ deflt = "none" /\ json_bool_in(obj, "IsDefault:") THEN Index(obj) ELSE deflt
    /\ obj' = json_next_item(obj)
    /\ UNCHANGED <<reply, doc, walk, rows, answer>>

ItemEnds ==
    /\ walk = "tracks" /\ obj = Nowhere
    /\ answer' = [err |-> "OK", total |-> "0"] /\ walk' = "done"
    /\ UNCHANGED <<reply, doc, obj, rows, audio, subs, deflt>>

ReplyInit ==
    /\ reply \in Replies /\ doc = Text(reply) /\ walk = "begin" /\ obj = Nowhere
    /\ rows = <<>> /\ audio = <<>> /\ subs = <<>> /\ deflt = "none"
    /\ answer = [err |-> "none", total |-> "0"]

ReplyNext == ListBegins \/ ListRow \/ ListEnds \/ ItemBegins \/ ItemTrack \/ ItemEnds
ReplySpec == ReplyInit /\ [][ReplyNext]_replyVars

-----------------------------------------------------------------------------
(* Properties.                                                             *)

\* What a caller of the reading is to have of the answer, by the answer.
Shown(name) ==
    IF Len(name) <= NameRoom THEN name
    ELSE IF NameRoom < 3 THEN SubSeq(name, 1, NameRoom)
    ELSE SubSeq(name, 1, NameRoom - 3) \o <<".", ".", ".">>
NumberOf(field) == IF field = <<>> THEN "none" ELSE field[1]
Row(i) ==
    [name |-> Shown(i.name), no |-> NumberOf(i.no), played |-> i.played = <<"true">>, image |-> i.image # <<>>]
Tracks(i, kind) ==
    LET all == SelectSeq(i.streams, LAMBDA s : s.kind = kind)
    IN  [k \in 1 .. IF Len(all) < TrackMax THEN Len(all) ELSE TrackMax |-> NumberOf(all[k].index)]

\* json.h: "an episode with "IndexNumber":null once displayed the number 22,
\* belonging to an item two places down". Every row is of its own item, in
\* the server's order, to the end of the list or of the room, whatever a
\* title or the item before it holds; and a cut title says that it is cut.
RowsAreTheItems ==
    /\ \A k \in DOMAIN rows : k \in DOMAIN reply.items /\ rows[k] = Row(reply.items[k])
    /\ walk = "done" /\ answer.err = "OK" /\ reply.asked = "list" =>
          Len(rows) = IF Len(reply.items) < RowsMax THEN Len(reply.items) ELSE RowsMax
    /\ walk = "done" /\ answer.err = "OK" /\ reply.asked = "item" =>
          /\ audio = Tracks(reply.items[1], "audio") /\ subs = Tracks(reply.items[1], "subtitle")
          /\ deflt \in {"none"} \cup ToSet(audio)
    /\ answer.err = "MISSING" => reply.items = <<>>
    /\ answer.err = "GARBLED" => reply.form = "other"

=============================================================================
