----------------------------- MODULE MCRequests -----------------------------
(***************************************************************************)
(* The requests, in parts side by side: Segments (over Api and Http) over  *)
(* revocations and lost replies, over a sleep of the machine and over a    *)
(* leave; one body (Http) over every framing, split and cut; and the       *)
(* reading of an answer (Reply). `part` names the one that moves.          *)
(***************************************************************************)
EXTENDS Segments, Reply

VARIABLE part
mcVars == <<requestVars, bodyVars, replyVars, part>>

\* Bytes that end a line, a byte that could be a size, and two that are neither.
MCBodies == {<<>>, <<-4>>, <<-4, LF, -5>>, <<CR, -4, 0, -5>>}

\* Titles with all that could end an object, an array or a title early.
Titles == {<<"a">>, <<"{", "quote", "a">>, <<"a", "esc">>,
           <<"a", "}", "]", "dash", "quote", "a">>, <<"[", "a", "esc", "quote">>}

Stream(kind, index, first) == [kind |-> kind, index |-> index, first |-> first]
SomeTracks == {<<>>,
               <<Stream("video", <<"0">>, <<"true">>), Stream("audio", <<"1">>, <<"false">>),
                 Stream("audio", <<"2">>, <<"true">>), Stream("audio", <<"3">>, <<"true">>),
                 Stream("subtitle", <<>>, <<>>)>>}

TheItem(name, no, played, image, streams) ==
    [name |-> name, no |-> no, played |-> played, image |-> image, streams |-> streams]
Filled == TheItem(<<"a">>, <<"2">>, <<"true">>, <<"1">>, <<>>)
Scant(name) == TheItem(name, <<>>, <<>>, <<>>, <<>>)

\* An item with all its fields beside one with none, under each title.
RowsOf == {<<>>, <<Filled>>}
          \cup {<<Scant(t), Filled>> : t \in Titles}
          \cup {<<Filled, Scant(t), Filled>> : t \in Titles}
OneItemOf == {<<TheItem(t, n, <<"false">>, <<>>, s)>> :
                 t \in Titles, n \in {<<>>, <<"1">>}, s \in SomeTracks}

Listings == [asked : {"list"}, form : {"envelope", "bare"}, items : RowsOf,
             count : {<<>>, <<"3">>}]
OneItem  == [asked : {"item"}, form : {"envelope"}, items : {<<>>} \cup OneItemOf,
             count : {<<>>}]
Others   == [asked : {"list", "item"}, form : {"other"}, items : {<<>>}, count : {<<>>}]
TheReplies == Listings \cup Others \cup OneItem

OneBody ==
    /\ body = <<>> /\ wire = <<>> /\ framing = "none" /\ replied = 200 /\ caller = "request"
    /\ dc = Fresh /\ got = 0 /\ bodyPc = "headers"

MCInit ==
    /\ RequestsInit
    /\ ReplyInit /\ (part = "reply" \/ reply = CHOOSE r \in Replies : TRUE)
    /\ \/ part \in {"tokens", "sleeps", "leaving", "reply"} /\ OneBody
       \/ part = "body" /\ BodyInit

(* Bounds: which of the disturbances a part has, so that each is explored  *)
(* alone.  Only `tokens` has a second sign-in.                             *)
Reconnects == g_user_id /\ \E t \in ApiThreads : call'[t].pc = "connecting"
Bounds ==
    /\ part # "sleeps" => sleeps' = 0
    /\ part # "leaving" => ~leaving'
    /\ part = "tokens" => \A t \in Threads : req'[t].rc \in {"OK", "NO_REPLY"}
    /\ part # "tokens" => issued' <= 1 /\ live' = issued' /\ g_next_seg' >= g_next_seg /\ ~Reconnects
    /\ part = "sleeps" => req'[feed].status # 404

MCNext ==
    /\ \/ part \notin {"body", "reply"} /\ RequestsNext /\ Bounds /\ UNCHANGED <<bodyVars, replyVars>>
       \/ part = "body" /\ BodyNext /\ UNCHANGED <<requestVars, replyVars>>
       \/ part = "reply" /\ ReplyNext /\ UNCHANGED <<requestVars, bodyVars>>
    /\ UNCHANGED part
RequestsSideBySide == MCInit /\ [][MCNext]_mcVars
=============================================================================
