-------------------------------- MODULE Http --------------------------------
(***************************************************************************)
(* The requests in flight (io/http.c, over the console's sockets of        *)
(* port/psp/net.c): each thread's exec_request with the socket it opens or *)
(* was handed, the register of reads, the cancel that wakes them, and the  *)
(* sleep that kills sockets without a word.  What a body says is Body's.   *)
(*                                                                         *)
(* A request is what it asks, a record of its kind, segment and token; the *)
(* server answers what the socket carries, not what the caller believes.   *)
(***************************************************************************)
EXTENDS Integers, FiniteSets, Sequences

CONSTANTS Threads,     \* the threads that make requests
          Socks,       \* the descriptors, numbers
          ReadsMax,    \* how many reads the register holds, READS_MAX
          NoSock       \* HTTP_SOCK_NONE, no descriptor

VARIABLES g_cancel,    \* the cancel, until it is cleared
          g_reading,   \* the register of reads in flight
          sock,        \* each descriptor: open, what it carries, woken, killed
          req,         \* each thread's exec_request
          canceller    \* the thread inside http_cancel, and the reads in
                       \* flight when it began

httpVars == <<g_cancel, g_reading, sock, req, canceller>>

Nothing == [kind |-> "none", seg |-> 0, token |-> 0]
Asks(k, i, tok) == [kind |-> k, seg |-> i, token |-> tok]
Shut == [open |-> FALSE, asked |-> Nothing, woken |-> FALSE, dead |-> FALSE]
NoReq == [pc |-> "idle", asked |-> Nothing, pre |-> NoSock, s |-> NoSock,
          status |-> 0, rc |-> "OK", hears |-> FALSE, came |-> Nothing]

NoCancel == [pc |-> "idle", at |-> 0, s |-> NoSock, caught |-> {}]

HttpInit ==
    /\ g_cancel = FALSE
    /\ g_reading = [i \in 1 .. ReadsMax |-> NoSock]
    /\ sock = [s \in Socks |-> Shut]
    /\ req = [t \in Threads |-> NoReq]
    /\ canceller = NoCancel

(* A descriptor the stack gives, the lowest that is free, connected and    *)
(* asked: one just closed is the next one given.                           *)
Opened == {s \in Socks : sock[s].open}
Given == {s \in Socks \ Opened : \A r \in Socks \ Opened : s <= r}
Sent(s, a) == [sock EXCEPT ![s] = [open |-> TRUE, asked |-> a, woken |-> FALSE, dead |-> FALSE]]

(* http_sock_close, of a descriptor or of none.                            *)
Closed(s) == IF s = NoSock THEN sock ELSE [sock EXCEPT ![s] = Shut]

Ends(t, rc) ==
    [req EXCEPT ![t] = [@ EXCEPT !.pc = "over", !.rc = rc, !.pre = NoSock, !.s = NoSock,
                                 !.asked = Nothing]]

(* http_request or http_stream: asked, with a socket sent ahead or none,   *)
(* and whether the caller wants to hear of the headers.                    *)
Begun(t, a, pre, hears) ==
    [req EXCEPT ![t] = [NoReq EXCEPT !.pc = "start", !.asked = a, !.pre = pre, !.hears = hears]]

(* A slip: a cancelled request returns without its presend socket.         *)
HttpCancelled_Leaks(t) ==
    /\ req[t].pc = "start" /\ g_cancel
    /\ req' = Ends(t, "STOPPED")
    /\ UNCHANGED <<g_cancel, g_reading, sock, canceller>>

(* exec_request: cancelled before it began, or a head that does not fit.   *)
(* A socket handed over is closed on every return.                         *)
HttpCancelled(t) ==
    /\ req[t].pc = "start" /\ g_cancel
    /\ sock' = Closed(req[t].pre)
    /\ req' = Ends(t, "STOPPED")
    /\ UNCHANGED <<g_cancel, g_reading, canceller>>
HttpUnbuilt(t) ==
    /\ req[t].pc = "start" /\ ~g_cancel
    /\ sock' = Closed(req[t].pre)
    /\ req' = Ends(t, "BAD_REQUEST")
    /\ UNCHANGED <<g_cancel, g_reading, canceller>>

(* The request sent ahead, or a socket opened and the request sent on it;  *)
(* a connect or a send that fails leaves no socket.                        *)
HttpReuses(t) ==
    /\ req[t].pc = "start" /\ ~g_cancel /\ req[t].pre # NoSock
    /\ req' = [req EXCEPT ![t] = [@ EXCEPT !.pc = "sent", !.s = req[t].pre, !.pre = NoSock,
                                           !.asked = Nothing]]
    /\ UNCHANGED <<g_cancel, g_reading, sock, canceller>>
HttpOpens(t) ==
    /\ req[t].pc = "start" /\ ~g_cancel /\ req[t].pre = NoSock
    /\ \/ \E s \in Given :
            /\ sock' = Sent(s, req[t].asked)
            /\ req' = [req EXCEPT ![t] = [@ EXCEPT !.pc = "sent", !.s = s, !.asked = Nothing]]
       \/ /\ req' = Ends(t, "NO_HOST")
          /\ UNCHANGED sock
    /\ UNCHANGED <<g_cancel, g_reading, canceller>>

(* A slip: one slot, the last read to register.                            *)
reading_on_OneSlot(t) == [g_reading EXCEPT ![1] = req[t].s]

(* The first free slot; a read past the last is not registered.            *)
reading_on(t) ==
    IF \E i \in 1 .. ReadsMax : g_reading[i] = NoSock
    THEN [g_reading EXCEPT ![CHOOSE i \in 1 .. ReadsMax :
              /\ g_reading[i] = NoSock
              /\ \A j \in 1 .. i - 1 : g_reading[j] # NoSock] = req[t].s]
    ELSE g_reading
reading_off(t) == [i \in 1 .. ReadsMax |-> IF g_reading[i] = req[t].s THEN NoSock ELSE g_reading[i]]

HttpRegisters(t) ==
    /\ req[t].pc = "sent"
    /\ g_reading' = reading_on(t)
    /\ req' = [req EXCEPT ![t].pc = "headers"]
    /\ UNCHANGED <<g_cancel, sock, canceller>>

(* http_sock_recv: a cancel, or the end the wake makes of the connection,  *)
(* is seen at once; a connection may end, or the bound be reached, at any  *)
(* time, and nothing else ends the read of a socket a sleep killed.        *)
Hears(s) == sock[s].open /\ ~sock[s].woken /\ ~sock[s].dead
Interrupted(t) == g_cancel \/ sock[req[t].s].woken

HeadersFail(t) ==
    req' = [req EXCEPT ![t] = [@ EXCEPT !.pc = "off", !.rc = "NO_REPLY"]]
HttpInterrupted(t) ==
    /\ req[t].pc = "headers" /\ Interrupted(t)
    /\ HeadersFail(t)
    /\ UNCHANGED <<g_cancel, g_reading, sock, canceller>>
HttpNoReply(t) ==
    /\ req[t].pc = "headers"
    /\ HeadersFail(t)
    /\ UNCHANGED <<g_cancel, g_reading, sock, canceller>>

(* The reply's headers, with a status of the server's; on a 2xx the caller *)
(* hears of it before the body is read.                                    *)
HttpHeaders(t, st) ==
    /\ req[t].pc = "headers" /\ Hears(req[t].s) /\ ~g_cancel
    /\ req' = [req EXCEPT ![t] = [@ EXCEPT !.status = st, !.came = sock[req[t].s].asked,
                                           !.pc = IF req[t].hears /\ st = 200
                                                  THEN "told" ELSE "body"]]
    /\ UNCHANGED <<g_cancel, g_reading, sock, canceller>>

(* The body's end: read to its end, short of it, stopped by a cancel -- or *)
(* cut by one, when the flag is seen inside the read and not before it.    *)
BodyOver(t, rc) ==
    /\ req' = [req EXCEPT ![t] = [@ EXCEPT !.pc = "off", !.rc = rc]]
    /\ UNCHANGED <<g_cancel, g_reading, sock, canceller>>
HttpBody(t) ==
    /\ req[t].pc = "body" /\ Hears(req[t].s) /\ ~g_cancel
    /\ \E rc \in {"OK", "CUT"} : BodyOver(t, rc)
HttpBodyBreaks(t) ==
    /\ req[t].pc = "body"
    /\ \/ g_cancel /\ BodyOver(t, "STOPPED")
       \/ Interrupted(t) /\ BodyOver(t, "CUT")
HttpBodyTimesOut(t) == req[t].pc = "body" /\ ~Hears(req[t].s) /\ BodyOver(t, "CUT")

(* reading_off, and the socket is closed.  A cancel that read the slot     *)
(* before this wakes the descriptor after it.                              *)
HttpCloses(t) ==
    /\ req[t].pc = "off"
    /\ g_reading' = reading_off(t)
    /\ sock' = Closed(req[t].s)
    /\ req' = Ends(t, req[t].rc)
    /\ canceller' = [canceller EXCEPT !.caught = @ \ {t}]
    /\ UNCHANGED g_cancel

(***************************************************************************)
(* http_cancel, without the register's lock: it reads a slot, then wakes   *)
(* what it read, which its owner may have closed in between.               *)
(***************************************************************************)
(* What the cancel is for: the reads registered when it begins.            *)
Registered(t) == req[t].pc \in {"headers", "told", "body"}
                 /\ \E i \in 1 .. ReadsMax : g_reading[i] = req[t].s

CancelBegins ==
    /\ canceller.pc = "watch"
    /\ g_cancel' = TRUE
    /\ canceller' = [pc |-> "look", at |-> 1, s |-> NoSock, caught |-> {t \in Threads : Registered(t)}]
    /\ UNCHANGED <<g_reading, sock, req>>
CancelLooks ==
    /\ canceller.pc = "look"
    /\ canceller' = [canceller EXCEPT !.pc = "wake", !.s = g_reading[canceller.at]]
    /\ UNCHANGED <<g_cancel, g_reading, sock, req>>
CancelWakes ==
    /\ canceller.pc = "wake"
    /\ sock' = IF canceller.s # NoSock /\ sock[canceller.s].open
               THEN [sock EXCEPT ![canceller.s].woken = TRUE] ELSE sock
    /\ canceller' = IF canceller.at = ReadsMax THEN [canceller EXCEPT !.pc = "woken", !.s = NoSock]
                    ELSE [canceller EXCEPT !.pc = "look", !.at = @ + 1, !.s = NoSock]
    /\ UNCHANGED <<g_cancel, g_reading, req>>

(* http_cancel_clear: the session's cancel is lifted at once, the leaving  *)
(* program's never.                                                        *)
CancelCleared ==
    /\ canceller.pc = "woken"
    /\ g_cancel' = FALSE
    /\ canceller' = NoCancel
    /\ UNCHANGED <<g_reading, sock, req>>

(* A sleep of the machine: every open socket is dead, and says nothing.    *)
SocketsDie == sock' = [s \in Socks |-> [sock[s] EXCEPT !.dead = sock[s].open]]

HttpStep(t) ==
    \/ HttpCancelled(t) \/ HttpUnbuilt(t) \/ HttpReuses(t) \/ HttpOpens(t) \/ HttpRegisters(t)
    \/ HttpInterrupted(t) \/ HttpBody(t) \/ HttpBodyBreaks(t) \/ HttpCloses(t)
HttpBound(t) == HttpNoReply(t) \/ HttpBodyTimesOut(t)

(* A cancel reaches every read that was registered when it began, though   *)
(* it walks the register without its lock and is lifted at once: by its    *)
(* end each has ended or has been woken.                                   *)
CancelReachesReads ==
    canceller.pc = "woken" => \A t \in canceller.caught : sock[req[t].s].woken

-----------------------------------------------------------------------------
(***************************************************************************)
(* One reply's body on its way from the socket to the caller (io/http.c,   *)
(* with the three sinks it is given: an API reply, a poster, a segment).   *)
(*                                                                         *)
(* The server frames the body in chunks, by its length or not at all, the  *)
(* network splits what it sends anywhere, the first piece comes with the   *)
(* headers, and the connection may end at any byte.  What the caller takes *)
(* for the reply must be the whole of it: a cut JSON body still parses, a  *)
(* cut JPEG still decodes and a cut segment still plays.                   *)
(***************************************************************************)
CONSTANTS Bodies,      \* the bodies a server may send, sequences of bytes (see below)
          BufferRoom,  \* how much a caller's buffer holds
          PieceMax     \* the most the network hands over in one read

ASSUME HttpAssumption ==
    Bodies \subseteq Seq(Int) /\ BufferRoom \in Nat /\ PieceMax \in Nat

VARIABLES wire,      \* what the server has sent and nobody has read
          body,      \* the body it is sending
          framing,   \* "chunked", "length" or "none"
          replied,   \* the status it came with
          caller,    \* whose sink it is: "request", "poster" or "segment"
          dc,        \* the dechunker, its sink and how that stands
          got,       \* how much of the body was read
          bodyPc     \* "headers", "body" or "done"

bodyVars == <<wire, body, framing, replied, caller, dc, got, bodyPc>>

Callers == {"request", "poster", "segment"}

(* A byte is a number: two end a line, one stands for a chunk extension,   *)
(* and one of Nat, where a size is read, for the digits of that size.      *)
CR == -1
LF == -2
Extension == -3

(* What the server may put on the wire for a body: every way to cut it     *)
(* into chunks, a size line with or without an extension, the zero chunk.  *)
(* A cut into k chunks says where each of them ends.                       *)
Cuts(n) == {q \in UNION {[0 .. k -> 0 .. n] : k \in 0 .. n} :
              LET k == Cardinality(DOMAIN q) - 1
              IN  q[0] = 0 /\ q[k] = n /\ \A i \in 1 .. k : q[i - 1] < q[i]}
SizeLine(n, ext) == <<n>> \o (IF ext THEN <<Extension>> ELSE <<>>) \o <<CR, LF>>
Chunk(b, from, to, ext) == SizeLine(to - from, ext) \o SubSeq(b, from + 1, to) \o <<CR, LF>>
Chunked(b, q, ext) ==
    LET k == Cardinality(DOMAIN q) - 1
        sent[i \in 0 .. k] ==
            IF i = 0 THEN <<>> ELSE sent[i - 1] \o Chunk(b, q[i - 1], q[i], ext)
    IN  sent[k] \o <<0, CR, LF, CR, LF>>
Wires(b, f) ==
    IF f = "chunked" THEN {Chunked(b, q, e) : q \in Cuts(Len(b)), e \in BOOLEAN} ELSE {b}

(* The sink the body is given: the caller's, or when the status is an      *)
(* error's the one that drops everything, for a caller that reads media.   *)
DropsIt == caller # "request" /\ replied \notin {200, 206}
SinkOf == IF DropsIt THEN "drop_sink" ELSE caller
Fresh == [chunked |-> framing = "chunked", sink |-> SinkOf,
          remaining |-> 0, in_header |-> FALSE, line |-> <<>>, done |-> FALSE,
          kept |-> <<>>, over |-> FALSE, stopped |-> FALSE]

BodyInit ==
    /\ body \in Bodies
    /\ framing \in {"chunked", "length", "none"}
    /\ wire \in Wires(body, framing)
    /\ replied \in {200, 206, 404}
    /\ caller \in Callers
    /\ dc = Fresh
    /\ got = 0
    /\ bodyPc = "headers"

(***************************************************************************)
(* The sinks.  Each refuses what would not fit, the API's one byte earlier *)
(* for the terminator, and a refusal stops the request.                    *)
(***************************************************************************)
Fits(d) == IF d.sink = "request" THEN Len(d.kept) + 1 < BufferRoom ELSE Len(d.kept) + 1 <= BufferRoom
Sink(d, c) ==
    IF d.sink = "drop_sink" THEN d
    ELSE IF Fits(d) THEN [d EXCEPT !.kept = Append(@, c)]
    ELSE [d EXCEPT !.over = TRUE, !.stopped = TRUE]

(* strtoul: the digits the line begins with, or nothing.                   *)
SizeOf(line) == IF line # <<>> /\ Head(line) \in Nat THEN Head(line) ELSE 0

(* One byte through the framing.  A run of a chunk's bytes is handed to    *)
(* the sink at once in the code; no sink can tell.                         *)
InHeader(d, c) ==
    IF c = LF
    THEN [d EXCEPT !.line = <<>>, !.remaining = SizeOf(d.line), !.in_header = FALSE,
                   !.done = SizeOf(d.line) = 0]
    ELSE IF c = CR THEN d ELSE [d EXCEPT !.line = Append(@, c)]
Byte(d, c) ==
    CASE ~d.chunked                                       -> Sink(d, c)
      [] d.chunked /\ d.in_header                         -> InHeader(d, c)
      [] d.chunked /\ ~d.in_header /\ d.remaining = 0     ->
            IF c \in {CR, LF} THEN d ELSE InHeader([d EXCEPT !.in_header = TRUE], c)
      [] d.chunked /\ ~d.in_header /\ d.remaining > 0     ->
            LET s == Sink(d, c) IN IF s.stopped THEN s ELSE [s EXCEPT !.remaining = @ - 1]
Fed(d, c) == IF d.done \/ d.stopped THEN d ELSE Byte(d, c)

(* dechunk_feed: what one read brought, up to the last chunk or a stop.    *)
dechunk_feed(d, piece) ==
    LET fed[i \in 0 .. Len(piece)] == IF i = 0 THEN d ELSE Fed(fed[i - 1], piece[i])
    IN  fed[Len(piece)]

(* A read, the one that finished the headers or a later one.               *)
Read(n) ==
    /\ n <= Len(wire)
    /\ dc' = dechunk_feed(dc, SubSeq(wire, 1, n))
    /\ got' = got + n
    /\ wire' = SubSeq(wire, n + 1, Len(wire))
    /\ bodyPc' = IF dc'.done \/ dc'.stopped THEN "done" ELSE "body"
    /\ UNCHANGED <<body, framing, replied, caller>>
BodyHeaders == bodyPc = "headers" /\ \E n \in 0 .. PieceMax : Read(n)
BodyRead == bodyPc = "body" /\ \E n \in 1 .. PieceMax : Read(n)

(* The connection ends: after the last byte, or cut.                       *)
BodyEnds ==
    /\ bodyPc = "body"
    /\ bodyPc' = "done"
    /\ UNCHANGED <<wire, body, framing, replied, caller, dc, got>>

(* A cancel seen between two reads.                                        *)
BodyCancelled ==
    /\ bodyPc = "body"
    /\ bodyPc' = "done"
    /\ dc' = [dc EXCEPT !.stopped = TRUE]
    /\ UNCHANGED <<wire, body, framing, replied, caller, got>>

BodyNext == BodyHeaders \/ BodyRead \/ BodyEnds \/ BodyCancelled
BodySpec == BodyInit /\ [][BodyNext]_bodyVars

(***************************************************************************)
(* What exec_request makes of it, and what each caller makes of that.      *)
(***************************************************************************)
(* A slip: a chunked body that ended is a body that is there.              *)
exec_result_TrustsTheEnd ==
    IF dc.stopped THEN "STOPPED"
    ELSE IF framing = "length" /\ got < Len(body) THEN "CUT" ELSE "OK"

EndsEarly ==
    \/ dc.chunked /\ ~dc.done
    \/ framing = "length" /\ got < Len(body)
exec_result == IF dc.stopped THEN "STOPPED" ELSE IF EndsEarly THEN "CUT" ELSE "OK"

(* http_request reports an overflow, not the stop it was made with.        *)
http_request_result == IF dc.over THEN "TOO_BIG" ELSE exec_result

seg_arrived == exec_result = "OK" /\ replied = 200 /\ dc.kept # <<>>
Taken ==
    CASE caller = "request" -> http_request_result = "OK" /\ replied = 200
      [] caller = "poster"  -> exec_result = "OK" /\ replied = 200 /\ ~dc.over
      [] caller = "segment" -> ~dc.over /\ seg_arrived

(* A body taken for a reply is the body the server sent, whole, whatever   *)
(* the splits and wherever the connection ended; only one framed in no way *)
(* at all may be short.  A media parser is never fed an error's page.      *)
BodyIsWhole ==
    /\ bodyPc = "done" /\ Taken =>
         \/ dc.kept = body
         \/ framing = "none" /\ wire # <<>>
    /\ DropsIt => dc.kept = <<>>
=============================================================================
