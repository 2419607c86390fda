------------------------------ MODULE Segments ------------------------------
(***************************************************************************)
(* The segments of a film, fetched one at a time (jelly/segments.c), with  *)
(* the next one asked for while this one's body arrives, on a socket of    *)
(* its own that the following fetch takes over.                            *)
(***************************************************************************)
EXTENDS Api

CONSTANTS feed,        \* the worker that fetches
          LastSeg,     \* the film's last segment
          MaxSleeps    \* sleeps of the machine

VARIABLES seg,         \* the fetch under way and the request sent ahead
          g_next_seg,  \* the segment the stream wants
          staged,      \* what was asked for and what the stage holds
          epoch,       \* standby_epoch
          sleeps,      \* sleeps so far, counted once the loop sees them
          leaving      \* the program cancels for good

ASSUME SegmentsAssumption ==
    /\ feed \in Threads \ ApiThreads /\ Nobody \notin Threads
    /\ NoSock \notin Socks /\ ReadsMax \in Nat \ {0} /\ LastSeg \in Nat

segVars == <<seg, g_next_seg, staged, epoch, sleeps, leaving>>
requestVars == <<httpVars, apiVars, segVars>>

NoSeg == -2
NoFetch == [pc |-> "idle", index |-> NoSeg, again |-> FALSE, token |-> 0, taken |-> NoSock,
            pre |-> NoSock, pre_seg |-> NoSeg, pre_epoch |-> 0, torn |-> FALSE]

SegmentsInit ==
    /\ seg = NoFetch /\ g_next_seg = 0 /\ staged = [want |-> NoSeg, got |-> NoSeg]
    /\ epoch = 0 /\ sleeps = 0 /\ leaving = FALSE

(* seg_close, on a fetch record.                                           *)
seg_close(r) == [r EXCEPT !.pre = NoSock, !.pre_seg = NoSeg, !.pre_epoch = 0, !.torn = FALSE]
Rest(r) == [r EXCEPT !.pc = "idle", !.index = NoSeg, !.again = FALSE, !.token = 0]
Next(i) == IF i < 0 \/ i + 1 > LastSeg THEN -1 ELSE i + 1

(* seg_open: another film, or the same from elsewhere.                     *)
SegOpens ==
    /\ seg.pc = "idle" /\ g_user_id
    /\ g_next_seg' \in 0 .. LastSeg
    /\ sock' = Closed(seg.pre)
    /\ seg' = seg_close(seg)
    /\ UNCHANGED <<g_cancel, g_reading, req, canceller, apiVars, staged, epoch, sleeps, leaving>>

(* seg_fetch, of the segment wanted or of the init; past the last one it   *)
(* is the end and nothing is asked.                                        *)
FetchBegins ==
    /\ seg.pc = "idle" /\ g_user_id
    /\ \E i \in {g_next_seg, -1} :
          /\ i <= LastSeg
          /\ seg' = [seg EXCEPT !.pc = "check", !.index = i, !.again = FALSE]
    /\ staged' = [want |-> NoSeg, got |-> NoSeg]
    /\ UNCHANGED <<httpVars, apiVars, g_next_seg, epoch, sleeps, leaving>>

(* A slip: any request sent ahead will do.                                 *)
Takes_Any(r) == r.index >= 0 /\ r.pre # NoSock

(* fetch_once: a request sent ahead in another waking is closed; the       *)
(* fetch's own is taken; another is closed unless it is the next one's.    *)
Takes(r) == r.index >= 0 /\ r.pre # NoSock /\ r.pre_seg = r.index
Drops(r) == r.index >= 0 /\ r.pre # NoSock /\ r.pre_seg # r.index /\ r.pre_seg # Next(r.index)

(* A slip: a request sent ahead is good whenever it was sent.              *)
Stale_Never(r) == FALSE
Stale(r) == r.pre # NoSock /\ r.pre_epoch # epoch
FetchChecks ==
    /\ seg.pc = "check"
    /\ \/ /\ Stale(seg) \/ (~Takes(seg) /\ Drops(seg))
          /\ sock' = Closed(seg.pre)
          /\ seg' = [seg_close(seg) EXCEPT !.pc = "ask", !.taken = NoSock]
       \/ /\ ~Stale(seg) /\ Takes(seg)
          /\ seg' = [seg_close(seg) EXCEPT !.pc = "ask", !.taken = seg.pre]
          /\ UNCHANGED sock
       \/ /\ ~Stale(seg) /\ ~Takes(seg) /\ ~Drops(seg)
          /\ seg' = [seg EXCEPT !.pc = "ask", !.taken = NoSock]
          /\ UNCHANGED sock
    /\ UNCHANGED <<g_cancel, g_reading, req, canceller, apiVars, g_next_seg, staged, epoch,
                   sleeps, leaving>>

(* jf_hls_url with the token now in force, and http_stream.                *)
FetchAsks ==
    /\ seg.pc = "ask" /\ Unlocked
    /\ req' = Begun(feed, Asks("seg", seg.index, g_token), seg.taken, TRUE)
    /\ seg' = [seg EXCEPT !.pc = "wire", !.token = g_token, !.taken = NoSock]
    /\ UNCHANGED <<g_cancel, g_reading, sock, canceller, apiVars, g_next_seg, staged, epoch,
                   sleeps, leaving>>

(* ask_next, between the headers and the body: seg_presend opens and sends *)
(* when there is a next one and none is out, and only then looks which     *)
(* waking it was sent in.                                                  *)
PresendSkips ==
    /\ req[feed].pc = "told" /\ seg.pc = "wire"
    /\ Next(seg.index) < 0 \/ seg.pre # NoSock
    /\ req' = [req EXCEPT ![feed].pc = "body"]
    /\ UNCHANGED <<g_cancel, g_reading, sock, canceller, apiVars, segVars>>
PresendSends ==
    /\ req[feed].pc = "told" /\ seg.pc = "wire" /\ Unlocked
    /\ Next(seg.index) >= 0 /\ seg.pre = NoSock
    /\ \/ \E s \in Given :
            /\ sock' = Sent(s, Asks("seg", Next(seg.index), g_token))
            /\ seg' = [seg EXCEPT !.pc = "noting", !.pre = s, !.torn = FALSE]
            /\ UNCHANGED req
       \/ /\ req' = [req EXCEPT ![feed].pc = "body"]
          /\ UNCHANGED <<sock, seg>>
    /\ UNCHANGED <<g_cancel, g_reading, canceller, apiVars, g_next_seg, staged, epoch, sleeps,
                   leaving>>
PresendNotes ==
    /\ seg.pc = "noting"
    /\ seg' = [seg EXCEPT !.pc = "wire", !.pre_seg = Next(seg.index), !.pre_epoch = epoch]
    /\ req' = [req EXCEPT ![feed].pc = "body"]
    /\ UNCHANGED <<g_cancel, g_reading, sock, canceller, apiVars, g_next_seg, staged, epoch,
                   sleeps, leaving>>

(***************************************************************************)
(* seg_verdict: mid-film a 404 and a silent connection mean the encoder    *)
(* has not got there yet, near the end they mean the end. A 416 and an     *)
(* empty 200 come to what a 404 comes to, and are one here.                *)
(***************************************************************************)
CONSTANT Slack         \* SEG_END_SLACK
near_the_end(i) == i >= LastSeg - Slack
seg_verdict(i, status, rc) ==
    CASE i < 0                       -> IF rc = "OK" /\ status = 200 THEN "ARRIVED" ELSE "FAILED"
      [] i >= 0 /\ rc = "NO_REPLY"   -> IF near_the_end(i) THEN "FAILED" ELSE "NOT_READY"
      [] i >= 0 /\ rc \notin {"OK", "NO_REPLY"} -> "FAILED"
      [] i >= 0 /\ rc = "OK"         ->
            IF status = 404 THEN (IF near_the_end(i) THEN "END" ELSE "NOT_READY")
            ELSE IF status = 200 THEN "ARRIVED" ELSE "FAILED"
Verdict == seg_verdict(seg.index, req[feed].status, req[feed].rc)

(* What the fetch came to.  A refusal is answered once; the stream closes  *)
(* what was sent ahead when the encoder is not there yet.                  *)
Arrives ==
    /\ Verdict = "ARRIVED"
    /\ staged' = [want |-> seg.index, got |-> req[feed].came.seg]
    /\ g_next_seg' = IF seg.index = g_next_seg THEN g_next_seg + 1 ELSE g_next_seg
    /\ seg' = Rest(seg)
    /\ UNCHANGED sock
FetchFails ==
    /\ Verdict # "ARRIVED"
    /\ IF Verdict = "FAILED" /\ req[feed].status = 401 /\ ~seg.again
       THEN seg' = [seg EXCEPT !.pc = "refused"] /\ UNCHANGED sock
       ELSE IF Verdict = "NOT_READY"
       THEN seg' = Rest(seg_close(seg)) /\ sock' = Closed(seg.pre)
       ELSE seg' = Rest(seg) /\ UNCHANGED sock
    /\ UNCHANGED <<staged, g_next_seg>>
FetchEnds ==
    /\ seg.pc = "wire" /\ Over(feed)
    /\ Arrives \/ FetchFails
    /\ req' = Idled(feed)
    /\ UNCHANGED <<g_cancel, g_reading, canceller, apiVars, epoch, sleeps, leaving>>

(* jf_reauth of the URL built, which is not the URL a request sent ahead   *)
(* carried; then what was sent ahead is closed and the segment asked anew. *)
AskAnew == [seg_close(seg) EXCEPT !.pc = "check", !.again = TRUE]
FeedReauth ==
    /\ seg.pc = "refused" /\ Unlocked
    /\ IF InForce(seg.token)
       THEN /\ SignInBegins(feed)
            /\ seg' = [seg EXCEPT !.pc = "signing"]
            /\ UNCHANGED sock
       ELSE /\ seg' = AskAnew
            /\ sock' = Closed(seg.pre)
            /\ UNCHANGED <<g_lock, req>>
    /\ UNCHANGED <<g_cancel, g_reading, canceller, g_token, g_user_id, call, live, issued, refused,
                   g_next_seg, staged, epoch, sleeps, leaving>>
FeedReauthDone ==
    /\ seg.pc = "signing" /\ Over(feed)
    /\ g_token' = TokenNow(feed)
    /\ IF SignedIn(feed) THEN seg' = AskAnew /\ sock' = Closed(seg.pre)
                         ELSE seg' = Rest(seg) /\ UNCHANGED sock
    /\ g_lock' = Nobody /\ req' = Idled(feed)
    /\ UNCHANGED <<g_cancel, g_reading, canceller, g_user_id, call, live, issued, refused,
                   g_next_seg, staged, epoch, sleeps, leaving>>

(***************************************************************************)
(* The machine sleeps; the loop counts it on its next frame, and the       *)
(* session's watch cancels what is in flight.  Leaving cancels for good.   *)
(***************************************************************************)
Sleep ==
    /\ sleeps < MaxSleeps
    /\ sleeps' = sleeps + 1
    /\ SocketsDie
    /\ seg' = [seg EXCEPT !.torn = @ \/ seg.pc = "noting"]
    /\ UNCHANGED <<g_cancel, g_reading, req, canceller, apiVars, g_next_seg, staged, epoch,
                   leaving>>
SleepCounted ==
    /\ canceller.pc = "idle" /\ epoch < sleeps
    /\ epoch' = sleeps
    /\ canceller' = [canceller EXCEPT !.pc = "watch"]
    /\ UNCHANGED <<g_cancel, g_reading, sock, req, apiVars, seg, g_next_seg, staged, sleeps,
                   leaving>>
LeavesForGood ==
    /\ canceller.pc = "idle" /\ ~leaving
    /\ leaving' = TRUE
    /\ canceller' = [canceller EXCEPT !.pc = "watch"]
    /\ UNCHANGED <<g_cancel, g_reading, sock, req, apiVars, seg, g_next_seg, staged, epoch, sleeps>>

FeedStep ==
    \/ FetchBegins \/ FetchChecks \/ FetchAsks \/ PresendSkips \/ PresendSends \/ PresendNotes
    \/ FetchEnds \/ FeedReauth \/ FeedReauthDone

RequestsInit == HttpInit /\ ApiInit /\ SegmentsInit
RequestsNext ==
    \/ \E t \in Threads : (HttpStep(t) \/ HttpBound(t)) /\ UNCHANGED <<apiVars, segVars>>
    \/ \E t \in Threads : (ServerSignsIn(t) \/ ServerAnswers(t)) /\ UNCHANGED segVars
    \/ ServerRevokes /\ UNCHANGED segVars
    \/ \E t \in ApiThreads : ApiStep(t) /\ UNCHANGED segVars
    \/ SegOpens \/ FeedStep
    \/ /\ CancelBegins \/ CancelLooks \/ CancelWakes \/ (~leaving /\ CancelCleared)
       /\ UNCHANGED <<apiVars, segVars>>
    \/ Sleep \/ SleepCounted \/ LeavesForGood
RequestsSpec == RequestsInit /\ [][RequestsNext]_requestVars

(***************************************************************************)
(* Properties.                                                             *)
(***************************************************************************)
(* What is staged as a segment is the segment that was asked for, though   *)
(* the socket it came on may have been sent ahead for another one.         *)
SegmentIsTheOneAsked == staged.want = staged.got

(* Every open socket has exactly one owner, who closes it: a request under *)
(* way, a request it was handed to, the fetch that is taking it, or the    *)
(* one kept ahead.  None is left behind on any return, none closed twice.  *)
Holders(s) == {t \in Threads : s \in {req[t].s, req[t].pre}}
Keeps(s) == {k \in {"pre", "taken"} : s = IF k = "pre" THEN seg.pre ELSE seg.taken}
EverySocketIsOwned ==
    \A s \in Socks : Cardinality(Holders(s)) + Cardinality(Keeps(s)) = IF sock[s].open THEN 1 ELSE 0

(* What http.c owes of its sockets: whoever holds one closes it, and a     *)
(* cancel gets to every one that is being read.                            *)
SocketsAreAnswered == CancelReachesReads /\ EverySocketIsOwned

(* A request sent ahead and killed by a sleep is never taken over once the *)
(* sleep is counted, unless the sleep fell inside the sending itself.      *)
DeadIsNotReused ==
    [][seg.pc = "check" /\ seg'.taken # NoSock /\ sock[seg'.taken].dead
         => epoch < sleeps \/ seg.torn]_requestVars

(* jelly/api.h: "Signs in again only if that token is still the one in     *)
(* force", of the URL "that carried the refused token".  A fetch that took *)
(* over a request sent ahead names the URL it would have sent itself, so   *)
(* a token renewed since is taken for the one refused.                     *)
FeedSignsInForTheRefused ==
    [][seg.pc = "refused" /\ seg'.pc = "signing" => g_token \in refused]_<<seg>>
=============================================================================
